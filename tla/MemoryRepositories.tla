------------------------- MODULE MemoryRepositories ------------------------
(***************************************************************************)
(* The repositories that createInMemoryRepositories hands to the tests.    *)
(* Every unit test of the services runs on them, the server on the         *)
(* database: a test says something of the server only as far as the one    *)
(* behaves like the other.                                                 *)
(*                                                                         *)
(* The callers look before they create (CallersLookFirst), since most keys *)
(* are kept unique by the database alone, and they vote and claim for      *)
(* items that there are (OnAnItem), as the database insists.               *)
(***************************************************************************)
EXTENDS MemoryStore

VARIABLES mem, focus, calls, now

vars == <<mem, focus, calls, now>>

QueueTables == {"queueItems", "queueSkipVotes", "karaokeClaims"}

\* The method of the table's class.
MethodOf(t, c, id) ==
    CASE t = "users" -> UsersMem(c, mem[t], id, now)
      [] t = "accounts" -> AccountsMem(c, mem[t], id, now)
      [] t = "memberships" -> MembershipsMem(c, mem[t], id, now)
      [] t = "authIdentities" -> AuthIdentitiesMem(c, mem[t], id, now)
      [] t = "authSessions" -> AuthSessionsMem(c, mem[t], id, now)
      [] t = "passwordCredentials" -> PasswordCredentialsMem(c, mem[t], id, now)
      [] t = "emailVerificationTokens" -> EmailVerificationTokensMem(c, mem[t], id, now)
      [] t = "passwordResetTokens" -> PasswordResetTokensMem(c, mem[t], id, now)
      [] t = "oauthStates" -> OAuthStatesMem(c, mem[t], id, now)
      [] t = "providerConnections" -> ProviderConnectionsMem(c, mem[t], id, now)
      [] t = "sessions" -> SessionsMem(c, mem[t], id, now)
      [] t = "guests" -> GuestsMem(c, mem[t], id, now)
      [] t = "guestSlots" -> GuestSlotsMem(c, mem[t], id, now)
      [] t = "fingerprintPriority" -> FingerprintPriorityMem(c, mem[t], id, now)
      [] t = "queueItems" -> QueueItemsMem(c, mem[t], id, now)
      [] t = "karaokeClaims" -> KaraokeClaimsMem(c, mem[t], id, now)
      [] t = "sessionAuditEvents" -> SessionAuditEventsMem(c, mem[t], id, now)
      [] t = "lyricsCache" -> LyricsCacheMem(c, mem[t], id, now)
      [] t = "lyricsFeedback" -> LyricsFeedbackMem(c, mem[t], id, now)
      [] t = "abuseSubjects" -> AbuseSubjectsMem(c, mem[t], id, now)
      [] t = "actionEvents" -> ActionEventsMem(c, mem[t], id, now)

MemAnswersOf(t) ==
    CASE t = "users" -> UsersMemAnswers(mem[t], now)
      [] t = "accounts" -> AccountsMemAnswers(mem[t], now)
      [] t = "memberships" -> MembershipsMemAnswers(mem[t], now)
      [] t = "authIdentities" -> AuthIdentitiesMemAnswers(mem[t], now)
      [] t = "authSessions" -> AuthSessionsMemAnswers(mem[t], now)
      [] t = "passwordCredentials" -> PasswordCredentialsMemAnswers(mem[t], now)
      [] t = "emailVerificationTokens" -> EmailVerificationTokensMemAnswers(mem[t], now)
      [] t = "passwordResetTokens" -> PasswordResetTokensMemAnswers(mem[t], now)
      [] t = "oauthStates" -> OAuthStatesMemAnswers(mem[t], now)
      [] t = "providerConnections" -> ProviderConnectionsMemAnswers(mem[t], now)
      [] t = "sessions" -> SessionsMemAnswers(mem[t], now)
      [] t = "guests" -> GuestsMemAnswers(mem[t], now)
      [] t = "guestSlots" -> GuestSlotsMemAnswers(mem[t], now)
      [] t = "fingerprintPriority" -> FingerprintPriorityMemAnswers(mem[t], now)
      [] t = "queueItems" -> QueueItemsMemAnswers(mem[t], now)
      [] t = "queueSkipVotes" -> QueueSkipVotesMemAnswers(mem[t], now)
      [] t = "karaokeClaims" -> KaraokeClaimsMemAnswers(mem[t], now)
      [] t = "sessionAuditEvents" -> SessionAuditEventsMemAnswers(mem[t], now)
      [] t = "lyricsCache" -> LyricsCacheMemAnswers(mem[t], now)
      [] t = "lyricsFeedback" -> LyricsFeedbackMemAnswers(mem[t], now)
      [] t = "abuseSubjects" -> AbuseSubjectsMemAnswers(mem[t], now)
      [] t = "actionEvents" -> ActionEventsMemAnswers(mem[t], now)

\* The keys that only the database keeps unique.
KeysOf(t, r) ==
    CASE t = "users" -> usersKeys(r)
      [] t = "accounts" -> accountsKeys(r)
      [] t = "memberships" -> membershipsKeys(r)
      [] t = "authIdentities" -> authIdentitiesKeys(r)
      [] t = "authSessions" -> authSessionsKeys(r)
      [] t = "passwordCredentials" -> passwordCredentialsKeys(r)
      [] t = "emailVerificationTokens" -> emailVerificationTokensKeys(r)
      [] t = "passwordResetTokens" -> passwordResetTokensKeys(r)
      [] t = "oauthStates" -> oauthStatesKeys(r)
      [] t = "providerConnections" -> providerConnectionsKeys(r)
      [] t = "sessions" -> sessionsKeys(r)
      [] t = "guests" -> guestsKeys(r)
      [] t = "guestSlots" -> guestSlotsKeys(r)
      [] t = "fingerprintPriority" -> fingerprintPriorityKeys(r)
      [] t = "queueItems" -> queueItemsKeys(r)
      [] t = "queueSkipVotes" -> queueSkipVotesKeys(r)
      [] t = "karaokeClaims" -> karaokeClaimsKeys(r)
      [] t = "sessionAuditEvents" -> sessionAuditEventsKeys(r)
      [] t = "lyricsCache" -> lyricsCacheKeys(r)
      [] t = "lyricsFeedback" -> lyricsFeedbackKeys(r)
      [] t = "abuseSubjects" -> abuseSubjectsKeys(r)
      [] t = "actionEvents" -> actionEventsKeys(r)

-----------------------------------------------------------------------------
\* queueSkipVotes counts on the items it shares.
AfterCall(t, c, id) ==
    IF t = "queueSkipVotes"
    THEN LET after == QueueSkipVotesMem(c, mem.queueSkipVotes, mem.queueItems, id, now)
         IN  [mem EXCEPT !.queueItems = after.items, !.queueSkipVotes = after.votes]
    ELSE [mem EXCEPT ![t] = MethodOf(t, c, id)]

CallersLookFirst(t, c, after) ==
    /\ c.op = "create" /\ after # mem[t] => Len(after) > Len(mem[t])
    /\ \A i, j \in DOMAIN after : i # j => KeysOf(t, after[i]) \cap KeysOf(t, after[j]) = {}

\* A vote or a claim is for an item of the queue.
OnAnItem(t, c) ==
    t \in {"queueSkipVotes", "karaokeClaims"} /\ "queueItemId" \in DOMAIN c =>
        \E r \in Range(mem.queueItems) : r.id = c.queueItemId

Init ==
    /\ mem = [t \in DOMAIN Tables |-> <<>>]
    /\ focus \in {QueueTables} \cup {{t} : t \in DOMAIN Tables \ QueueTables}
    /\ calls = 0
    /\ now = 0

Call(t) ==
    /\ calls < MaxCalls
    /\ calls' = calls + 1
    /\ \E c \in CallsOf(t) :
         /\ OnAnItem(t, c)
         /\ mem' = AfterCall(t, c, calls + 1)
         /\ CallersLookFirst(t, c, mem'[t])
    /\ UNCHANGED <<focus, now>>

Tick ==
    /\ now < MaxNow
    /\ now' = now + 1
    /\ UNCHANGED <<mem, focus, calls>>

Next == (\E t \in focus : Call(t)) \/ Tick

Spec == Init /\ [][Next]_vars

-----------------------------------------------------------------------------
(* The tables that the Maps stand for.  The database drops votes and claims *)
(* with their item; a Map keeps them.                                      *)
Stored ==
    [t \in DOMAIN Tables |->
        IF t \in {"queueSkipVotes", "karaokeClaims"}
        THEN {r \in Range(mem[t]) :
                \E i \in Range(mem.queueItems) : i.id = r.queueItemId}
        ELSE Range(mem[t])]

Database == INSTANCE Repositories WITH tables <- Stored

\* What a Map answers about the items that there are.  Deleting an item deletes
\* nothing else in the Maps, so they answer with its votes and its claims as well.
OfItems(t, query, arg, answer) ==
    CASE t = "queueSkipVotes" ->
           answer /\ \E i \in Range(mem.queueItems) : i.id = arg[1]
      [] t = "karaokeClaims" /\ query = "findByItemAndGuest" ->
           IF answer \in Stored[t] THEN answer ELSE None
      [] t = "karaokeClaims" /\ query # "findByItemAndGuest" ->
           Filter(answer, LAMBDA r : r \in Stored[t])
      [] OTHER -> answer

\* Whatever calls came before, a Map answers a query, about the items that there
\* are, with what the database may answer from the tables that the same calls
\* have made (drizzle/*.ts): the same row, the same count, the rows in an order
\* that the statement allows.
AnswersAgree ==
    \A t \in focus :
        LET answers == MemAnswersOf(t)
            allowed == Database!AnswersOf(t, Stored[t], now)
        IN  \A query \in DOMAIN allowed : \A arg \in DOMAIN allowed[query] :
                OfItems(t, query, arg, answers[query][arg]) \in allowed[query][arg]

\* And every call changes the Maps as a repository may change the tables: but for
\* what an upsert leaves out, as the SQL statement does.
ImplementsDatabase == Database!Spec
=============================================================================
