--------------------------- MODULE ProviderCalls ---------------------------
(***************************************************************************)
(* The calls to the host's music provider, whoever makes them:             *)
(*   packages/backend/src/providers/streaming/StreamingRouter.ts,          *)
(*   ProviderCooldowns.ts, spotify/client.ts, spotify/SpotifyProvider.ts   *)
(*   packages/backend/src/routes/playback.ts, devices.ts, search.ts,       *)
(*   providerOAuth.ts, and the poller's own calls.                         *)
(*                                                                         *)
(* Every call gets a provider, so a client, of its own, with the tokens    *)
(* the connection had then; the cooldown of the account is shared. One     *)
(* account, connected to one provider. Time is counted down: a value is    *)
(* what remains.                                                           *)
(***************************************************************************)
EXTENDS Sessions

CONSTANTS
    Poller,        \* the caller that polls what is playing
    Guests,        \* callers that search
    Host,          \* the caller that controls playback
    Queries,       \* cache keys of searches
    Waits,         \* values of Retry-After, 0 for none
    DefaultWait,   \* DEFAULT_RETRY_AFTER_SEC
    Ttl,           \* SEARCH_CACHE_TTL_MS
    Interval       \* intervalMs of the poller

Callers == {Poller, Host} \cup Guests

ASSUME ProviderCallsAssumption ==
    /\ Waits \subseteq Nat /\ DefaultWait \in Nat \ {0}
    /\ Ttl \in Nat \ {0} /\ Interval \in Nat \ {0}

VARIABLES
    row,       \* None, or the tokens in provider_connections
    until,     \* ProviderCooldowns: what is left of the open cooldown
    told,      \* history: what is left of the longest wait that a 429 received
               \* by this process asked for
    call,      \* caller -> its call
    cache,     \* search cache: query -> entry
    next,      \* the poller: time to its next tick
    banner,    \* providerStatus in the room's snapshot
    polled,    \* the poller has cached the account and the provider
    oauth,     \* the host's connect-provider flow
    accepted,  \* the provider: access tokens it takes
    renewable, \* the provider: refresh tokens it takes
    issued     \* the provider: access tokens issued

provider == <<accepted, renewable, issued>>
screen == <<next, banner, polled>>
pvars == <<row, until, told, call, cache, screen, oauth, provider>>
vars == <<svars, left, pvars>>

-----------------------------------------------------------------------------
\* The request an operation of the provider starts with.
Needs == [poll |-> "currently-playing", search |-> "search", push |-> "enqueue", skip |-> "next",
          pause |-> "pause", resume |-> "play", devices |-> "devices", activate |-> "transfer"]

\* at: idle -> ready -> sending <-> waiting -> idle, with saving for a fresh
\* token, or shared: waiting for the search of the owner.
NoCall == [at |-> "idle", op |-> "poll", request |-> "none", query |-> None, owner |-> None,
           access |-> 0, refresh |-> 0, renewing |-> FALSE, rotated |-> FALSE,
           isRetry |-> FALSE, fresh |-> 0]

NoEntry == [owner |-> None, expires |-> 0]

NewTokens(n) == [access |-> n, refresh |-> n]

ProviderInit ==
    /\ \E e \in Scenarios : left = e.left /\ row = IF e.connected THEN NewTokens(1) ELSE None
    /\ accepted = {1} /\ renewable = {1} /\ issued = 1
    /\ until = 0 /\ told = 0 /\ oauth = "none"
    /\ call = [c \in Callers |-> NoCall] /\ cache = [q \in Queries |-> NoEntry]
    /\ next = 0 /\ banner = "ok" /\ polled = FALSE

Init == SessionsInit /\ ProviderInit

-----------------------------------------------------------------------------
\* ProviderCooldowns.

CoolingDown == until > 0

ParseRetryAfter(header) == IF header > 0 THEN header ELSE DefaultWait

\* Faulty variant: the last 429 counts.
RecordLast(wait) == wait

\* An open cooldown is never shortened.
Record(wait) == IF CoolingDown /\ until >= wait THEN until ELSE wait

\* A cooldown that opens or grows is shown at once in a polled session.
NotifyRateLimited(wait) == IF polled /\ Record(wait) # until THEN "rate_limited" ELSE banner

-----------------------------------------------------------------------------
\* How a call ends.

\* Faulty variant: whatever entry the query has by now is evicted.
EvictAny(c, ok) ==
    [q \in Queries |-> IF ~ok /\ call[c].query = q THEN NoEntry
                       ELSE IF cache[q].owner = c THEN [cache[q] EXCEPT !.owner = None]
                       ELSE cache[q]]

\* A search that fails leaves the cache, unless its entry was replaced; one
\* that succeeds stays until it expires. Whoever shares it ends with it.
Evict(c, ok) ==
    [q \in Queries |-> IF cache[q].owner # c THEN cache[q]
                       ELSE IF ok THEN [cache[q] EXCEPT !.owner = None] ELSE NoEntry]

Settle(c, ok) ==
    /\ cache' = Evict(c, ok)
    /\ call' = [d \in Callers |-> IF c \in {d, call[d].owner} THEN NoCall ELSE call[d]]

Done(c, ok) ==
    /\ Settle(c, ok)
    /\ next' = IF c = Poller THEN Interval ELSE next

\* The tick ends at once, waits for the end of the cooldown, and says so.
TickLimited(wait) ==
    /\ Settle(Poller, FALSE)
    /\ banner' = "rate_limited"
    /\ next' = Max({2 * Interval, IF wait > 0 THEN wait + 1 ELSE 0})

\* Only a tick's first request ends it: the failure of a later one is logged,
\* and one to renew the token counts as invalid credentials.
EndsTick(c) == call[c].request = Needs["poll"] /\ ~call[c].renewing

-----------------------------------------------------------------------------
\* A call begins: the route or the tick has found an open session, and the
\* router has built a provider from the stored tokens.

Ready(op, q) ==
    [NoCall EXCEPT !.at = IF op = "search" THEN "ready" ELSE "sending", !.op = op,
                   !.request = Needs[op], !.query = q, !.access = row.access, !.refresh = row.refresh]

GetProvider(c, op, q) ==
    /\ call[c].at = "idle" /\ OpenIds # {}
    /\ IF c = Poller THEN next = 0 /\ UNCHANGED left ELSE Spend("call")
    /\ call' = IF row = None THEN call ELSE [call EXCEPT ![c] = Ready(op, q)]
    /\ polled' = (polled \/ (c = Poller /\ row # None))
    /\ next' = IF c = Poller /\ row = None THEN Interval ELSE next
    /\ UNCHANGED <<svars, row, until, told, cache, banner, oauth, provider>>

\* guardFetch refuses, and no request leaves, while the account cools down.
Send(c) ==
    /\ call[c].at = "sending"
    /\ \/ /\ ~CoolingDown
          /\ call' = [call EXCEPT ![c].at = "waiting"]
          /\ UNCHANGED <<cache, next, banner>>
       \/ /\ CoolingDown
          /\ IF EndsTick(c) THEN TickLimited(until) ELSE Done(c, FALSE) /\ UNCHANGED banner
    /\ UNCHANGED <<svars, left, row, until, told, polled, oauth, provider>>

\* A cached search answers, or is waited for; else the search is cached and
\* sent at once.
Search(c) ==
    LET q == call[c].query IN
    /\ call[c].at = "ready"
    /\ \/ /\ cache[q].expires > 0
          /\ call' = [call EXCEPT ![c] = IF cache[q].owner = None THEN NoCall
                                         ELSE [@ EXCEPT !.at = "shared", !.owner = cache[q].owner]]
          /\ UNCHANGED cache
       \/ /\ cache[q].expires = 0
          /\ cache' = [cache EXCEPT ![q] = IF CoolingDown THEN NoEntry
                                           ELSE [owner |-> c, expires |-> Ttl]]
          /\ call' = [call EXCEPT ![c] = IF CoolingDown THEN NoCall
                                         ELSE [@ EXCEPT !.at = "waiting", !.fresh = Ttl]]
    /\ UNCHANGED <<svars, left, row, until, told, screen, oauth, provider>>

-----------------------------------------------------------------------------
\* The provider answers.

Waiting(c) == call[c].at = "waiting" /\ ~call[c].renewing

\* Another request of the same call, with a retry of its own.
Follow(c, request) ==
    /\ call' = [call EXCEPT ![c].at = "sending", ![c].request = request, ![c].isRetry = FALSE]
    /\ UNCHANGED <<cache, next>>

\* Faulty variant: the notice stays.
StatusKept(c) == banner

\* The answer to a tick's first request ends a shown cooldown.
StatusAfter(c) == IF EndsTick(c) THEN "ok" ELSE banner

\* The tick may go on; resuming on a device needs one that is not restricted.
Answered(c) ==
    /\ Waiting(c) /\ call[c].access \in accepted
    /\ banner' = StatusAfter(c)
    /\ \/ Done(c, TRUE)
       \/ EndsTick(c) /\ Follow(c, "queue")
       \/ call[c].op = "resume" /\ call[c].request = Needs["devices"] /\ Follow(c, Needs["activate"])
    /\ UNCHANGED <<svars, left, row, until, told, polled, oauth, provider>>

\* A rejected token is renewed once per request.
Unauthorized(c) ==
    /\ Waiting(c) /\ call[c].access \notin accepted
    /\ IF call[c].isRetry THEN Done(c, FALSE)
       ELSE /\ call' = [call EXCEPT ![c].at = "sending", ![c].renewing = TRUE]
            /\ UNCHANGED <<cache, next>>
    /\ UNCHANGED <<svars, left, row, until, told, banner, polled, oauth, provider>>

\* The provider may issue a new refresh token with it, in place of the old.
Renewed(c, rotated) ==
    LET n == issued + 1 IN
    /\ call[c].at = "waiting" /\ call[c].renewing /\ call[c].refresh \in renewable
    /\ issued' = n /\ accepted' = accepted \cup {n}
    /\ renewable' = IF rotated THEN (renewable \ {call[c].refresh}) \cup {n} ELSE renewable
    /\ call' = [call EXCEPT ![c].at = "saving", ![c].access = n, ![c].rotated = rotated,
                            ![c].refresh = IF rotated THEN n ELSE @]
    /\ UNCHANGED <<svars, left, row, until, told, cache, screen, oauth>>

NotRenewed(c) ==
    /\ call[c].at = "waiting" /\ call[c].renewing /\ call[c].refresh \notin renewable
    /\ Done(c, FALSE)
    /\ UNCHANGED <<svars, left, row, until, told, banner, polled, oauth, provider>>

\* The row of the connection is written, whatever it holds by now.
UpdateTokens(c) ==
    /\ call[c].at = "saving"
    /\ row' = [access |-> call[c].access,
               refresh |-> IF call[c].rotated THEN call[c].refresh ELSE row.refresh]
    /\ call' = [call EXCEPT ![c].at = "sending", ![c].renewing = FALSE, ![c].isRetry = TRUE]
    /\ UNCHANGED <<svars, left, until, told, cache, screen, oauth, provider>>

TooManyRequests(c, header) ==
    LET wait == ParseRetryAfter(header) IN
    /\ call[c].at = "waiting" /\ Spend("limit")
    /\ until' = Record(wait) /\ told' = Max({told, wait})
    /\ IF EndsTick(c) THEN TickLimited(header)
       ELSE Done(c, FALSE) /\ banner' = NotifyRateLimited(wait)
    /\ UNCHANGED <<svars, row, polled, oauth, provider>>

\* Resuming falls back to another device.
NoActiveDevice(c) ==
    /\ Waiting(c) /\ call[c].request \in {Needs[op] : op \in {"push", "skip", "pause", "resume"}}
    /\ Spend("fault")
    /\ IF call[c].request = Needs["resume"] THEN Follow(c, Needs["devices"]) ELSE Done(c, FALSE)
    /\ UNCHANGED <<svars, row, until, told, banner, polled, oauth, provider>>

\* Any other failure: of the provider, the network, or of saving a token.
Broken(c) ==
    /\ call[c].at \in {"waiting", "saving"} /\ Spend("fault")
    /\ Done(c, FALSE)
    /\ UNCHANGED <<svars, row, until, told, banner, polled, oauth, provider>>

-----------------------------------------------------------------------------
\* The host connects the provider, again perhaps.

StartConnect ==
    /\ oauth = "none" /\ Spend("connect") /\ oauth' = "issued"
    /\ UNCHANGED <<svars, row, until, told, call, cache, screen, provider>>

\* A state is good for one callback: it is dropped before the exchange.
Callback ==
    /\ oauth = "issued" /\ oauth' = "exchanging"
    /\ UNCHANGED <<svars, left, row, until, told, call, cache, screen, provider>>

SwitchProvider ==
    LET n == issued + 1 IN
    /\ oauth = "exchanging" /\ oauth' = "none"
    /\ \/ UNCHANGED <<row, provider>>
       \/ /\ row' = NewTokens(n) /\ issued' = n
          /\ accepted' = accepted \cup {n} /\ renewable' = renewable \cup {n}
    /\ UNCHANGED <<svars, left, until, told, call, cache, screen>>

-----------------------------------------------------------------------------
Expire ==
    /\ Spend("expire") /\ accepted' = {}
    /\ UNCHANGED <<svars, row, until, told, call, cache, screen, oauth, renewable, issued>>

Less(n) == IF n > 0 THEN n - 1 ELSE 0

Clock ==
    /\ until' = Less(until) /\ told' = Less(told) /\ next' = Less(next)
    /\ cache' = [q \in Queries |-> [cache[q] EXCEPT !.expires = Less(@)]]
    /\ call' = [c \in Callers |-> [call[c] EXCEPT !.fresh = Less(@)]]
    /\ UNCHANGED <<svars, left, row, banner, polled, oauth, provider>>

\* The process forgets its cooldowns, its caches and its rooms.
Restart ==
    /\ Spend("restart") /\ ForgetRequests
    /\ until' = 0 /\ told' = 0 /\ next' = 0 /\ banner' = "ok" /\ polled' = FALSE
    /\ call' = [c \in Callers |-> NoCall] /\ cache' = [q \in Queries |-> NoEntry]
    /\ oauth' = IF oauth = "exchanging" THEN "none" ELSE oauth
    /\ UNCHANGED <<row, provider>>

\* Who calls. A tick reads what is playing, then perhaps the queue; its
\* pushes and skips go the way of the queue read.
Tick == GetProvider(Poller, "poll", None)

RunAction == \E op \in {"skip", "pause", "resume"} : GetProvider(Host, op, None)

UseDevices == \E op \in {"devices", "activate"} : GetProvider(Host, op, None)

\* The host approves a request.
PushToProviderQueue == GetProvider(Host, "push", None)

AskSearch(c) == \E q \in Queries : GetProvider(c, "search", q)

Moves(c) ==
    \/ Send(c) \/ Search(c) \/ Answered(c) \/ Unauthorized(c) \/ NotRenewed(c) \/ UpdateTokens(c)
    \/ \E rotated \in BOOLEAN : Renewed(c, rotated)

Fails(c) ==
    \/ NoActiveDevice(c) \/ Broken(c)
    \/ \E header \in Waits : TooManyRequests(c, header)

Next ==
    \/ SessionsNext /\ UNCHANGED pvars
    \/ Tick \/ RunAction \/ UseDevices \/ PushToProviderQueue
    \/ \E c \in Guests : AskSearch(c)
    \/ \E c \in Callers : Moves(c) \/ Fails(c)
    \/ StartConnect \/ Callback \/ SwitchProvider
    \/ Expire \/ Clock \/ Restart

Spec == Init /\ [][Next]_vars

\* Time passes, the poller's timer fires, and the provider answers it. The
\* rest need not happen.
FairSpec == Spec /\ WF_vars(Clock) /\ WF_vars(Tick \/ Moves(Poller))

-----------------------------------------------------------------------------
\* No request reaches the provider before the end of the longest wait any 429
\* asked for (ProviderCooldowns.ts:80-97), although calls that were let
\* through earlier report theirs late, in any order and shorter, and a token
\* may have to be renewed between two requests of a call.
CallsRespectWindows ==
    [][\A c \in Callers : call[c].at # "waiting" /\ call'[c].at = "waiting" => told = 0]_vars

\* Two searches for the same thing do not run at the same time within the
\* life of an entry (search.ts:71-93), although an earlier one that outlived
\* its entry fails meanwhile.
OneSearchPerKey ==
    \A q \in Queries :
        Cardinality({c \in Callers : call[c].query = q /\ call[c].fresh > 0
                                     /\ call[c].at \in {"sending", "waiting", "saving"}}) <= 1

\* Screens do not keep telling that the provider is limiting the party: while
\* the session is open and the stored token good, the notice goes
\* (NowPlayingPoller.ts:434-437), whatever calls of others are refused.
BannerClears ==
    <>[](OpenIds # {} /\ row # None /\ row.access \in accepted)
        => (banner = "rate_limited" ~> banner = "ok")
=============================================================================
