---------------------------- MODULE UpstreamAuth ----------------------------
(***************************************************************************)
(* Requests forwarded under forward_auth in its mode                       *)
(* oauth2_client_credentials and under retry                               *)
(* (src/app/plugins/forward_auth.py, src/app/plugins/retry.py).            *)
(*                                                                         *)
(* All requests share one entry of TOKEN_CACHE.  Between a request's look  *)
(* at the cache and its answer from the token endpoint others look, fetch, *)
(* are rejected and throw the entry away.  Tokens are numbered in the      *)
(* order they are issued; the upstream answers 401 to one that expired or  *)
(* was revoked.  Routes may put either plugin around the other.            *)
(***************************************************************************)
EXTENDS Naturals

CONSTANTS Requests,     \* requests being forwarded
          Retryable,    \* those whose method is in refresh_retry_methods (or
                        \* refresh_retry_all_methods), with refresh_on_401
          Attempts,     \* attempts of retry; 1 also where it is not configured
          AuthOutside,  \* those whose route orders forward_auth before retry
          Replies,      \* how long a token may last, in seconds, and whether
                        \* the endpoint's reply says so (expires_in)
          DefaultLife,  \* what expires_in is taken for if not stated; the
                        \* code's is 300
          Skew,         \* cache_skew_seconds
          Horizon,      \* bound: the clock stops here
          MaxRevoked    \* bound: only tokens up to this number are revoked

ASSUME UpstreamAuthAssumption ==
    /\ Retryable \subseteq Requests /\ AuthOutside \subseteq Requests
    /\ Attempts \in Nat \ {0} /\ DefaultLife \in Nat
    /\ Replies \subseteq [life : Nat, stated : BOOLEAN]
    /\ Skew \in Nat /\ Horizon \in Nat \ {0} /\ MaxRevoked \in Nat

VARIABLES now,       \* time.time()
          cache,     \* TOKEN_CACHE's entry: a token and its expires_at, or Empty
          issued,    \* token endpoint: how many tokens it has issued
          revoked,   \* upstream: tokens up to this number are revoked
          step,      \* where each request is
          attempt,   \* retry's loop variable
          refreshed, \* forward_auth is past its 401
          asked,     \* the `now` a request read before posting
          token,     \* the token a request has or is being sent
          calls,     \* history: calls made to the upstream
          known      \* history: tokens issued when a request was rejected

place == <<step, attempt, refreshed>>
world == <<now, issued, revoked>>
vars == <<now, cache, issued, revoked, step, attempt, refreshed, asked, token, calls, known>>

(* A token: its number, when it was issued, and the reply it came in. *)
Tokens == [no : Nat, at : Nat, life : Nat, stated : BOOLEAN]
NoToken == [no |-> 0, at |-> 0, life |-> 0, stated |-> TRUE]

Empty == [token |-> NoToken, until |-> 0]
Final == {"answered", "unavailable", "rejected", "error"}

Init ==
    /\ now = 1
    /\ cache = Empty
    /\ issued = 0
    /\ revoked = 0
    /\ step = [r \in Requests |-> "token"]
    /\ attempt = [r \in Requests |-> 1]
    /\ refreshed = [r \in Requests |-> FALSE]
    /\ asked = [r \in Requests |-> 0]
    /\ token = [r \in Requests |-> NoToken]
    /\ calls = [r \in Requests |-> 0]
    /\ known = [r \in Requests |-> 0]

-----------------------------------------------------------------------------
(* body.get("expires_in", 300). *)
ExpiresIn(t) == IF t.stated THEN t.life ELSE DefaultLife

(* Plausible defects of the operators below, used by no action. *)

UntilFromReply(r) == now + ExpiresIn(token[r])   \* no skew, the clock read late
ForgotNothing == cache                           \* the entry survives a 401
MayRefreshAgain(r) == r \in Retryable
SameAttempt(r) == attempt[r]

-----------------------------------------------------------------------------

Cached == cache # Empty /\ cache.until > now

(* max(1, expires_in - skew_seconds). *)
KeptFor(life) == IF life > Skew THEN life - Skew ELSE 1

Until(r) == asked[r] + KeptFor(ExpiresIn(token[r]))

MayRetry(r) == attempt[r] < Attempts
NextAttempt(r) == attempt[r] + 1
MayRefresh(r) == ~refreshed[r] /\ r \in Retryable

(* TOKEN_CACHE after force_refresh popped the entry. *)
Forgotten == Empty

Valid(t) == t.no > revoked /\ now < t.at + t.life

Goes(r, where) == step' = [step EXCEPT ![r] = where]

(* _fetch_oauth_token: the cached token is used at once ... *)
Reuse(r) ==
    /\ step[r] = "token"
    /\ Cached
    /\ token' = [token EXCEPT ![r] = cache.token]
    /\ Goes(r, "call")
    /\ UNCHANGED <<cache, attempt, refreshed, asked, calls, known, world>>

(* ... and without one, the endpoint is asked. *)
Post(r) ==
    /\ step[r] = "token"
    /\ ~Cached
    /\ asked' = [asked EXCEPT ![r] = now]
    /\ Goes(r, "post")
    /\ UNCHANGED <<cache, attempt, refreshed, token, calls, known, world>>

(* The endpoint issues a token. *)
Issue(r) ==
    /\ step[r] = "post"
    /\ issued' = issued + 1
    /\ \E reply \in Replies :
          token' = [token EXCEPT ![r] = [no |-> issued', at |-> now, life |-> reply.life,
                                         stated |-> reply.stated]]
    /\ Goes(r, "reply")
    /\ UNCHANGED <<now, revoked, cache, attempt, refreshed, asked, calls, known>>

(* Its answer arrives and replaces whatever the cache holds by then. *)
Store(r) ==
    /\ step[r] = "reply"
    /\ cache' = [token |-> token[r], until |-> Until(r)]
    /\ Goes(r, "call")
    /\ UNCHANGED <<attempt, refreshed, asked, token, calls, known, world>>

(* retry, when what it wraps failed: once more, or that was the last.      *)
Again(r, where, last) ==
    \/ /\ MayRetry(r)
       /\ attempt' = [attempt EXCEPT ![r] = NextAttempt(r)]
       /\ Goes(r, where)
       /\ refreshed' = [refreshed EXCEPT ![r] = r \in AuthOutside /\ @]
    \/ /\ ~MayRetry(r)
       /\ Goes(r, last)
       /\ UNCHANGED <<attempt, refreshed>>

(* The endpoint refuses, times out or sends no token: forward_auth raises, *)
(* into retry if that is outside.                                          *)
PostRaises(r) ==
    /\ step[r] \in {"post", "reply"}
    /\ IF r \in AuthOutside THEN Goes(r, "error") /\ UNCHANGED <<attempt, refreshed>>
       ELSE Again(r, "token", "error")
    /\ UNCHANGED <<cache, asked, token, calls, known, world>>

(* The history counter stops one above its bound. *)
CallsCap == 2 * Attempts + 1
Called(r) == calls' = [calls EXCEPT ![r] = IF @ < CallsCap THEN @ + 1 ELSE @]

(* The upstream raises or answers a status of retry_on. *)
Unavailable(r) ==
    /\ step[r] = "call"
    /\ Again(r, IF r \in AuthOutside THEN "call" ELSE "token", "unavailable")
    /\ Called(r)
    /\ UNCHANGED <<cache, asked, token, known, world>>

(* It answers anything else. *)
Answer(r) ==
    /\ step[r] = "call"
    /\ Valid(token[r])
    /\ Goes(r, "answered")
    /\ Called(r)
    /\ UNCHANGED <<cache, attempt, refreshed, asked, token, known, world>>

(* 401, the first: the cached token is thrown away, whichever it is by now,*)
(* and the endpoint asked again, in one step.  A retry inside forward_auth *)
(* starts its count anew.                                                  *)
RejectedOnce(r) ==
    /\ step[r] = "call"
    /\ ~Valid(token[r])
    /\ MayRefresh(r)
    /\ UNCHANGED world
    /\ cache' = Forgotten
    /\ refreshed' = [refreshed EXCEPT ![r] = TRUE]
    /\ attempt' = IF r \in AuthOutside THEN [attempt EXCEPT ![r] = 1] ELSE attempt
    /\ known' = [known EXCEPT ![r] = issued]
    /\ Called(r)
    /\ IF Cached' THEN /\ token' = [token EXCEPT ![r] = cache'.token]
                       /\ Goes(r, "call")
                       /\ UNCHANGED asked
       ELSE /\ asked' = [asked EXCEPT ![r] = now]
            /\ Goes(r, "post")
            /\ UNCHANGED token

(* 401 again, or for a method that is not called twice. *)
Rejected(r) ==
    /\ step[r] = "call"
    /\ ~Valid(token[r])
    /\ ~MayRefresh(r)
    /\ Goes(r, "rejected")
    /\ Called(r)
    /\ UNCHANGED <<cache, attempt, refreshed, asked, token, known, world>>

Tick ==
    /\ now < Horizon
    /\ now' = now + 1
    /\ UNCHANGED <<cache, issued, revoked, place, asked, token, calls, known>>

(* The tokens issued so far are revoked (a key rotates, a client secret    *)
(* changes).                                                               *)
Revoke ==
    /\ revoked < issued /\ issued <= MaxRevoked
    /\ revoked' = issued
    /\ UNCHANGED <<now, cache, issued, place, asked, token, calls, known>>

Forward(r) ==
    \/ Reuse(r) \/ Post(r) \/ Issue(r) \/ Store(r) \/ PostRaises(r)
    \/ Unavailable(r) \/ Answer(r) \/ RejectedOnce(r) \/ Rejected(r)

Next == (\E r \in Requests : Forward(r)) \/ Tick \/ Revoke

Spec == Init /\ [][Next]_vars

(* Sleeps end, the endpoint is given a timeout and aiohttp gives up on the *)
(* upstream in time: every request moves on.                               *)
FairSpec == Spec /\ \A r \in Requests : WF_vars(Forward(r))

-----------------------------------------------------------------------------

TypeOK ==
    /\ now \in 1 .. Horizon
    /\ issued \in Nat
    /\ cache \in [token : Tokens, until : Nat] /\ cache.token.no <= issued
    /\ revoked \in 0 .. issued
    /\ step \in [Requests -> Final \cup {"token", "post", "reply", "call"}]
    /\ attempt \in [Requests -> 1 .. Attempts]
    /\ refreshed \in [Requests -> BOOLEAN]
    /\ asked \in [Requests -> 0 .. now]
    /\ token \in [Requests -> Tokens] /\ \A r \in Requests : token[r].no <= issued
    /\ \A r \in Requests : step[r] \in {"reply", "call"} => token[r].no # 0
    /\ calls \in [Requests -> 0 .. CallsCap]
    /\ known \in [Requests -> 0 .. issued]

(* A cached token is not kept past its own end, however long the endpoint  *)
(* took to answer: expires_at counts from before the question.  Past it it *)
(* is kept, at most a second, if the endpoint called it expired at once    *)
(* (max(1, ...)); and, if the endpoint did not say when it ends, for what  *)
(* the default leaves, counted from when it was issued at the latest.      *)
InTime(until, t) ==
    \/ until <= t.at + t.life
    \/ t.life = 0 /\ until <= t.at + 1
    \/ ~t.stated /\ until <= t.at + KeptFor(DefaultLife)

CacheEndsInTime == cache # Empty => InTime(cache.until, cache.token)

(* The upstream sees a request at most Attempts times, twice that if it    *)
(* may be repeated under a new token, and never a second time just because *)
(* of a 401 if its method is not one of refresh_retry_methods.             *)
CallsBounded ==
    \A r \in Requests : calls[r] <= (IF r \in Retryable THEN 2 ELSE 1) * Attempts

(* A client sees the upstream's 401 for a request that may be repeated     *)
(* only if a token issued after an earlier 401 of the same request was     *)
(* refused as well, whatever other requests did to the cache meanwhile.    *)
RejectedUnderNewToken ==
    \A r \in Retryable : step[r] = "rejected" => known[r] > 0 /\ token[r].no > known[r]

(* Every request ends, retries and refreshes included. *)
EveryRequestEnds == \A r \in Requests : <>(step[r] \in Final)
=============================================================================
