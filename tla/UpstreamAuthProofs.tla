------------------------- MODULE UpstreamAuthProofs -------------------------
(***************************************************************************)
(* For any number of requests and attempts, any skew and any replies: the  *)
(* token cache ends in time, upstream is called a bounded number of times, *)
(* and a 401 reaches the client of a repeatable request only under a new   *)
(* token.  IInv is inductive: a token on its way to the cache will not     *)
(* outlive itself (ReplyEndsInTime), the calls made follow from the        *)
(* attempt and from whether the 401 was had (CallsCounted), and after it   *)
(* every token is newer than it (RefreshedIsNew).                          *)
(*                                                                         *)
(* The second part is about the other thing the gateway keeps of upstream: *)
(* the response cache.  For any requests, tenants, paths, TTLs and delays  *)
(* a hit is an answer to a request of the same key, which is an equal one  *)
(* of the same tenant unless the key is ambiguous, and is out of date for  *)
(* a bounded time only.  CacheInv says of what Redis holds under a key     *)
(* whose answer it is (EntriesOwn), and trades the age of the answer       *)
(* against the life it has left (EntriesYoung).                            *)
(***************************************************************************)
EXTENDS UpstreamAuth, ResponseCache, SequenceTheorems, TLAPS

(* The cache holds a token that was issued. *)
CacheIssued == cache # Empty => cache.token.no # 0

(* A token that was posted for was asked for before it was issued. *)
ReplyEndsInTime ==
    \A r \in Requests : step[r] = "reply" => InTime(Until(r), token[r])

(* The calls a request can have made before the one that may come next. *)
CallsBefore(r) ==
    IF r \in AuthOutside
    THEN (IF refreshed[r] THEN Attempts ELSE 0) + attempt[r] - 1
    ELSE IF r \in Retryable
    THEN 2 * (attempt[r] - 1) + (IF refreshed[r] THEN 1 ELSE 0)
    ELSE attempt[r] - 1

CallsCounted ==
    \A r \in Requests :
        /\ refreshed[r] => r \in Retryable
        /\ step[r] \notin Final => calls[r] <= CallsBefore(r)

RefreshedIsNew ==
    \A r \in Requests :
        /\ step[r] = "token" => ~refreshed[r]
        /\ refreshed[r] /\ step[r] \in {"post", "reply", "call"} => known[r] > 0
        /\ refreshed[r] /\ step[r] \in {"reply", "call"} => token[r].no > known[r]

IInv ==
    /\ TypeOK
    /\ CacheIssued /\ ReplyEndsInTime /\ CacheEndsInTime
    /\ CallsCounted /\ CallsBounded
    /\ RefreshedIsNew /\ RejectedUnderNewToken

-----------------------------------------------------------------------------

(* TypeOK in two parts: where the requests are, and what tokens they hold. *)
PlacesOK ==
    /\ step \in [Requests -> Final \cup {"token", "post", "reply", "call"}]
    /\ attempt \in [Requests -> 1 .. Attempts]
    /\ refreshed \in [Requests -> BOOLEAN]
    /\ calls \in [Requests -> 0 .. CallsCap]

TokensOK ==
    /\ now \in 1 .. Horizon
    /\ issued \in Nat
    /\ cache \in [token : Tokens, until : Nat] /\ cache.token.no <= issued
    /\ revoked \in 0 .. issued
    /\ asked \in [Requests -> 0 .. now]
    /\ token \in [Requests -> Tokens] /\ \A r \in Requests : token[r].no <= issued
    /\ known \in [Requests -> 0 .. issued]

HasToken == \A r \in Requests : step[r] \in {"reply", "call"} => token[r].no # 0

LEMMA TypeOKParts == TypeOK <=> PlacesOK /\ TokensOK /\ HasToken
BY DEF TypeOK, PlacesOK, TokensOK, HasToken

(* Where the requests are. *)
LEMMA PlacesStep ==
    ASSUME PlacesOK, [Next]_vars
    PROVE  PlacesOK'
<1> USE UpstreamAuthAssumption DEF Goes, Final
<1>1. ASSUME NEW r \in Requests, Called(r) PROVE calls' \in [Requests -> 0 .. CallsCap]
  BY <1>1 DEF PlacesOK, Called, CallsCap
<1>2. ASSUME NEW r \in Requests, Reuse(r) \/ Post(r) \/ Issue(r) \/ Store(r) PROVE PlacesOK'
  BY <1>2 DEF PlacesOK, Reuse, Post, Issue, Store
<1>3. ASSUME NEW r \in Requests, NEW where \in {"call", "token"},
             NEW last \in {"error", "unavailable"}, Again(r, where, last),
             calls' \in [Requests -> 0 .. CallsCap]
      PROVE  PlacesOK'
  <2>1. attempt' \in [Requests -> 1 .. Attempts]
    <3>1. MayRetry(r) => NextAttempt(r) \in 1 .. Attempts
      BY DEF PlacesOK, MayRetry, NextAttempt
    <3> QED
      BY <1>3, <3>1 DEF PlacesOK, Again
  <2>2. refreshed' \in [Requests -> BOOLEAN]
    BY <1>3, Zenon DEF PlacesOK, Again
  <2>3. step' \in [Requests -> Final \cup {"token", "post", "reply", "call"}]
    BY <1>3 DEF PlacesOK, Again
  <2> QED
    BY <1>3, <2>1, <2>2, <2>3 DEF PlacesOK
<1>4. ASSUME NEW r \in Requests, PostRaises(r) PROVE PlacesOK'
  <2>1. CASE r \in AuthOutside
    BY <1>4, <2>1 DEF PlacesOK, PostRaises
  <2>2. CASE r \notin AuthOutside
    BY <1>3, <1>4, <2>2 DEF PlacesOK, PostRaises
  <2> QED
    BY <2>1, <2>2
<1>5. ASSUME NEW r \in Requests, Unavailable(r) PROVE PlacesOK'
  BY <1>1, <1>3, <1>5 DEF Unavailable
<1>6. ASSUME NEW r \in Requests, Answer(r) \/ Rejected(r) PROVE PlacesOK'
  BY <1>1, <1>6 DEF PlacesOK, Answer, Rejected
<1>7. ASSUME NEW r \in Requests, RejectedOnce(r) PROVE PlacesOK'
  <2>1. calls' \in [Requests -> 0 .. CallsCap]
    BY <1>1, <1>7 DEF RejectedOnce
  <2>2. Goes(r, "call") \/ Goes(r, "post")
    BY <1>7 DEF RejectedOnce
  <2>3. step' \in [Requests -> Final \cup {"token", "post", "reply", "call"}]
    BY <2>2 DEF PlacesOK
  <2>4. attempt' \in [Requests -> 1 .. Attempts] /\ refreshed' \in [Requests -> BOOLEAN]
    BY <1>7 DEF PlacesOK, RejectedOnce
  <2> QED
    BY <2>1, <2>3, <2>4 DEF PlacesOK
<1>8. CASE Tick \/ Revoke \/ UNCHANGED vars
  BY <1>8 DEF PlacesOK, Tick, Revoke, vars, place
<1> QED
  BY <1>2, <1>4, <1>5, <1>6, <1>7, <1>8 DEF Next, Forward

(* The endpoint answers with the next token. *)
LEMMA IssuedToken ==
    ASSUME TokensOK, NEW r \in Requests, Issue(r)
    PROVE  \E t \in Tokens : /\ token' = [token EXCEPT ![r] = t]
                              /\ t.no = issued' /\ t.at = now
<1>1. PICK reply \in Replies :
          token' = [token EXCEPT ![r] = [no |-> issued', at |-> now, life |-> reply.life,
                                         stated |-> reply.stated]]
  BY DEF Issue
<1>2. reply.life \in Nat /\ reply.stated \in BOOLEAN
  BY UpstreamAuthAssumption
<1>3. issued' \in Nat /\ now \in Nat
  BY UpstreamAuthAssumption DEF TokensOK, Issue
<1> DEFINE t == [no |-> issued', at |-> now, life |-> reply.life, stated |-> reply.stated]
<1>4. t \in Tokens
  BY <1>2, <1>3 DEF Tokens
<1> QED
  BY <1>1, <1>4

(* What a token is kept for is a number of seconds. *)
LEMMA LivesAreNat ==
    ASSUME NEW t \in Tokens
    PROVE  /\ ExpiresIn(t) \in Nat /\ KeptFor(ExpiresIn(t)) \in Nat
           /\ KeptFor(DefaultLife) \in Nat
           /\ t.at \in Nat /\ t.life \in Nat /\ t.stated \in BOOLEAN
BY UpstreamAuthAssumption DEF Tokens, ExpiresIn, KeptFor

(* What tokens they hold: no more than were issued. *)
LEMMA TokensStep ==
    ASSUME TokensOK, [Next]_vars
    PROVE  TokensOK'
<1> USE UpstreamAuthAssumption DEF world
<1>1. issued \in Nat
  BY DEF TokensOK
<1>2. CASE UNCHANGED <<cache, asked, token, known, world>>
  BY <1>2 DEF TokensOK
<1>3. ASSUME NEW r \in Requests, Reuse(r) \/ Post(r) PROVE TokensOK'
  <2>1. CASE Reuse(r)
    <3>1. /\ cache.token \in Tokens /\ cache.token.no <= issued
          /\ token' = [token EXCEPT ![r] = cache.token]
      BY <2>1 DEF TokensOK, Reuse
    <3>2. token' \in [Requests -> Tokens] /\ \A q \in Requests : token'[q].no <= issued
      BY <3>1 DEF TokensOK
    <3> QED
      BY <2>1, <3>2 DEF TokensOK, Reuse
  <2>2. CASE Post(r)
    <3>1. now \in 0 .. now /\ asked' = [asked EXCEPT ![r] = now]
      BY <2>2 DEF TokensOK, Post
    <3>2. asked' \in [Requests -> 0 .. now]
      BY <3>1 DEF TokensOK
    <3> QED
      BY <2>2, <3>2 DEF TokensOK, Post
  <2> QED
    BY <1>3, <2>1, <2>2
<1>4. ASSUME NEW r \in Requests, Issue(r) PROVE TokensOK'
  <2>1. issued' = issued + 1 /\ UNCHANGED <<now, revoked, cache, asked, known>>
    BY <1>4 DEF Issue
  <2>2. PICK t \in Tokens : token' = [token EXCEPT ![r] = t] /\ t.no = issued'
    BY <1>1, <1>4, <2>1, IssuedToken
  <2>3. token' \in [Requests -> Tokens] /\ \A q \in Requests : token'[q].no <= issued'
    <3>1. token \in [Requests -> Tokens] /\ \A q \in Requests : token[q].no <= issued
      BY DEF TokensOK
    <3>2. \A q \in Requests : token[q].no \in Nat
      BY <3>1 DEF Tokens
    <3> QED
      BY <1>1, <2>1, <2>2, <3>1, <3>2
  <2>4. known' \in [Requests -> 0 .. issued'] /\ revoked' \in 0 .. issued'
    BY <1>1, <2>1 DEF TokensOK
  <2>5. /\ issued' \in Nat
        /\ cache' \in [token : Tokens, until : Nat] /\ cache'.token.no <= issued'
    <3>1. cache \in [token : Tokens, until : Nat] /\ cache.token.no <= issued
      BY DEF TokensOK
    <3>2. cache.token.no \in Nat
      BY <3>1 DEF Tokens
    <3> QED
      BY <1>1, <2>1, <3>1, <3>2
  <2>6. now' \in 1 .. Horizon /\ asked' \in [Requests -> 0 .. now']
    BY <2>1 DEF TokensOK
  <2> QED
    BY <2>3, <2>4, <2>5, <2>6 DEF TokensOK
<1>5. ASSUME NEW r \in Requests, Store(r) PROVE TokensOK'
  <2>1. Until(r) \in Nat
    <3>1. asked[r] \in Nat /\ token[r] \in Tokens
      BY DEF TokensOK
    <3> QED
      BY <3>1, LivesAreNat DEF Until
  <2> QED
    BY <1>5, <2>1 DEF TokensOK, Store
<1>6. ASSUME NEW r \in Requests, RejectedOnce(r) PROVE TokensOK'
  <2>1. /\ ~Cached' /\ cache' = Empty
        /\ asked' = [asked EXCEPT ![r] = now] /\ UNCHANGED token
    BY <1>6 DEF RejectedOnce, Cached, Forgotten
  <2> QED
    BY <1>1, <1>6, <2>1 DEF TokensOK, RejectedOnce, Empty, NoToken, Tokens
<1>7. CASE Tick \/ Revoke
  BY <1>1, <1>7 DEF TokensOK, Tick, Revoke
<1> QED
  BY <1>2, <1>3, <1>4, <1>5, <1>6, <1>7
     DEF Next, Forward, PostRaises, Unavailable, Answer, Rejected, vars

(* Who calls upstream has a token that was issued. *)
LEMMA HasTokenStep ==
    ASSUME PlacesOK, TokensOK, HasToken, CacheIssued, [Next]_vars
    PROVE  HasToken'
<1> USE DEF Goes, Final
<1>1. issued \in Nat /\ step \in [Requests -> Final \cup {"token", "post", "reply", "call"}]
      /\ token \in [Requests -> Tokens]
  BY DEF PlacesOK, TokensOK
<1>3. ASSUME NEW r \in Requests, Reuse(r) PROVE HasToken'
  <2>1. cache.token.no # 0
    BY <1>3 DEF Reuse, Cached, CacheIssued, TokensOK
  <2> QED
    BY <1>1, <1>3, <2>1 DEF HasToken, Reuse
<1>4. ASSUME NEW r \in Requests, Issue(r) PROVE HasToken'
  <2>1. PICK t \in Tokens : token' = [token EXCEPT ![r] = t] /\ t.no = issued'
    BY <1>4, IssuedToken
  <2>2. issued' # 0 /\ step' = [step EXCEPT ![r] = "reply"]
    BY <1>1, <1>4 DEF Issue
  <2> QED
    BY <1>1, <2>1, <2>2 DEF HasToken
<1>5. ASSUME NEW r \in Requests, Store(r) \/ Post(r) \/ Answer(r) \/ Rejected(r) PROVE HasToken'
  BY <1>1, <1>5 DEF HasToken, Store, Post, Answer, Rejected
<1>6. ASSUME NEW r \in Requests, PostRaises(r) \/ Unavailable(r) PROVE HasToken'
  <2>1. /\ step' = [step EXCEPT ![r] = step'[r]] /\ UNCHANGED token
        /\ step'[r] = "call" => r \in AuthOutside /\ step[r] = "call"
        /\ step'[r] # "reply"
    BY <1>1, <1>6 DEF PostRaises, Unavailable, Again
  <2> QED
    BY <1>1, <2>1 DEF HasToken
<1>7. ASSUME NEW r \in Requests, RejectedOnce(r) PROVE HasToken'
  <2>1. step' = [step EXCEPT ![r] = "post"] /\ UNCHANGED token
    BY <1>7 DEF RejectedOnce, Cached, Forgotten
  <2> QED
    BY <1>1, <2>1 DEF HasToken
<1>8. CASE Tick \/ Revoke \/ UNCHANGED vars
  BY <1>8 DEF HasToken, Tick, Revoke, vars, place
<1> QED
  BY <1>3, <1>4, <1>5, <1>6, <1>7, <1>8 DEF Next, Forward

LEMMA TypeOKStep == TypeOK /\ CacheIssued /\ [Next]_vars => TypeOK'
<1> SUFFICES ASSUME TypeOK, CacheIssued, [Next]_vars PROVE TypeOK'
  OBVIOUS
<1>1. PlacesOK /\ TokensOK /\ HasToken
  BY TypeOKParts
<1>2. PlacesOK' /\ TokensOK' /\ HasToken'
  BY <1>1, PlacesStep, TokensStep, HasTokenStep
<1> QED
  BY <1>2, TypeOKParts, PTL

-----------------------------------------------------------------------------

(* A token asked for before it was issued is kept long enough and not too  *)
(* long.                                                                   *)
LEMMA AskedInTime ==
    ASSUME NEW t \in Tokens, NEW a \in Nat, a <= t.at
    PROVE  InTime(a + KeptFor(ExpiresIn(t)), t)
<1>1. /\ t.at \in Nat /\ t.life \in Nat /\ t.stated \in BOOLEAN
      /\ DefaultLife \in Nat /\ Skew \in Nat
  BY UpstreamAuthAssumption DEF Tokens
<1>2. CASE t.stated
  BY <1>1, <1>2 DEF InTime, KeptFor, ExpiresIn
<1>3. CASE ~t.stated
  BY <1>1, <1>3 DEF InTime, KeptFor, ExpiresIn
<1> QED
  BY <1>1, <1>2, <1>3

(* The cache, and the answers on their way to it. *)
LEMMA CacheStep ==
    ASSUME IInv, [Next]_vars
    PROVE  CacheIssued' /\ ReplyEndsInTime' /\ CacheEndsInTime'
<1> USE UpstreamAuthAssumption DEF world, place, Goes
<1>1. /\ TypeOK /\ CacheIssued /\ ReplyEndsInTime /\ CacheEndsInTime
      /\ issued \in Nat
  BY DEF IInv, TypeOK
<1>2. ASSUME UNCHANGED cache,
             \A r \in Requests : step'[r] = "reply" =>
                 step[r] = "reply" /\ asked'[r] = asked[r] /\ token'[r] = token[r]
      PROVE  CacheIssued' /\ ReplyEndsInTime' /\ CacheEndsInTime'
  BY <1>1, <1>2 DEF CacheIssued, ReplyEndsInTime, CacheEndsInTime, Until
<1>3. ASSUME NEW r \in Requests, Reuse(r) \/ Post(r) \/ Answer(r) \/ Rejected(r)
      PROVE  CacheIssued' /\ ReplyEndsInTime' /\ CacheEndsInTime'
  BY <1>1, <1>2, <1>3 DEF TypeOK, Reuse, Post, Answer, Rejected
<1>4. ASSUME NEW r \in Requests, PostRaises(r) \/ Unavailable(r)
      PROVE  CacheIssued' /\ ReplyEndsInTime' /\ CacheEndsInTime'
  <2>1. step' = [step EXCEPT ![r] = step'[r]] /\ step'[r] # "reply"
    BY <1>1, <1>4 DEF TypeOK, PostRaises, Unavailable, Again
  <2> QED
    BY <1>1, <1>2, <1>4, <2>1 DEF TypeOK, PostRaises, Unavailable
<1>5. ASSUME NEW r \in Requests, Issue(r)
      PROVE  CacheIssued' /\ ReplyEndsInTime' /\ CacheEndsInTime'
  <2>1. PICK t \in Tokens : token' = [token EXCEPT ![r] = t] /\ t.at = now
    BY <1>1, <1>5, TypeOKParts, IssuedToken
  <2>2. step' = [step EXCEPT ![r] = "reply"] /\ UNCHANGED <<cache, asked>>
    BY <1>5 DEF Issue
  <2>3. DOMAIN step = Requests /\ DOMAIN token = Requests /\ now \in Nat /\ asked[r] \in 0 .. now
    BY <1>1, TypeOKParts DEF PlacesOK, TokensOK
  <2>4. CacheIssued' /\ CacheEndsInTime'
    BY <1>1, <2>2 DEF CacheIssued, CacheEndsInTime
  <2>5. ASSUME NEW q \in Requests, step'[q] = "reply", q # r
        PROVE  InTime(Until(q)', token'[q])
    <3>1. step[q] = "reply" /\ token'[q] = token[q] /\ Until(q)' = Until(q)
      BY <2>1, <2>2, <2>3, <2>5 DEF Until
    <3> QED
      BY <1>1, <3>1 DEF ReplyEndsInTime
  <2>6. InTime(asked[r] + KeptFor(ExpiresIn(t)), t)
    BY <2>1, <2>3, AskedInTime
  <2>7. token'[r] = t /\ asked'[r] = asked[r]
    BY <2>1, <2>2, <2>3
  <2>8. InTime(Until(r)', token'[r])
    BY <2>6, <2>7 DEF Until
  <2> QED
    BY <2>4, <2>5, <2>8 DEF ReplyEndsInTime, Until
<1>6. ASSUME NEW r \in Requests, Store(r)
      PROVE  CacheIssued' /\ ReplyEndsInTime' /\ CacheEndsInTime'
  <2>1. token[r].no # 0 /\ InTime(Until(r), token[r])
    BY <1>1, <1>6 DEF TypeOK, Store, ReplyEndsInTime
  <2>2. /\ cache' = [token |-> token[r], until |-> Until(r)] /\ UNCHANGED <<asked, token>>
        /\ \A q \in Requests : step'[q] = "reply" => step[q] = "reply"
    BY <1>1, <1>6 DEF TypeOK, Store
  <2> QED
    BY <1>1, <2>1, <2>2 DEF CacheIssued, ReplyEndsInTime, CacheEndsInTime, Until
<1>7. ASSUME NEW r \in Requests, RejectedOnce(r)
      PROVE  CacheIssued' /\ ReplyEndsInTime' /\ CacheEndsInTime'
  <2>1. /\ cache' = Empty /\ step' = [step EXCEPT ![r] = "post"]
        /\ asked' = [asked EXCEPT ![r] = now] /\ UNCHANGED token
    BY <1>7 DEF RejectedOnce, Cached, Forgotten
  <2>2. \A q \in Requests : step'[q] = "reply" =>
            step[q] = "reply" /\ asked'[q] = asked[q]
    BY <1>1, <2>1 DEF TypeOK
  <2> QED
    BY <1>1, <2>1, <2>2 DEF CacheIssued, ReplyEndsInTime, CacheEndsInTime, Until
<1>8. ASSUME Tick \/ Revoke \/ UNCHANGED vars
      PROVE  CacheIssued' /\ ReplyEndsInTime' /\ CacheEndsInTime'
  BY <1>1, <1>2, <1>8 DEF Tick, Revoke, vars
<1> QED
  BY <1>3, <1>4, <1>5, <1>6, <1>7, <1>8 DEF Next, Forward

-----------------------------------------------------------------------------

(* What all steps but retry's and the 401's have in common. *)
LEMMA PlainStep ==
    ASSUME IInv, NEW r \in Requests, Reuse(r) \/ Post(r) \/ Issue(r) \/ Store(r)
    PROVE  CallsCounted' /\ CallsBounded' /\ RefreshedIsNew' /\ RejectedUnderNewToken'
<1> USE DEF world, place, Goes
<1>1. TypeOK /\ CallsCounted /\ CallsBounded /\ RefreshedIsNew /\ RejectedUnderNewToken
  BY DEF IInv
<1>2. /\ UNCHANGED <<attempt, refreshed, calls, known>>
      /\ \A q \in Requests \ {r} : step'[q] = step[q] /\ token'[q] = token[q]
      /\ step[r] \notin Final /\ step'[r] \notin Final
  BY <1>1 DEF TypeOK, Reuse, Post, Issue, Store, Final
<1>3. CallsCounted' /\ CallsBounded'
  BY <1>1, <1>2 DEF CallsCounted, CallsBounded, CallsBefore
<1>4. RefreshedIsNew'
  <2>1. CASE Reuse(r) \/ Post(r)
    BY <1>1, <1>2, <2>1 DEF TypeOK, RefreshedIsNew, Reuse, Post
  <2>2. CASE Issue(r)
    <3>1. token'[r].no = issued + 1 /\ known[r] \in 0 .. issued /\ issued \in Nat
          /\ step[r] = "post" /\ step'[r] = "reply"
      <4>1. PICK t \in Tokens : token' = [token EXCEPT ![r] = t] /\ t.no = issued'
        BY <1>1, <2>2, TypeOKParts, IssuedToken
      <4> QED
        BY <1>1, <2>2, <4>1 DEF TypeOK, Issue
    <3> QED
      BY <1>1, <1>2, <3>1 DEF RefreshedIsNew
  <2>3. CASE Store(r)
    BY <1>1, <1>2, <2>3 DEF TypeOK, RefreshedIsNew, Store
  <2> QED
    BY <2>1, <2>2, <2>3
<1>5. RejectedUnderNewToken'
  BY <1>1, <1>2, UpstreamAuthAssumption DEF RejectedUnderNewToken, Final
<1> QED
  BY <1>3, <1>4, <1>5

(* Calls are counted one at a time. *)
LEMMA CalledOnce ==
    ASSUME TypeOK, NEW r \in Requests, Called(r)
    PROVE  /\ calls'[r] \in Nat /\ calls[r] \in Nat /\ calls'[r] <= calls[r] + 1
           /\ \A q \in Requests \ {r} : calls'[q] = calls[q]
BY UpstreamAuthAssumption DEF TypeOK, Called, CallsCap

LEMMA CallsBeforeIsNat ==
    ASSUME TypeOK, NEW r \in Requests
    PROVE  CallsBefore(r) \in Nat
<1>1. attempt[r] \in Nat /\ attempt[r] >= 1 /\ Attempts \in Nat
  BY UpstreamAuthAssumption DEF TypeOK
<1>2. CASE r \in AuthOutside
  BY <1>1, <1>2 DEF CallsBefore
<1>3. CASE r \notin AuthOutside
  BY <1>1, <1>3 DEF CallsBefore
<1> QED
  BY <1>2, <1>3

(* The bound on the calls of one request, with one more to come. *)
LEMMA CallsBoundedBefore ==
    ASSUME TypeOK, CallsCounted, NEW r \in Requests, NEW n \in Nat,
           n <= CallsBefore(r) + 1
    PROVE  n <= (IF r \in Retryable THEN 2 ELSE 1) * Attempts
<1>1. /\ attempt[r] \in 1 .. Attempts /\ Attempts \in Nat
      /\ refreshed[r] => r \in Retryable
  BY UpstreamAuthAssumption DEF TypeOK, CallsCounted
<1>2. CASE r \in Retryable
  BY <1>1, <1>2 DEF CallsBefore
<1>3. CASE r \notin Retryable
  BY <1>1, <1>3 DEF CallsBefore
<1> QED
  BY <1>2, <1>3

(* A step of r that ends it, or goes back to where it started or calls.    *)
LEMMA AgainStep ==
    ASSUME IInv, NEW r \in Requests, PostRaises(r) \/ Unavailable(r)
    PROVE  CallsCounted' /\ CallsBounded' /\ RefreshedIsNew' /\ RejectedUnderNewToken'
<1> USE DEF world, place, Goes, Final
<1>1. TypeOK /\ CallsCounted /\ CallsBounded /\ RefreshedIsNew /\ RejectedUnderNewToken
      /\ attempt[r] \in 1 .. Attempts /\ Attempts \in Nat
  BY UpstreamAuthAssumption DEF IInv, TypeOK
<1>2. /\ calls'[r] \in Nat /\ calls[r] \in Nat /\ calls'[r] <= calls[r] + 1
      /\ r \in AuthOutside /\ step'[r] \notin Final => step[r] = "call"
      /\ \A q \in Requests \ {r} : calls'[q] = calls[q]
  <2>1. CASE PostRaises(r)
    BY <1>1, <2>1, UpstreamAuthAssumption DEF PostRaises, TypeOK, CallsCap
  <2>2. CASE Unavailable(r)
    BY <1>1, <2>2, CalledOnce DEF Unavailable
  <2> QED
    BY <2>1, <2>2
<1>3. /\ UNCHANGED <<token, known>> /\ step[r] \notin Final
      /\ \A q \in Requests \ {r} :
            step'[q] = step[q] /\ attempt'[q] = attempt[q] /\ refreshed'[q] = refreshed[q]
      /\ \/ /\ step'[r] \in {"error", "unavailable"}
            /\ attempt'[r] = attempt[r] /\ refreshed'[r] = refreshed[r]
         \/ /\ step'[r] = IF r \in AuthOutside THEN "call" ELSE "token"
            /\ attempt[r] < Attempts /\ attempt'[r] = attempt[r] + 1
            /\ refreshed'[r] = (r \in AuthOutside /\ refreshed[r])
  <2>1. CASE PostRaises(r) /\ r \in AuthOutside
    BY <1>1, <2>1 DEF PostRaises, TypeOK
  <2>2. CASE PostRaises(r) /\ r \notin AuthOutside
    BY <1>1, <2>2 DEF PostRaises, TypeOK, Again, MayRetry, NextAttempt
  <2>3. CASE Unavailable(r)
    BY <1>1, <2>3 DEF Unavailable, TypeOK, Again, MayRetry, NextAttempt
  <2> QED
    BY <2>1, <2>2, <2>3
<1>4. calls'[r] <= CallsBefore(r) + 1
  BY <1>1, <1>2, <1>3, CallsBeforeIsNat DEF CallsCounted
<1>5. CallsBounded'
  BY <1>1, <1>2, <1>4, CallsBoundedBefore DEF CallsBounded
<1>6. CallsCounted'
  <2>1. \A q \in Requests \ {r} : CallsBefore(q)' = CallsBefore(q)
    BY <1>3 DEF CallsBefore
  <2>2. refreshed'[r] => r \in Retryable
    BY <1>1, <1>3 DEF CallsCounted
  <2>3. ASSUME step'[r] \notin Final PROVE calls'[r] <= CallsBefore(r)'
    <3>1. /\ step'[r] = IF r \in AuthOutside THEN "call" ELSE "token"
          /\ attempt'[r] = attempt[r] + 1
          /\ refreshed'[r] = (r \in AuthOutside /\ refreshed[r])
      BY <1>3, <2>3
    <3>2. CASE r \in AuthOutside
      <4>1. refreshed'[r] <=> refreshed[r]
        BY <3>1, <3>2
      <4>2. CASE refreshed[r]
        BY <1>1, <1>2, <1>4, <3>1, <3>2, <4>1, <4>2 DEF CallsBefore
      <4>3. CASE ~refreshed[r]
        BY <1>1, <1>2, <1>4, <3>1, <3>2, <4>1, <4>3 DEF CallsBefore
      <4> QED
        BY <4>2, <4>3
    <3>3. CASE r \notin AuthOutside
      <4>1. ~refreshed'[r]
        BY <3>1, <3>3
      <4>2. CASE r \in Retryable
        BY <1>1, <1>2, <1>4, <3>1, <3>3, <4>1, <4>2 DEF CallsBefore
      <4>3. CASE r \notin Retryable
        BY <1>1, <1>2, <1>4, <3>1, <3>3, <4>1, <4>3 DEF CallsBefore
      <4> QED
        BY <4>2, <4>3
    <3> QED
      BY <3>2, <3>3
  <2> QED
    BY <1>1, <1>2, <1>3, <2>1, <2>2, <2>3 DEF CallsCounted
<1>7. RefreshedIsNew'
  BY <1>1, <1>2, <1>3 DEF RefreshedIsNew
<1>8. RejectedUnderNewToken'
  BY <1>1, <1>3, UpstreamAuthAssumption DEF RejectedUnderNewToken
<1> QED
  BY <1>5, <1>6, <1>7, <1>8

(* A step of r that ends with upstream's answer. *)
LEMMA AnsweredStep ==
    ASSUME IInv, NEW r \in Requests, Answer(r) \/ Rejected(r)
    PROVE  CallsCounted' /\ CallsBounded' /\ RefreshedIsNew' /\ RejectedUnderNewToken'
<1> USE DEF world, place, Goes, Final
<1>1. TypeOK /\ CallsCounted /\ CallsBounded /\ RefreshedIsNew /\ RejectedUnderNewToken
  BY DEF IInv
<1>2. /\ step[r] = "call" /\ step'[r] \in {"answered", "rejected"}
      /\ UNCHANGED <<attempt, refreshed, token, known>>
      /\ \A q \in Requests \ {r} : step'[q] = step[q] /\ calls'[q] = calls[q]
      /\ calls'[r] \in Nat /\ calls[r] \in Nat /\ calls'[r] <= calls[r] + 1
      /\ step'[r] = "rejected" => ~MayRefresh(r)
  BY <1>1, CalledOnce DEF Answer, Rejected, TypeOK
<1>3. calls'[r] <= CallsBefore(r) + 1
  BY <1>1, <1>2, CallsBeforeIsNat DEF CallsCounted
<1>4. CallsBounded'
  BY <1>1, <1>2, <1>3, CallsBoundedBefore DEF CallsBounded
<1>5. CallsCounted'
  BY <1>1, <1>2 DEF CallsCounted, CallsBefore
<1>6. RefreshedIsNew'
  BY <1>1, <1>2 DEF RefreshedIsNew
<1>7. RejectedUnderNewToken'
  BY <1>1, <1>2, UpstreamAuthAssumption DEF RejectedUnderNewToken, RefreshedIsNew, MayRefresh
<1> QED
  BY <1>4, <1>5, <1>6, <1>7

LEMMA RefreshStep ==
    ASSUME IInv, NEW r \in Requests, RejectedOnce(r)
    PROVE  CallsCounted' /\ CallsBounded' /\ RefreshedIsNew' /\ RejectedUnderNewToken'
<1> USE DEF world, place, Goes, Final
<1>1. TypeOK /\ CallsCounted /\ CallsBounded /\ RefreshedIsNew /\ RejectedUnderNewToken
      /\ attempt[r] \in 1 .. Attempts /\ Attempts \in Nat
  BY UpstreamAuthAssumption DEF IInv, TypeOK
<1>2. /\ step[r] = "call" /\ step'[r] = "post" /\ ~refreshed[r] /\ r \in Retryable
      /\ refreshed'[r] /\ attempt'[r] = IF r \in AuthOutside THEN 1 ELSE attempt[r]
      /\ known'[r] = issued
      /\ \A q \in Requests \ {r} :
            /\ step'[q] = step[q] /\ attempt'[q] = attempt[q]
            /\ refreshed'[q] = refreshed[q] /\ known'[q] = known[q]
      /\ UNCHANGED token
  BY <1>1 DEF RejectedOnce, TypeOK, MayRefresh, Cached, Forgotten
<1>3. /\ calls'[r] \in Nat /\ calls[r] \in Nat /\ calls'[r] <= calls[r] + 1
      /\ \A q \in Requests \ {r} : calls'[q] = calls[q]
  BY <1>1, CalledOnce DEF RejectedOnce
<1>4. calls'[r] <= CallsBefore(r) + 1
  BY <1>1, <1>2, <1>3, CallsBeforeIsNat DEF CallsCounted
<1>5. CallsBounded'
  BY <1>1, <1>3, <1>4, CallsBoundedBefore DEF CallsBounded
<1>6. CallsCounted'
  <2>1. \A q \in Requests \ {r} : CallsBefore(q)' = CallsBefore(q)
    BY <1>2 DEF CallsBefore
  <2>2. calls'[r] <= CallsBefore(r)'
    BY <1>1, <1>2, <1>3, <1>4 DEF CallsBefore
  <2> QED
    BY <1>1, <1>2, <1>3, <2>1, <2>2 DEF CallsCounted
<1>7. RefreshedIsNew'
  <2>1. issued > 0
    <3>1. token[r] \in Tokens /\ token[r].no # 0 /\ token[r].no <= issued /\ issued \in Nat
      BY <1>1, <1>2 DEF TypeOK
    <3>2. token[r].no \in Nat
      BY <3>1 DEF Tokens
    <3> QED
      BY <3>1, <3>2
  <2> QED
    BY <1>1, <1>2, <2>1 DEF RefreshedIsNew
<1>8. RejectedUnderNewToken'
  BY <1>1, <1>2, UpstreamAuthAssumption DEF RejectedUnderNewToken
<1> QED
  BY <1>5, <1>6, <1>7, <1>8

-----------------------------------------------------------------------------

LEMMA Inductive == IInv /\ [Next]_vars => IInv'
<1> SUFFICES ASSUME IInv, [Next]_vars PROVE IInv'
  OBVIOUS
<1>1. TypeOK' /\ CacheIssued' /\ ReplyEndsInTime' /\ CacheEndsInTime'
  BY TypeOKStep, CacheStep DEF IInv
<1>2. ASSUME Tick \/ Revoke \/ UNCHANGED vars
      PROVE  CallsCounted' /\ CallsBounded' /\ RefreshedIsNew' /\ RejectedUnderNewToken'
  BY <1>2 DEF IInv, CallsCounted, CallsBefore, CallsBounded, RefreshedIsNew,
              RejectedUnderNewToken, Tick, Revoke, place, vars
<1> QED
  BY <1>1, <1>2, PlainStep, AgainStep, AnsweredStep, RefreshStep DEF IInv, Next, Forward

LEMMA Invariance == Spec => []IInv
<1>1. Init => TypeOK
  BY UpstreamAuthAssumption DEF Init, TypeOK, Empty, NoToken, Tokens, CallsCap, Final
<1>2. Init => CacheIssued /\ ReplyEndsInTime /\ CacheEndsInTime
  BY DEF Init, CacheIssued, ReplyEndsInTime, CacheEndsInTime
<1>3. Init => CallsCounted /\ CallsBounded /\ RefreshedIsNew /\ RejectedUnderNewToken
  BY UpstreamAuthAssumption
     DEF Init, CallsCounted, CallsBefore, CallsBounded, RefreshedIsNew,
         RejectedUnderNewToken, Final
<1> QED
  BY <1>1, <1>2, <1>3, Inductive, PTL DEF Spec, IInv

(* expires_at counts from before the question (forward_auth.py:61 and :93),*)
(* so no token stays cached beyond its own end, but by the second of       *)
(* max(1, ...) or, its life not stated, by what the default leaves.        *)
THEOREM CachedTokensEnd == Spec => []CacheEndsInTime
BY Invariance, PTL DEF IInv

(* The attempts of retry (retry.py:20) and the one refresh of forward_auth *)
(* bound the calls of upstream, in whichever order a route has the two.    *)
THEOREM CallsAreBounded == Spec => []CallsBounded
BY Invariance, PTL DEF IInv

(* A 401 of a repeatable request is passed on only under a token issued    *)
(* after an earlier 401 of it (forward_auth.py:113).                       *)
THEOREM RejectionsAreFinal == Spec => []RejectedUnderNewToken
BY Invariance, PTL DEF IInv

-----------------------------------------------------------------------------
(* The response cache. *)

(* A key holds an answer of its own tenant, method and path. *)
EntriesOwn ==
    \A k \in Keys : stored[k] # None =>
        /\ k = KeyText(stored[k].answer.tenant, stored[k].answer.method, stored[k].answer.path)
        /\ stored[k].answer.method = "GET" /\ stored[k].answer.kind = "ok"

(* An answer ages by as much as its entry has lived, and by what it waited *)
(* before.                                                                 *)
EntriesYoung ==
    \A k \in Keys : stored[k] # None =>
        /\ TtlOf(stored[k].answer.path) > 0
        /\ stored[k].left > 0 /\ stored[k].left <= TtlOf(stored[k].answer.path)
        /\ stored[k].answer.age + stored[k].left
             <= TtlOf(stored[k].answer.path) + MaxDelay + 1

(* Where a request stands, it has what it needs and nothing else. *)
Halted ==
    \A s \in Coroutines :
        /\ pc[s] # "idle" => in[s] \in Cases
        /\ pc[s] = "lookup" => in[s].method = "GET"
        /\ pc[s] \in {"lookup", "hooks"} => tenant[s] = EarlyTenant(in[s])
        /\ hit[s] # None => pc[s] = "hooks"
        /\ answer[s] # None <=> pc[s] = "after"
        /\ hit[s] = None /\ answer[s] = None => waited[s] = 0

(* A request's own answer is to what it asked, and as old as it waited. *)
AnswersOwn ==
    \A s \in Coroutines : answer[s] # None =>
        /\ answer[s].tenant = tenant[s] /\ answer[s].method = in[s].method
        /\ answer[s].path = in[s].path
        /\ answer[s].age <= waited[s] + 1

(* The first two parts of HitIsOwn; the third follows from the second. *)
HitsMatch ==
    \A s \in Coroutines : hit[s] # None =>
        /\ hit[s].method = "GET" /\ in[s].method = "GET" /\ hit[s].kind = "ok"
        /\ KeyText(hit[s].tenant, "GET", hit[s].path)
             = KeyText(EarlyTenant(in[s]), "GET", in[s].path)

HitsYoung ==
    \A s \in Coroutines : hit[s] # None =>
        /\ TtlOf(hit[s].path) > 0
        /\ hit[s].age <= TtlOf(hit[s].path) + MaxDelay + waited[s]

CacheInv ==
    /\ CacheTypeOK
    /\ EntriesOwn /\ EntriesYoung
    /\ Halted /\ AnswersOwn
    /\ HitsMatch /\ HitsYoung

-----------------------------------------------------------------------------

(* Answer b is answer a but for its age. *)
SameAnswer(a, b) ==
    /\ a = None => b = None
    /\ a # None => /\ b \in Answers /\ b # None
                   /\ b.tenant = a.tenant /\ b.method = a.method
                   /\ b.path = a.path /\ b.kind = a.kind

(* Time changes nothing of an answer but its age, by one at most. *)
LEMMA OlderAnswer ==
    ASSUME NEW a \in Answers \cup {None}
    PROVE  SameAnswer(a, Older(a)) /\ (a # None => Older(a).age <= a.age + 1)
BY CacheAssumption DEF Older, Answers, SameAnswer

(* A change upstream makes an up-to-date answer as old as one second. *)
LEMMA OutdatedAnswer ==
    ASSUME NEW a \in Answers \cup {None}, NEW p \in Paths
    PROVE  /\ SameAnswer(a, Outdated(a, p))
           /\ a # None => \/ Outdated(a, p).age = a.age
                          \/ a.age = 0 /\ Outdated(a, p).age = 1
BY CacheAssumption DEF Outdated, Answers, SameAnswer

(* Every action keeps the types. *)
LEMMA CacheTypesStep ==
    ASSUME CacheTypeOK, Halted, [CacheNext]_cacheVars
    PROVE  CacheTypeOK'
<1> USE CacheAssumption
<1>1. ASSUME NEW s \in Coroutines, NEW c \in Cases, Arrive(s, c) PROVE CacheTypeOK'
  <2>1. EarlyTenant(c) \in Tenants
    BY DEF EarlyTenant, AllCases
  <2> QED
    BY <1>1, <2>1 DEF CacheTypeOK, Arrive
<1>2. ASSUME NEW s \in Coroutines, Lookup(s) PROVE CacheTypeOK'
  <2>1. LookupKey(s) \in Keys
    BY <1>2 DEF CacheTypeOK, Halted, Lookup, LookupKey, Keys, EarlyTenant, AllCases
  <2> QED
    BY <1>2, <2>1 DEF CacheTypeOK, Lookup, Entries
<1>3. ASSUME NEW s \in Coroutines, End(s), UNCHANGED stored PROVE CacheTypeOK'
  BY <1>3 DEF CacheTypeOK, End
<1>4. ASSUME NEW s \in Coroutines, NEW kind \in {"ok", "large", "error"}, ForwardMiss(s, kind)
      PROVE  CacheTypeOK'
  <2>1. in[s] \in Cases /\ FinalTenant(in[s]) \in Tenants
    BY <1>4 DEF CacheTypeOK, Halted, ForwardMiss, FinalTenant, AllCases
  <2> QED
    BY <1>4, <2>1 DEF CacheTypeOK, ForwardMiss, Answers, AllCases
<1>5. ASSUME NEW s \in Coroutines, StoreAnswer(s) PROVE CacheTypeOK'
  <2>1. TtlOf(in[s].path) \in Int
    BY <1>5, CacheAssumption DEF Halted, StoreAnswer, TtlOf, ConfiguredTtl, AllCases
  <2>2. EntryOf(s) \in Entries
    BY <1>5, <2>1 DEF CacheTypeOK, Halted, StoreAnswer, MayStore, EntryOf, Entries
  <2>3. stored' \in [Keys -> Entries \cup {None}]
    BY <1>5, <2>2 DEF CacheTypeOK, StoreAnswer
  <2> QED
    BY <1>5, <2>3 DEF CacheTypeOK, StoreAnswer, End
<1>6. ASSUME NEW p \in Paths, Change(p) PROVE CacheTypeOK'
  <2>1. \A a \in Answers \cup {None} : Outdated(a, p) \in Answers \cup {None}
    BY OutdatedAnswer DEF SameAnswer
  <2>2. \A e \in Entries : [e EXCEPT !.answer = Outdated(@, p)] \in Entries
    BY OutdatedAnswer DEF SameAnswer, Entries
  <2>3. stored' \in [Keys -> Entries \cup {None}]
    BY <1>6, <2>2 DEF CacheTypeOK, Change
  <2> QED
    BY <1>6, <2>1, <2>3 DEF CacheTypeOK, Change
<1>7. ASSUME CacheTick PROVE CacheTypeOK'
  <2>1. \A a \in Answers \cup {None} : Older(a) \in Answers \cup {None}
    BY OlderAnswer DEF SameAnswer
  <2>2. \A e \in Entries \cup {None} : Expire(e) \in Entries \cup {None}
    BY OlderAnswer DEF SameAnswer, Expire, Entries
  <2>3. stored' \in [Keys -> Entries \cup {None}]
    BY <1>7, <2>2 DEF CacheTypeOK, CacheTick
  <2> QED
    BY <1>7, <2>1, <2>3 DEF CacheTypeOK, CacheTick
<1>8. CASE UNCHANGED cacheVars
  BY <1>8 DEF CacheTypeOK, cacheVars
<1> QED
  BY <1>1, <1>2, <1>3, <1>4, <1>5, <1>6, <1>7, <1>8
     DEF CacheNext, Handle, Refuse, Serve, NotStored

(* A request that comes, is refused, or ends without storing touches       *)
(* nothing of the others.                                                  *)
LEMMA QuietStep ==
    ASSUME CacheInv, NEW s \in Coroutines,
           \/ \E c \in Cases : Arrive(s, c)
           \/ End(s) /\ UNCHANGED stored
    PROVE  EntriesOwn' /\ EntriesYoung' /\ Halted' /\ AnswersOwn' /\ HitsMatch' /\ HitsYoung'
<1> USE CacheAssumption DEF CacheInv
<1>1. ASSUME NEW c \in Cases, Arrive(s, c)
      PROVE  Halted' /\ AnswersOwn' /\ HitsMatch' /\ HitsYoung'
  <2>1. Halted'
    BY <1>1 DEF CacheTypeOK, Halted, Arrive
  <2> QED
    BY <1>1, <2>1 DEF CacheTypeOK, Halted, AnswersOwn, HitsMatch, HitsYoung, Arrive
<1>2. ASSUME End(s)
      PROVE  Halted' /\ AnswersOwn' /\ HitsMatch' /\ HitsYoung'
  <2>1. Halted'
    BY <1>2 DEF CacheTypeOK, Halted, End
  <2> QED
    BY <1>2, <2>1 DEF CacheTypeOK, AnswersOwn, HitsMatch, HitsYoung, End
<1>3. EntriesOwn' /\ EntriesYoung'
  BY DEF EntriesOwn, EntriesYoung, Arrive
<1> QED
  BY <1>1, <1>2, <1>3

LEMMA LookupStep ==
    ASSUME CacheInv, NEW s \in Coroutines, Lookup(s)
    PROVE  Halted' /\ AnswersOwn' /\ HitsMatch' /\ HitsYoung'
<1> USE CacheAssumption DEF CacheInv
<1>1. /\ in[s] \in Cases /\ in[s].method = "GET" /\ tenant[s] = EarlyTenant(in[s])
      /\ hit[s] = None /\ answer[s] = None /\ waited[s] = 0
      /\ LookupKey(s) \in Keys
  BY DEF CacheTypeOK, Halted, Lookup, LookupKey, Keys, EarlyTenant, AllCases
<1> DEFINE found == stored[LookupKey(s)]
<1>2. ASSUME found # None
      PROVE  /\ found.answer.method = "GET" /\ found.answer.kind = "ok"
             /\ KeyText(found.answer.tenant, "GET", found.answer.path)
                  = KeyText(EarlyTenant(in[s]), "GET", in[s].path)
             /\ TtlOf(found.answer.path) > 0
             /\ found.answer.age <= TtlOf(found.answer.path) + MaxDelay
  <2>1. LookupKey(s) = KeyText(found.answer.tenant, found.answer.method, found.answer.path)
    BY <1>1, <1>2 DEF EntriesOwn
  <2>2. /\ found.answer.method = "GET" /\ found.answer.kind = "ok"
        /\ LookupKey(s) = KeyText(EarlyTenant(in[s]), "GET", in[s].path)
    BY <1>1, <1>2 DEF LookupKey, EntriesOwn
  <2>3. /\ TtlOf(found.answer.path) > 0 /\ found.left > 0
        /\ found.answer.age + found.left <= TtlOf(found.answer.path) + MaxDelay + 1
    BY <1>1, <1>2 DEF EntriesYoung
  <2>5. /\ found.answer.age \in Nat /\ found.left \in Nat
        /\ found.answer.path \in Paths
    BY <1>1, <1>2 DEF CacheTypeOK, Entries, Answers
  <2>4. TtlOf(found.answer.path) \in Int
    BY <2>5, CacheAssumption DEF TtlOf, ConfiguredTtl
  <2> QED
    BY <2>1, <2>2, <2>3, <2>4, <2>5
<1>3. /\ hit' = [hit EXCEPT ![s] = IF found = None THEN None ELSE found.answer]
      /\ pc' = [pc EXCEPT ![s] = "hooks"]
      /\ UNCHANGED <<stored, in, tenant, answer, waited>>
  BY DEF Lookup
<1> HIDE DEF found
<1>4. Halted' /\ AnswersOwn'
  BY <1>1, <1>3 DEF CacheTypeOK, Halted, AnswersOwn
<1>5. HitsMatch'
  BY <1>1, <1>2, <1>3 DEF CacheTypeOK, HitsMatch
<1>6. HitsYoung'
  <2>1. found # None => TtlOf(found.answer.path) \in Int /\ waited[s] = 0
    BY <1>1, CacheAssumption DEF CacheTypeOK, Entries, Answers, TtlOf, ConfiguredTtl, found
  <2> QED
    BY <1>1, <1>2, <1>3, <2>1 DEF CacheTypeOK, HitsYoung
<1> QED
  BY <1>4, <1>5, <1>6

LEMMA ForwardStep ==
    ASSUME CacheInv, NEW s \in Coroutines, NEW kind \in {"ok", "large", "error"}, ForwardMiss(s, kind)
    PROVE  Halted' /\ AnswersOwn' /\ HitsMatch' /\ HitsYoung'
<1> USE CacheAssumption DEF CacheInv
<1>1. in[s] \in Cases /\ FinalTenant(in[s]) \in Tenants
  BY DEF CacheTypeOK, Halted, ForwardMiss, FinalTenant, AllCases
<1>2. answer'[s] # None
  BY <1>1 DEF CacheTypeOK, ForwardMiss, Answers, AllCases
<1>3. Halted'
  BY <1>1, <1>2 DEF CacheTypeOK, Halted, ForwardMiss
<1>4. AnswersOwn'
  BY <1>1, <1>2 DEF CacheTypeOK, AnswersOwn, ForwardMiss
<1>5. HitsMatch' /\ HitsYoung'
  BY DEF CacheTypeOK, HitsMatch, HitsYoung, ForwardMiss
<1> QED
  BY <1>3, <1>4, <1>5

LEMMA StoreStep ==
    ASSUME CacheInv, NEW s \in Coroutines, StoreAnswer(s)
    PROVE  EntriesOwn' /\ EntriesYoung'
<1> USE CacheAssumption DEF CacheInv
<1>1. /\ answer[s] # None /\ answer[s].kind = "ok"
      /\ in[s].method = "GET" /\ in[s] \in Cases
      /\ answer[s].tenant = tenant[s] /\ answer[s].method = "GET"
      /\ answer[s].path = in[s].path
      /\ answer[s].age <= waited[s] + 1 /\ waited[s] \in 0..MaxDelay
      /\ TtlOf(in[s].path) > 0
  BY DEF StoreAnswer, MayStore, Halted, AnswersOwn, CacheTypeOK
<1>2. TtlOf(in[s].path) \in Int /\ answer[s].age \in Nat
  BY <1>1, CacheAssumption DEF TtlOf, ConfiguredTtl, AllCases, CacheTypeOK, Answers
<1>3. StoreKey(s) = KeyText(answer[s].tenant, answer[s].method, answer[s].path)
  BY <1>1 DEF StoreKey
<1>4. /\ EntryOf(s).answer = answer[s]
      /\ EntryOf(s).left = TtlOf(in[s].path)
  BY DEF EntryOf
<1>5. \A k \in Keys : stored'[k] = IF k = StoreKey(s) THEN EntryOf(s) ELSE stored[k]
  BY DEF StoreAnswer, CacheTypeOK
<1>6. EntriesOwn'
  BY <1>1, <1>3, <1>4, <1>5 DEF EntriesOwn
<1>7. EntriesYoung'
  BY <1>1, <1>2, <1>4, <1>5 DEF EntriesYoung
<1> QED
  BY <1>6, <1>7

LEMMA ChangeStep ==
    ASSUME CacheInv, NEW p \in Paths, Change(p)
    PROVE  /\ EntriesOwn' /\ EntriesYoung' /\ Halted' /\ AnswersOwn'
           /\ HitsMatch' /\ HitsYoung'
<1> USE DEF CacheInv
<1>0. \A a \in Answers \cup {None} :
        /\ SameAnswer(a, Outdated(a, p))
        /\ a # None => \/ Outdated(a, p).age = a.age
                       \/ a.age = 0 /\ Outdated(a, p).age = 1
  BY OutdatedAnswer, CacheAssumption
<1>1. \A s \in Coroutines : hit'[s] = Outdated(hit[s], p) /\ answer'[s] = Outdated(answer[s], p)
  BY DEF Change
<1>2. \A s \in Coroutines : hit[s] \in Answers \cup {None} /\ answer[s] \in Answers \cup {None}
  BY DEF CacheTypeOK
<1>3. ASSUME NEW k \in Keys, stored'[k] # None
      PROVE  /\ stored[k] # None /\ stored[k].answer \in Answers
             /\ stored'[k].left = stored[k].left /\ stored[k].left \in Nat
             /\ stored'[k].answer = Outdated(stored[k].answer, p)
  BY <1>3 DEF Change, CacheTypeOK, Entries
<1>4. EntriesOwn'
  BY <1>3, <1>0 DEF SameAnswer, EntriesOwn
<1>5. EntriesYoung'
  <2> SUFFICES ASSUME NEW k \in Keys, stored'[k] # None
               PROVE  /\ TtlOf(stored'[k].answer.path) > 0
                      /\ stored'[k].left > 0
                      /\ stored'[k].left <= TtlOf(stored'[k].answer.path)
                      /\ stored'[k].answer.age + stored'[k].left
                            <= TtlOf(stored'[k].answer.path) + MaxDelay + 1
    BY DEF EntriesYoung
  <2>1. /\ TtlOf(stored[k].answer.path) > 0 /\ stored[k].left > 0
        /\ stored[k].left <= TtlOf(stored[k].answer.path)
        /\ stored[k].answer.age + stored[k].left
              <= TtlOf(stored[k].answer.path) + MaxDelay + 1
    BY <1>3 DEF EntriesYoung
  <2>2. /\ stored[k].answer.path \in Paths /\ stored[k].answer.age \in Nat
        /\ TtlOf(stored[k].answer.path) \in Int
    BY <1>3, CacheAssumption DEF Answers, TtlOf, ConfiguredTtl
  <2>3. /\ stored'[k].answer.path = stored[k].answer.path
        /\ stored'[k].answer.age \in {1, stored[k].answer.age}
    BY <1>0, <1>3 DEF SameAnswer
  <2> QED
    BY <1>3, <2>1, <2>2, <2>3, CacheAssumption
<1>6. Halted'
  BY <1>1, <1>2, <1>0 DEF SameAnswer, Halted, Change
<1>7. AnswersOwn'
  BY <1>1, <1>2, <1>0 DEF SameAnswer, AnswersOwn, Change, CacheTypeOK
<1>8. HitsMatch'
  BY <1>1, <1>2, <1>0 DEF SameAnswer, HitsMatch, Change
<1>9. HitsYoung'
  <2>1. \A s \in Coroutines : hit[s] # None => TtlOf(hit[s].path) \in Int
    BY <1>2, CacheAssumption DEF Answers, TtlOf, ConfiguredTtl
  <2> QED
    BY <1>1, <1>2, <2>1, <1>0, CacheAssumption DEF SameAnswer, HitsYoung, Change, CacheTypeOK
<1> QED
  BY <1>4, <1>5, <1>6, <1>7, <1>8, <1>9

LEMMA TickStep ==
    ASSUME CacheInv, CacheTick
    PROVE  /\ EntriesOwn' /\ EntriesYoung' /\ Halted' /\ AnswersOwn'
           /\ HitsMatch' /\ HitsYoung'
<1> USE CacheAssumption DEF CacheInv
<1>0. \A a \in Answers \cup {None} :
        SameAnswer(a, Older(a)) /\ (a # None => Older(a).age <= a.age + 1)
  BY OlderAnswer, CacheAssumption
<1>1. \A s \in Coroutines : hit'[s] = Older(hit[s]) /\ answer'[s] = Older(answer[s])
  BY DEF CacheTick
<1>2. \A s \in Coroutines : hit[s] \in Answers \cup {None} /\ answer[s] \in Answers \cup {None}
  BY DEF CacheTypeOK
<1>3. ASSUME NEW k \in Keys, stored'[k] # None
      PROVE  /\ stored[k] # None /\ stored[k].answer \in Answers
             /\ stored[k].left \in Nat /\ stored[k].left > 1
             /\ stored'[k].left = stored[k].left - 1
             /\ stored'[k].answer = Older(stored[k].answer)
  BY <1>3 DEF CacheTick, Expire, CacheTypeOK, Entries, EntriesYoung
<1>4. EntriesOwn'
  BY <1>3, <1>0 DEF SameAnswer, EntriesOwn
<1>5. EntriesYoung'
  <2> SUFFICES ASSUME NEW k \in Keys, stored'[k] # None
               PROVE  /\ TtlOf(stored'[k].answer.path) > 0
                      /\ stored'[k].left > 0
                      /\ stored'[k].left <= TtlOf(stored'[k].answer.path)
                      /\ stored'[k].answer.age + stored'[k].left
                            <= TtlOf(stored'[k].answer.path) + MaxDelay + 1
    BY DEF EntriesYoung
  <2>1. /\ TtlOf(stored[k].answer.path) > 0
        /\ stored[k].left <= TtlOf(stored[k].answer.path)
        /\ stored[k].answer.age + stored[k].left
              <= TtlOf(stored[k].answer.path) + MaxDelay + 1
    BY <1>3 DEF EntriesYoung
  <2>2. /\ stored[k].answer.age \in Nat /\ TtlOf(stored[k].answer.path) \in Int
    BY <1>3, CacheAssumption DEF Answers, TtlOf, ConfiguredTtl
  <2>3. /\ stored'[k].answer.path = stored[k].answer.path
        /\ stored'[k].answer.age \in Nat
        /\ stored'[k].answer.age <= stored[k].answer.age + 1
    BY <1>3, <1>0 DEF SameAnswer, Answers
  <2> QED
    BY <1>3, <2>1, <2>2, <2>3
<1>6. Halted'
  BY <1>1, <1>2, <1>0 DEF SameAnswer, Halted, CacheTick, CacheTypeOK
<1>7. AnswersOwn'
  <2>1. \A s \in Coroutines : answer[s] # None => waited'[s] = waited[s] + 1
    BY DEF CacheTick
  <2> QED
    BY <1>1, <1>2, <2>1, <1>0 DEF SameAnswer, AnswersOwn, CacheTick, CacheTypeOK, Answers
<1>8. HitsMatch'
  BY <1>1, <1>2, <1>0 DEF SameAnswer, HitsMatch, CacheTick
<1>9. HitsYoung'
  <2>1. \A s \in Coroutines : hit[s] # None => waited'[s] = waited[s] + 1
    BY DEF CacheTick
  <2>2. \A s \in Coroutines : hit[s] # None => TtlOf(hit[s].path) \in Int
    BY <1>2, CacheAssumption DEF Answers, TtlOf, ConfiguredTtl
  <2> QED
    BY <1>1, <1>2, <2>1, <2>2, <1>0 DEF SameAnswer, HitsYoung, CacheTick, CacheTypeOK, Answers
<1> QED
  BY <1>4, <1>5, <1>6, <1>7, <1>8, <1>9

-----------------------------------------------------------------------------

LEMMA CacheInductive ==
    ASSUME CacheInv, [CacheNext]_cacheVars
    PROVE  CacheInv'
<1>1. CacheTypeOK'
  BY CacheTypesStep DEF CacheInv
<1>2. ASSUME NEW s \in Coroutines, Lookup(s) PROVE EntriesOwn' /\ EntriesYoung'
  BY <1>2 DEF Lookup, CacheInv, EntriesOwn, EntriesYoung
<1>3. ASSUME NEW s \in Coroutines, NEW kind \in {"ok", "large", "error"}, ForwardMiss(s, kind)
      PROVE  EntriesOwn' /\ EntriesYoung'
  BY <1>3 DEF ForwardMiss, CacheInv, EntriesOwn, EntriesYoung
<1>4. ASSUME NEW s \in Coroutines, StoreAnswer(s)
      PROVE  Halted' /\ AnswersOwn' /\ HitsMatch' /\ HitsYoung'
  <2>1. Halted'
    BY <1>4 DEF CacheTypeOK, Halted, StoreAnswer, End, CacheInv
  <2> QED
    BY <1>4, <2>1 DEF CacheTypeOK, AnswersOwn, HitsMatch, HitsYoung, StoreAnswer, End, CacheInv
<1>5. CASE UNCHANGED cacheVars
  BY <1>5 DEF CacheInv, CacheTypeOK, EntriesOwn, EntriesYoung, Halted, AnswersOwn, HitsMatch,
              HitsYoung, cacheVars
<1> QED
  BY <1>1, <1>2, <1>3, <1>4, <1>5, QuietStep, LookupStep, ForwardStep, StoreStep,
     ChangeStep, TickStep
     DEF CacheInv, CacheNext, Handle, Refuse, Serve, NotStored

LEMMA CacheInvariance == CacheSpec => []CacheInv
<1>1. CacheInit => CacheInv
  BY CacheAssumption DEF CacheInit, CacheInv, CacheTypeOK, EntriesOwn, EntriesYoung, Halted, AnswersOwn,
                         HitsMatch, HitsYoung
<1>2. CacheInv /\ [CacheNext]_cacheVars => CacheInv'
  BY CacheInductive
<1> QED
  BY <1>1, <1>2, PTL DEF CacheSpec

-----------------------------------------------------------------------------
(* What two keys that read alike have in common. *)

(* Two texts put together, left unexpanded in the steps below. *)
Cat(s, t) == s \o t

(* A text without a mark. *)
Unmarked(s, c) == \A i \in 1 .. Len(s) : s[i] # c

(* What two texts put together are. *)
LEMMA CatType ==
    ASSUME NEW s \in Texts, NEW t \in Texts
    PROVE  Cat(s, t) \in Texts /\ Len(Cat(s, t)) = Len(s) + Len(t)
BY DEF Cat, Texts

(* A text ends. *)
LEMMA LenNat ==
    ASSUME NEW s \in Texts
    PROVE  Len(s) \in Nat
BY DEF Texts

(* What stands in the first of them. *)
LEMMA CatLeft ==
    ASSUME NEW s \in Texts, NEW t \in Texts, NEW i \in 1 .. Len(s)
    PROVE  Cat(s, t)[i] = s[i]
BY DEF Cat, Texts

(* What stands in the second. *)
LEMMA CatRight ==
    ASSUME NEW s \in Texts, NEW t \in Texts, NEW i \in 1 .. Len(t)
    PROVE  Cat(s, t)[Len(s) + i] = t[i]
BY DEF Cat, Texts

(* It does not matter which are put together first. *)
LEMMA CatAssociative ==
    ASSUME NEW s \in Texts, NEW t \in Texts, NEW u \in Texts
    PROVE  Cat(Cat(s, t), u) = Cat(s, Cat(t, u))
BY ConcatAssociative DEF Cat, Texts

(* Texts of the same pieces are the same. *)
LEMMA TextsEqual ==
    ASSUME NEW s \in Texts, NEW t \in Texts, Len(s) = Len(t),
           \A i \in 1 .. Len(s) : s[i] = t[i]
    PROVE  s = t
BY DEF Texts

(* Texts with the same beginning differ in the rest. *)
LEMMA CatCancel ==
    ASSUME NEW s \in Texts, NEW t \in Texts, NEW u \in Texts, Cat(s, t) = Cat(s, u)
    PROVE  t = u
<1>1. Len(Cat(s, t)) = Len(s) + Len(t) /\ Len(Cat(s, u)) = Len(s) + Len(u)
  BY CatType, Zenon
<1>2. Len(s) \in Nat /\ Len(t) \in Nat /\ Len(u) \in Nat
  BY DEF Texts
<1>3. Len(t) = Len(u)
  BY <1>1, <1>2
<1>4. ASSUME NEW i \in 1 .. Len(t) PROVE t[i] = u[i]
  <2>1. i \in 1 .. Len(u)
    BY <1>3
  <2>2. Cat(s, t)[Len(s) + i] = t[i]
    BY CatRight, Zenon
  <2>3. Cat(s, u)[Len(s) + i] = u[i]
    BY <2>1, CatRight, Zenon
  <2> QED
    BY <2>2, <2>3
<1> QED
  BY <1>3, <1>4, TextsEqual

(* What the key puts between its parts (_cache_key, cache.py:27-30). *)
LEMMA MarksAre ==
    ASSUME ":" \in Pieces, "GET" \in Pieces, "?" \in Pieces
    PROVE  /\ <<":">> \in Texts /\ Len(<<":">>) = 1 /\ <<":">>[1] = ":"
           /\ <<"?">> \in Texts /\ Len(<<"?">>) = 1 /\ <<"?">>[1] = "?"
           /\ <<"GET", ":">> \in Texts /\ Len(<<"GET", ":">>) = 2
           /\ <<"GET", ":">>[1] = "GET" /\ <<"GET", ":">>[2] = ":"
           /\ <<":", "GET", ":">> \in Texts /\ <<":", "GET", ":">> = Cat(<<":">>, <<"GET", ":">>)
<1>1. /\ <<":">> \in Texts /\ Len(<<":">>) = 1 /\ <<":">>[1] = ":"
      /\ <<"?">> \in Texts /\ Len(<<"?">>) = 1 /\ <<"?">>[1] = "?"
  BY DEF Texts
<1>2. /\ <<"GET", ":">> \in Texts /\ Len(<<"GET", ":">>) = 2
      /\ <<"GET", ":">>[1] = "GET" /\ <<"GET", ":">>[2] = ":"
  BY DEF Texts
<1>3. <<":", "GET", ":">> \in Texts 
  BY DEF Texts
<1>4. <<":", "GET", ":">> = Cat(<<":">>, <<"GET", ":">>)
  BY DEF Cat, Texts
<1> QED
  BY <1>1, <1>2, <1>3, <1>4

(* The text of a key, as its marks cut it. *)
(* The five parts of a key, put together from either end. *)
LEMMA CatFive ==
    ASSUME NEW t \in Texts, NEW m \in Texts, NEW g \in Texts, NEW x \in Texts,
           NEW q \in Texts, NEW y \in Texts
    PROVE  Cat(Cat(Cat(Cat(t, Cat(m, g)), x), q), y)
                = Cat(t, Cat(m, Cat(Cat(g, x), Cat(q, y))))
<1> DEFINE a == Cat(m, g)
<1>1. /\ a \in Texts /\ Cat(g, x) \in Texts /\ Cat(q, y) \in Texts 
  BY CatType, Zenon
<1>2. a = Cat(m, g) /\ Cat(a, x) = Cat(m, Cat(g, x))
  BY CatAssociative, SMT
<1> HIDE DEF a
<1>3. Cat(t, a) \in Texts /\ Cat(a, x) \in Texts
  BY <1>1, CatType, Zenon
<1>4. Cat(Cat(t, a), x) = Cat(t, Cat(a, x)) /\ Cat(Cat(a, x), q) \in Texts
  BY <1>1, <1>3, CatAssociative, CatType, SMT
<1>5. Cat(Cat(t, Cat(a, x)), q) = Cat(t, Cat(Cat(a, x), q))
  BY <1>3, CatAssociative, SMT
<1>6. Cat(Cat(t, Cat(Cat(a, x), q)), y) = Cat(t, Cat(Cat(Cat(a, x), q), y))
  BY <1>4, CatAssociative, SMT
<1>7. Cat(Cat(Cat(a, x), q), y) = Cat(Cat(a, x), Cat(q, y))
  BY <1>3, CatAssociative, SMT
<1>8. Cat(Cat(m, Cat(g, x)), Cat(q, y)) = Cat(m, Cat(Cat(g, x), Cat(q, y)))
  BY <1>1, CatAssociative, SMT
<1> QED
  BY <1>2, <1>4, <1>5, <1>6, <1>7, <1>8, Zenon

(* A text is cut in one way only at the first of a mark. *)
LEMMA CutOnce ==
    ASSUME NEW m \in Texts, Len(m) = 1,
           NEW s \in Texts, NEW u \in Texts, NEW e \in Texts, NEW f \in Texts,
           Unmarked(s, m[1]), Unmarked(u, m[1]),
           Cat(s, Cat(m, e)) = Cat(u, Cat(m, f))
    PROVE  s = u /\ e = f
<1>1. ASSUME NEW z \in Texts
      PROVE  Cat(m, z) \in Texts /\ 1 \in 1 .. Len(Cat(m, z)) /\ Cat(m, z)[1] = m[1]
  <2>1. Cat(m, z) \in Texts /\ Len(Cat(m, z)) = Len(m) + Len(z) /\ Len(z) \in Nat
    BY CatType, LenNat
  <2>2. 1 \in 1 .. Len(m)
    OBVIOUS
  <2>3. Cat(m, z)[1] = m[1]
    BY <2>2, CatLeft, Zenon
  <2> QED
    BY <2>1, <2>3
<1>2. PICK d \in Texts : d = Cat(m, e) /\ 1 \in 1 .. Len(d) /\ d[1] = m[1]
  BY <1>1
<1>3. PICK k \in Texts : k = Cat(m, f) /\ 1 \in 1 .. Len(k) /\ k[1] = m[1]
  BY <1>1
<1>4. PICK a : a = Cat(s, d) /\ a = Cat(u, k)
  BY <1>2, <1>3
<1>5. Len(s) \in Nat /\ Len(u) \in Nat
  BY LenNat
<1>6. a[Len(s) + 1] = m[1] /\ a[Len(u) + 1] = m[1]
  <2>1. Cat(s, d)[Len(s) + 1] = d[1]
    BY <1>2, CatRight, Zenon
  <2>2. Cat(u, k)[Len(u) + 1] = k[1]
    BY <1>3, CatRight, Zenon
  <2> QED
    BY <1>2, <1>3, <1>4, <2>1, <2>2, Zenon
<1>7. ASSUME NEW i \in 1 .. Len(s) PROVE a[i] = s[i] /\ a[i] # m[1]
  <2>1. Cat(s, d)[i] = s[i]
    BY CatLeft, Zenon
  <2> QED
    BY <1>4, <2>1, Zenon DEF Unmarked
<1>8. ASSUME NEW i \in 1 .. Len(u) PROVE a[i] = u[i] /\ a[i] # m[1]
  <2>1. Cat(u, k)[i] = u[i]
    BY CatLeft, Zenon
  <2> QED
    BY <1>4, <2>1, Zenon DEF Unmarked
<1>9. Len(s) = Len(u)
  <2>1. Len(u) + 1 \notin 1 .. Len(s) /\ Len(s) + 1 \notin 1 .. Len(u)
    BY <1>6, <1>7, <1>8, Zenon
  <2> QED
    BY <1>5, <2>1
<1>10. s = u
  <2>1. \A i \in 1 .. Len(s) : s[i] = u[i]
    BY <1>7, <1>8, <1>9, Zenon
  <2> QED
    BY <1>9, <2>1, TextsEqual, Zenon
<1>11. d = k
  <2>1. Cat(s, d) = Cat(s, k)
    BY <1>4, <1>10
  <2> QED
    BY <2>1, CatCancel, Zenon
<1>12. Cat(m, e) = Cat(m, f)
  BY <1>2, <1>3, <1>11, Zenon
<1> QED
  BY <1>10, <1>12, CatCancel, Zenon

(* So after a beginning without the mark. *)
LEMMA CutTwice ==
    ASSUME NEW q \in Texts, Len(q) = 1,
           NEW g \in Texts, Unmarked(g, q[1]),
           NEW x \in Texts, NEW y \in Texts, NEW v \in Texts, NEW w \in Texts,
           Unmarked(x, q[1]), Unmarked(v, q[1]),
           Cat(Cat(g, x), Cat(q, y)) = Cat(Cat(g, v), Cat(q, w))
    PROVE  x = v /\ y = w
<1>1. ASSUME NEW z \in Texts, Unmarked(z, q[1]), NEW i \in 1 .. Len(Cat(g, z))
      PROVE  Cat(g, z)[i] # q[1]
  <2>1. Len(Cat(g, z)) = Len(g) + Len(z) /\ Len(g) \in Nat /\ Len(z) \in Nat
    BY CatType, LenNat
  <2>2. CASE i \in 1 .. Len(g)
    <3>1. Cat(g, z)[i] = g[i]
      BY <2>2, CatLeft, Zenon
    <3> QED
      BY <2>2, <3>1, Zenon DEF Unmarked
  <2>3. CASE i \notin 1 .. Len(g)
    <3>1. i - Len(g) \in 1 .. Len(z) /\ i = Len(g) + (i - Len(g))
      BY <2>1, <2>3
    <3>2. Cat(g, z)[Len(g) + (i - Len(g))] = z[i - Len(g)]
      BY <3>1, CatRight, Zenon
    <3> QED
      BY <1>1, <3>1, <3>2 DEF Unmarked
  <2> QED
    BY <2>2, <2>3
<1>2. PICK a \in Texts, c \in Texts : a = Cat(g, x) /\ c = Cat(g, v)
  BY CatType
<1>3. Unmarked(a, q[1]) /\ Unmarked(c, q[1])
  BY <1>1, <1>2 DEF Unmarked
<1>4. Cat(a, Cat(q, y)) = Cat(c, Cat(q, w))
  BY <1>2
<1>5. a = c /\ y = w
  BY <1>3, <1>4, CutOnce
<1> QED
  BY <1>2, <1>5, CatCancel

(* A key's text after the tenant and the first mark. *)
Rest(p) == Cat(Cat(<<"GET", ":">>, p.path), Cat(<<"?">>, p.query))

(* The text of a key, as its marks cut it. *)
LEMMA KeyTextCut ==
    ASSUME NEW t \in Texts, NEW p \in [path : Texts, query : Texts],
           ":" \in Pieces, "GET" \in Pieces, "?" \in Pieces
    PROVE  KeyText(t, "GET", p) = Cat(t, Cat(<<":">>, Rest(p))) /\ Rest(p) \in Texts
<1>1. PICK m \in Texts, g \in Texts, q \in Texts : m = <<":">> /\ g = <<"GET", ":">> /\ q = <<"?">>
  BY MarksAre
<1>2. PICK x \in Texts, y \in Texts : x = p.path /\ y = p.query
  OBVIOUS
<1>3. t \o <<":", "GET", ":">> \o x \o <<"?">> \o y = Cat(Cat(Cat(Cat(t, Cat(m, g)), x), q), y)
  BY <1>1, MarksAre, Zenon DEF Cat
<1>4. Cat(Cat(Cat(Cat(t, Cat(m, g)), x), q), y) = Cat(t, Cat(m, Cat(Cat(g, x), Cat(q, y))))
  BY CatFive, SMTT(60)
<1>5. Cat(Cat(g, x), Cat(q, y)) \in Texts
  BY CatType
<1>6. Rest(p) = Cat(Cat(g, x), Cat(q, y))
  BY <1>1, <1>2, Zenon DEF Rest
<1> QED
  BY <1>1, <1>2, <1>3, <1>4, <1>5, <1>6, Zenon DEF KeyText

(* Where the paths have no mark, the rests of two keys differ. *)
LEMMA RestsDiffer ==
    ASSUME NEW p \in [path : Texts, query : Texts], NEW q \in [path : Texts, query : Texts],
           ":" \in Pieces, "GET" \in Pieces, "?" \in Pieces,
           Unmarked(p.path, "?"), Unmarked(q.path, "?"), Rest(p) = Rest(q)
    PROVE  p = q
<1>1. PICK x \in Texts, y \in Texts : x = p.path /\ y = p.query
  OBVIOUS
<1>2. PICK v \in Texts, w \in Texts : v = q.path /\ w = q.query
  OBVIOUS
<1>3. PICK g, k : g = <<"GET", ":">> /\ k = <<"?">>
  OBVIOUS
<1>4. /\ g \in Texts /\ Len(g) = 2 /\ g[1] = "GET" /\ g[2] = ":"
      /\ k \in Texts /\ Len(k) = 1 /\ k[1] = "?"
  BY <1>3, MarksAre
<1>5. Unmarked(g, k[1])
  BY <1>4 DEF Unmarked
<1>6. Cat(Cat(g, x), Cat(k, y)) = Cat(Cat(g, v), Cat(k, w))
  BY <1>1, <1>2, <1>3, Zenon DEF Rest
<1>7. Unmarked(x, k[1]) /\ Unmarked(v, k[1])
  BY <1>1, <1>2, <1>4, Zenon
<1>8. x = v /\ y = w
  BY <1>6, <1>7, <1>4, <1>5, CutTwice
<1>9. p.path = q.path /\ p.query = q.query
  BY <1>1, <1>2, <1>8
<1> QED
  BY <1>9

(* Equal keys of plain requests are of one tenant, path and query. *)
LEMMA PlainKeysDiffer ==
    ASSUME NEW t \in Tenants, NEW u \in Tenants, NEW p \in Paths, NEW q \in Paths,
           KeyText(t, "GET", p) = KeyText(u, "GET", q), Plain(t, p), Plain(u, q)
    PROVE  t = u /\ p = q
<1>1. /\ t \in Texts /\ u \in Texts /\ ":" \in Pieces /\ "GET" \in Pieces /\ "?" \in Pieces
      /\ p \in [path : Texts, query : Texts] /\ q \in [path : Texts, query : Texts]
  BY CacheAssumption
<1>2. PICK m, e, f : m = <<":">> /\ e = Rest(p) /\ f = Rest(q)
  OBVIOUS
<1>3. m \in Texts /\ Len(m) = 1 /\ m[1] = ":"
  BY <1>1, <1>2, MarksAre
<1>4. e \in Texts /\ f \in Texts
  BY <1>1, <1>2, KeyTextCut
<1>5. Cat(t, Cat(m, e)) = Cat(u, Cat(m, f))
  BY <1>1, <1>2, KeyTextCut
<1>6. /\ Unmarked(t, m[1]) /\ Unmarked(u, m[1])
      /\ Unmarked(p.path, "?") /\ Unmarked(q.path, "?")
  <2>1. /\ DOMAIN t = 1 .. Len(t) /\ DOMAIN p.path = 1 .. Len(p.path)
        /\ DOMAIN u = 1 .. Len(u) /\ DOMAIN q.path = 1 .. Len(q.path)
    BY <1>1 DEF Texts
  <2> QED
    BY <1>3, <2>1, Zenon DEF Plain, Unmarked
<1>7. t = u /\ e = f
  BY <1>1, <1>5, <1>6, <1>3, <1>4, CutOnce
<1> QED
  BY <1>1, <1>2, <1>6, <1>7, RestsDiffer

(* A cached answer reaches only requests whose key reads like that of the  *)
(* request it was made for (_cache_key, cache.py:23), whatever tenant a    *)
(* later plugin puts into the context; and those are of the same tenant,   *)
(* path and query unless a ":" or "?" stands where it may be taken for the *)
(* key's own.                                                              *)
THEOREM HitsAreOwn == CacheSpec => []HitIsOwn
<1>1. CacheInv => HitIsOwn
  <2> SUFFICES ASSUME CacheInv, NEW s \in Coroutines, hit[s] # None,
                      Plain(EarlyTenant(in[s]), in[s].path), Plain(hit[s].tenant, hit[s].path)
               PROVE  hit[s].tenant = EarlyTenant(in[s]) /\ hit[s].path = in[s].path
    BY DEF CacheInv, HitsMatch, HitIsOwn
  <2>1. hit[s].tenant \in Tenants /\ hit[s].path \in Paths
    BY DEF CacheInv, CacheTypeOK, Answers
  <2>2. EarlyTenant(in[s]) \in Tenants /\ in[s].path \in Paths
    BY CacheAssumption DEF CacheInv, CacheTypeOK, Halted, EarlyTenant, AllCases
  <2>3. KeyText(hit[s].tenant, "GET", hit[s].path)
          = KeyText(EarlyTenant(in[s]), "GET", in[s].path)
    BY DEF CacheInv, HitsMatch
  <2> QED
    BY <2>1, <2>2, <2>3, PlainKeysDiffer
<1> QED
  BY <1>1, CacheInvariance, PTL

(* The TTL with which answers are stored (cache.py:102) bounds how long a  *)
(* hit has been out of date, though an older answer may overwrite a newer. *)
THEOREM HitsAreYoung ==
    CacheSpec => []StalenessBounded
<1>1. CacheInv => StalenessBounded
  <2> SUFFICES ASSUME CacheInv, NEW s \in Coroutines, hit[s] # None
               PROVE  hit[s].age <= TtlOf(hit[s].path) + 2 * MaxDelay
    BY DEF StalenessBounded
  <2>1. TtlOf(hit[s].path) \in Int
    BY CacheAssumption DEF CacheInv, CacheTypeOK, Answers, TtlOf, ConfiguredTtl
  <2>2. hit[s].age \in Nat /\ waited[s] \in 0..MaxDelay
    BY DEF CacheInv, CacheTypeOK, Answers
  <2>3. hit[s].age <= TtlOf(hit[s].path) + MaxDelay + waited[s]
    BY DEF CacheInv, HitsYoung
  <2> QED
    BY <2>1, <2>2, <2>3, CacheAssumption
<1> QED
  BY <1>1, CacheInvariance, PTL
=============================================================================
