---------------------------- MODULE ForwardChain -----------------------------
(* What the forward plugins of one request do to what goes upstream and to *)
(* what comes back: the nested around_request of correlation_id,           *)
(* request_size, validation, transformation, event_bridge, cors, retry and *)
(* forward_auth (modes static and propagate), in any order, around         *)
(* foward_call (src/app/main.py).                                          *)
(*                                                                         *)
(* The plugins work on one context: retry calls the rest of the chain      *)
(* again over the body and the headers that the attempt before has left.   *)
(* "down" is the way to upstream, at[1..] the plugin being entered; "up"   *)
(* the way back, with the plugin whose call_next() returns or raises.      *)
(*                                                                         *)
(* A body is kept as what kind it is and its fields; a field counts as one *)
(* byte.  A header is kept as who gave it its value.  Of the CORS headers   *)
(* of an answer "origin" stands for those that cors always sets (origin,   *)
(* methods, headers, vary), "credentials" for those it sets if the route   *)
(* says so (expose-headers, credentials, max-age).                         *)
(***************************************************************************)
EXTENDS Integers, Sequences, FiniteSets, SequencesExt

CONSTANTS Chains,    \* the forward plugins of a route, outermost first
          Configs,   \* their configurations
          Clients,   \* the requests
          Uuids,     \* what uuid4() returns, one after the other
          Attempts,  \* attempts of retry
          MaxBytes,  \* max_bytes of request_size
          MaxRepeats \* bound: how often redis-py repeats a command of a lost reply

Types == {"correlation_id", "request_size", "validation", "transformation",
          "event_bridge", "cors", "retry", "forward_auth"}

Fields == {"a", "b", "c"}
Default == "default"   \* the value of every json_defaults entry
Values == Fields \cup {Default}

NoFields == [f \in {} |-> Default]
Objects == [kind : {"object"}, fields : UNION {[S -> Values] : S \in SUBSET Fields}]
Bodies == Objects \cup [kind : {"empty", "text", "list"}, fields : {NoFields}]

Names == {"id", "auth", "custom", "ctype"}
Unset == "unset"
Given == "client"   \* a value taken from the client's request
Marks == {Unset, Given, "config", "json"} \cup {Uuids[i] : i \in DOMAIN Uuids}

(* rename: pairs in the order of json_rename; defaults and remove: fields; *)
(* setHeaders, removeHeaders: names; after: forward_after_publish; block:  *)
(* block_disallowed_origin; credentials: whether cors has more than its    *)
(* usual headers to set; require: required_fields; auth: mode, "tokenless" *)
(* being static with no token; target: target_header.                      *)
ConfigRecords ==
    [rename : Seq(Fields \X Fields), defaults : SUBSET Fields, remove : SUBSET Fields,
     setHeaders : SUBSET Names, removeHeaders : SUBSET Names,
     after : BOOLEAN, block : BOOLEAN, credentials : BOOLEAN,
     require : SUBSET Fields, auth : {"static", "tokenless", "propagate"}, target : Names]

(* id, auth: whether the client sends the header; rules: whether method,   *)
(* headers and query satisfy validation; origin: with respect to           *)
(* allowed_origins.                                                        *)
ClientRecords ==
    [body : Bodies, id : BOOLEAN, auth : BOOLEAN, rules : BOOLEAN,
     origin : {"none", "allowed", "disallowed"}, preflight : BOOLEAN]

ASSUME ChainAssumption ==
    /\ Chains \subseteq {c \in Seq(Types) : IsInjective(c)}
    /\ Configs \subseteq ConfigRecords
    /\ \A c \in Configs : \A i, j \in DOMAIN c.rename :      \* a dictionary
          c.rename[i][1] = c.rename[j][1] => i = j
    /\ Clients \subseteq ClientRecords
    /\ \A c \in Clients : Default \notin Range(c.body.fields) \* Default is ours
    /\ Attempts \in Nat \ {0}         \* max(1, int(...))
    /\ MaxBytes \in Nat \ {0}         \* max(1, ...)
    /\ MaxRepeats \in Nat
    /\ Uuids \in Seq(Range(Uuids)) /\ Len(Uuids) >= Attempts

VARIABLES chain, config, client,
          pc,       \* "down" or "up"
          at,       \* the plugin being entered or returned to
          body,     \* extra["request_body"]
          headers,  \* extra["upstream_headers"]
          requestId, \* request_id of correlation_id, kept across call_next
          attempt,  \* the loop variable of retry
          result,   \* what comes up: a response or an exception
          ids,      \* how many uuids were made
          sent,     \* history: calls of upstream and what became of them
          events    \* history: events published

route == <<chain, config, client>>
position == <<pc, at, result>>
context == <<body, headers>>
memory == <<requestId, attempt>>
record == <<ids, sent, events>>
vars == <<chain, config, client, pc, at, body, headers, requestId, attempt, result,
          ids, sent, events>>

CorsNames == {"origin", "credentials"}
NoCors == [n \in CorsNames |-> Unset]
Answer(status, cors) == [status |-> status, id |-> Unset, cors |-> cors]

NoResponse == Answer(0, NoCors)
Error == Answer(500, NoCors)                             \* raised
Retryable == {503}                                       \* retry_on
Outcomes == {200, 503, 500}                              \* 500: it raised

-----------------------------------------------------------------------------
(* Bodies. *)

Object(f) == [kind |-> "object", fields |-> f]
Without(f, S) == [x \in DOMAIN f \ S |-> f[x]]
With(f, x, v) == [y \in DOMAIN f \cup {x} |-> IF y = x THEN v ELSE f[y]]

SizeOf(b) == IF b.kind = "empty" THEN 0 ELSE IF b.kind = "object"
             THEN 1 + Cardinality(DOMAIN b.fields) ELSE 2

(* Both plugins that parse the body take an empty one for {}. *)
Parses(b) == b.kind \in {"empty", "object"}

Renamed(f) ==
    FoldLeft(LAMBDA g, p : IF p[1] \in DOMAIN g
                           THEN With(Without(g, {p[1]}), p[2], g[p[1]]) ELSE g,
             f, config.rename)

Defaulted(f) == [x \in DOMAIN f \cup config.defaults |->
                   IF x \in DOMAIN f THEN f[x] ELSE Default]

(* Plausible defects of the operators below, used by no action. *)
RewrittenDefaultsFirst(b) == Object(Without(Renamed(Defaulted(b.fields)), config.remove))
FitsClient(b) == SizeOf(client.body) <= MaxBytes        \* content-length
MarkOnce(id) == IF headers["id"] = Unset THEN id ELSE headers["id"]
MoreAttempts == attempt <= Attempts
AfterSendConsumed == body' = [kind |-> "empty", fields |-> NoFields]
PublishFailsOpen == at' = at + 1 /\ UNCHANGED <<pc, result>>

(* json_rename, then json_defaults, then json_remove. *)
Rewrites == config.rename # <<>> \/ config.defaults # {} \/ config.remove # {}
Rewritten(b) == Object(Without(Defaulted(Renamed(b.fields)), config.remove))

Fits(b) == SizeOf(b) <= MaxBytes
Valid(b) == Parses(b) /\ config.require \subseteq DOMAIN b.fields

-----------------------------------------------------------------------------

Init ==
    /\ chain \in Chains /\ config \in Configs /\ client \in Clients
    /\ pc = "down" /\ at = 1
    /\ body = client.body
    /\ headers = [n \in Names |-> Unset]
    /\ requestId = Unset /\ attempt = 0
    /\ result = NoResponse
    /\ ids = 0 /\ sent = <<>> /\ events = 0

Entering(type) == pc = "down" /\ at \in DOMAIN chain /\ chain[at] = type
Returning(type) == pc = "up" /\ at \in DOMAIN chain /\ chain[at] = type

(* await call_next(), and the ways out of a plugin. *)
CallNext == at' = at + 1 /\ UNCHANGED <<pc, result>>
Respond(r) == pc' = "up" /\ at' = at - 1 /\ result' = r
Raise == Respond(Error)
PassOn == at' = at - 1 /\ UNCHANGED <<pc, result>>

Mark(id) == id

EnterCorrelation ==
    /\ Entering("correlation_id")
    /\ LET id == IF client.id THEN Given ELSE Uuids[ids + 1] IN
         /\ headers' = [headers EXCEPT !["id"] = Mark(id)]
         /\ requestId' = id
    /\ ids' = IF client.id THEN ids ELSE ids + 1
    /\ CallNext
    /\ UNCHANGED <<route, body, attempt, sent, events>>

(* The response's own header of that name is replaced. *)
LeaveCorrelation ==
    /\ Returning("correlation_id")
    /\ IF result = Error THEN PassOn ELSE Respond([result EXCEPT !.id = requestId])
    /\ UNCHANGED <<route, context, memory, record>>

CheckSize ==
    /\ Entering("request_size")
    /\ IF Fits(body) THEN CallNext ELSE Raise
    /\ UNCHANGED <<route, context, memory, record>>

Validate ==
    /\ Entering("validation")
    /\ IF client.rules /\ Valid(body) THEN CallNext ELSE Raise
    /\ UNCHANGED <<route, context, memory, record>>

Transform ==
    /\ Entering("transformation")
    /\ LET named == [n \in Names |-> IF n \in config.removeHeaders THEN Unset
                                     ELSE IF n \in config.setHeaders THEN "config" ELSE headers[n]]
       IN  \/ /\ ~Rewrites
              /\ headers' = named
              /\ CallNext
              /\ UNCHANGED body
           \/ /\ Rewrites /\ Parses(body)
              /\ body' = Rewritten(body)
              /\ headers' = IF named["ctype"] = Unset THEN [named EXCEPT !["ctype"] = "json"]
                            ELSE named
              /\ CallNext
           \/ /\ Rewrites /\ ~Parses(body)
              /\ headers' = named
              /\ Raise
              /\ UNCHANGED body
    /\ UNCHANGED <<route, memory, record>>

Published == Answer(202, NoCors)

(* PUBLISH or XADD: redis-py sends it again when the reply is lost, and     *)
(* Redis may have carried out each of them.                                *)
Publish ==
    /\ Entering("event_bridge")
    /\ \E n \in 1..(MaxRepeats + 1) : events' = events + n
    /\ IF config.after THEN CallNext ELSE Respond(Published)
    /\ UNCHANGED <<route, context, memory, ids, sent>>

AfterPublishError == Raise

(* RedisError; the event may have been published all the same, more than   *)
(* once too.                                                               *)
PublishFails ==
    /\ Entering("event_bridge")
    /\ \E n \in 0..(MaxRepeats + 1) : events' = events + n
    /\ AfterPublishError
    /\ UNCHANGED <<route, context, memory, ids, sent>>

AllowsOrigin == client.origin = "allowed"
CorsSet == {"origin"} \cup (IF config.credentials THEN {"credentials"} ELSE {})
CorsOver(cors) == [n \in CorsNames |-> IF n \in CorsSet THEN "gateway" ELSE cors[n]]

EnterCors ==
    /\ Entering("cors")
    /\ IF client.origin = "none" THEN CallNext
       ELSE IF ~AllowsOrigin /\ config.block THEN Raise
       ELSE IF client.preflight
       THEN Respond(Answer(204, IF AllowsOrigin THEN CorsOver(NoCors) ELSE NoCors))
       ELSE CallNext
    /\ UNCHANGED <<route, context, memory, record>>

(* _merge_headers: the response's own headers of the same names go, its    *)
(* others stay.                                                            *)
MergedCors(r) == [r EXCEPT !.cors = CorsOver(@)]

LeaveCors ==
    /\ Returning("cors")
    /\ IF result # Error /\ AllowsOrigin THEN Respond(MergedCors(result)) ELSE PassOn
    /\ UNCHANGED <<route, context, memory, record>>

Authorize ==
    /\ Entering("forward_auth")
    /\ headers' = [headers EXCEPT ![config.target] =
                     IF config.auth = "static" THEN "config"
                     ELSE IF config.auth = "propagate" /\ client.auth THEN Given ELSE @]
    /\ CallNext
    /\ UNCHANGED <<route, body, memory, record>>

EnterRetry ==
    /\ Entering("retry")
    /\ CallNext
    /\ attempt' = 1
    /\ UNCHANGED <<route, context, requestId, record>>

(* Any exception, or a status of retry_on. *)
More == attempt < Attempts
Repeats(r) == r = Error \/ r.status \in Retryable

LeaveRetry ==
    /\ Returning("retry")
    /\ \/ /\ Repeats(result) /\ More
          /\ attempt' = attempt + 1
          /\ pc' = "down" /\ at' = at + 1
          /\ result' = NoResponse
       \/ /\ ~Repeats(result) \/ ~More
          /\ PassOn
          /\ UNCHANGED attempt
    /\ UNCHANGED <<route, context, requestId, record>>

(* The other plugins return what call_next returned, or let it raise. *)
LeaveOthers ==
    /\ \E type \in {"request_size", "validation", "transformation", "event_bridge",
                    "forward_auth"} : Returning(type)
    /\ PassOn
    /\ UNCHANGED <<route, context, memory, record>>

AfterSend == UNCHANGED body

(* foward_call.  It may raise after upstream has carried the call out; the *)
(* response may have CORS headers of its own.                              *)
CallUpstream(outcome, cors) ==
    /\ pc = "down" /\ at = Len(chain) + 1
    /\ LET answer == IF outcome = 500 THEN Error ELSE Answer(outcome, cors) IN
         /\ sent' = Append(sent, [body |-> body, headers |-> headers,
                                  outcome |-> outcome, cors |-> answer.cors])
         /\ Respond(answer)
    /\ AfterSend
    /\ UNCHANGED <<route, headers, memory, ids, events>>

UpstreamCors == [CorsNames -> {Unset, "upstream"}]

Finished == pc = "up" /\ at = 0
Answered == Finished /\ UNCHANGED vars

Next ==
    \/ EnterCorrelation \/ LeaveCorrelation
    \/ CheckSize \/ Validate \/ Transform
    \/ Publish \/ PublishFails
    \/ EnterCors \/ LeaveCors
    \/ Authorize
    \/ EnterRetry \/ LeaveRetry
    \/ LeaveOthers \/ Answered
    \/ \E outcome \in Outcomes, cors \in UpstreamCors : CallUpstream(outcome, cors)

Spec == Init /\ [][Next]_vars

-----------------------------------------------------------------------------

Answers == [status : {0, 200, 202, 204, 500, 503}, id : Marks,
            cors : [CorsNames -> {Unset, "upstream", "gateway"}]]

(* Every variable has its type, and the counters stay within the attempts. *)
TypeOK ==
    /\ chain \in Chains /\ config \in Configs /\ client \in Clients
    /\ pc \in {"down", "up"} /\ at \in 0..(Len(chain) + 1)
    /\ body \in Bodies
    /\ headers \in [Names -> Marks]
    /\ requestId \in Marks /\ attempt \in 0..Attempts
    /\ result \in Answers
    /\ ids \in 0..Attempts
    /\ Len(sent) <= Attempts /\ events \in 0..(Attempts * (MaxRepeats + 1))

Has(p) == p \in Range(chain)
Around(p, q) == \E i, j \in DOMAIN chain : i < j /\ chain[i] = p /\ chain[j] = q

(* Doing the rewriting again changes nothing: no field that json_rename    *)
(* takes away is put back by a later entry of it or by json_defaults.      *)
Stable ==
    \A i \in DOMAIN config.rename :
        LET old == config.rename[i][1] IN
          /\ old \notin config.defaults \ config.remove
          /\ \A j \in DOMAIN config.rename : j > i => config.rename[j][2] # old
RewrittenOnce == ~Rewrites \/ Stable \/ ~Around("retry", "transformation")

(* Names a rename leads to from the fields of c, by way of others or not.  *)
Reached(c) ==
    {x \in Fields : \A S \in SUBSET Fields :
        (\A p \in Range(config.rename) : p[1] \in DOMAIN c \cup S => p[2] \in S) => x \in S}

(* What a rewritten body must be, read off the configuration: no removed   *)
(* field, every default; a field of the client's keeps its value or hands  *)
(* it to its new name; a default stands only where the client gave nothing.*)
IsRewritingOf(s, c) ==
    LET renames == {p \in Range(config.rename) : p[1] \in DOMAIN c}
        moved == {p[1] : p \in Range(config.rename)}
        taken == {p[2] : p \in renames} \ moved
    IN  /\ DOMAIN s \cap config.remove = {}
        /\ config.defaults \ config.remove \subseteq DOMAIN s
        /\ \A x \in DOMAIN c \ (moved \cup Reached(c) \cup config.remove) :
               x \in DOMAIN s /\ s[x] = c[x]
        /\ \A x \in taken \ config.remove :
               x \in DOMAIN s /\ s[x] \in {c[q[1]] : q \in renames}
        /\ \A x \in DOMAIN s : s[x] = Default =>
               x \in config.defaults \ taken /\ x \notin DOMAIN c \ moved

(* What goes upstream is the client's body, rewritten as the route says     *)
(* when the route has transformation, however often it is sent.             *)
ClientValuesKept ==
    RewrittenOnce => \A i \in DOMAIN sent :
        IF Has("transformation") /\ Rewrites
        THEN sent[i].body.kind = "object"
             /\ IsRewritingOf(sent[i].body.fields, client.body.fields)
        ELSE sent[i].body = client.body

(* What goes upstream has passed the checks of the route: the body that is  *)
(* sent, not the one that came, unless transformation follows the check.    *)
SentWasChecked ==
    \A i \in DOMAIN sent :
        /\ Has("request_size") /\ ~Around("request_size", "transformation")
               => SizeOf(sent[i].body) <= MaxBytes
        /\ Has("validation") => client.rules
        /\ Has("validation") /\ ~Around("validation", "transformation")
               => /\ sent[i].body.kind \in {"empty", "object"}
                  /\ config.require \subseteq DOMAIN sent[i].body.fields

(* The id the client is told is the one upstream was told in the call that  *)
(* the answer is of, and the client's own if it sent one; unless the route *)
(* lets a plugin below correlation_id write that header too.               *)
CorrelationAgrees ==
    Finished /\ Has("correlation_id") /\ sent # <<>> /\ result # Error =>
        /\ client.id => result.id = Given
        /\ \/ result.id = Last(sent).headers["id"]
           \/ /\ Around("correlation_id", "transformation")
              /\ "id" \in config.setHeaders \cup config.removeHeaders
           \/ Around("correlation_id", "forward_auth") /\ config.target = "id"

(* Nothing is forwarded that was not published first; but for what         *)
(* redis-py repeats, one event stands for one request, or for one attempt  *)
(* if retry is around event_bridge.                                        *)
PublishedFirst ==
    Has("event_bridge") =>
        /\ sent # <<>> => config.after
        /\ events >= IF Around("event_bridge", "retry") THEN (IF sent = <<>> THEN 0 ELSE 1)
                     ELSE Len(sent)
        /\ events <= (IF Around("retry", "event_bridge") THEN attempt ELSE 1) * (MaxRepeats + 1)

(* A client of an allowed origin that is answered through cors gets the    *)
(* gateway's headers; any other CORS header is as upstream set it in the   *)
(* call that the answer is of.  Neither a preflight nor a blocked origin   *)
(* reaches upstream.                                                       *)
CorsAnswered ==
    Has("cors") =>
        /\ Finished /\ result # Error /\ AllowsOrigin
               /\ (config.after \/ ~Around("event_bridge", "cors"))
               => \A n \in CorsSet : result.cors[n] = "gateway"
        /\ Finished /\ result # Error /\ sent # <<>>
               => \A n \in CorsNames \ (IF AllowsOrigin THEN CorsSet ELSE {}) :
                      result.cors[n] = Last(sent).cors[n]
        /\ sent # <<>> /\ client.origin # "none"
               => ~client.preflight /\ (AllowsOrigin \/ ~config.block)

(* What the answer says of the exchange, to the client and its browser.    *)
AnswerMarked == CorrelationAgrees /\ CorsAnswered

(* Upstream is called again only when it failed in a way that retry_on     *)
(* names or raised, and never without retry.                               *)
RepeatsOnlyFailures ==
    \A i \in 1..(Len(sent) - 1) :
        Has("retry") /\ sent[i].outcome \in Retryable \cup {500}

(* Every attempt sends the same request: the same body, and the same       *)
(* headers but for an id made anew when retry is around correlation_id.    *)
AttemptsAlike ==
    \A i \in 1..(Len(sent) - 1) :
        LET one == sent[i] two == sent[i + 1] IN
          /\ RewrittenOnce => two.body = one.body
          /\ \A n \in Names \ (IF Around("retry", "correlation_id") THEN {"id"} ELSE {}) :
                 two.headers[n] = one.headers[n]

(* Retrying repeats failed calls, as they were.                            *)
RetriesSound == RepeatsOnlyFailures /\ AttemptsAlike

=============================================================================
