------------------------------ MODULE Pipeline ------------------------------
(* What stands between a connection and a handler: the framework adapters,   *)
(* the router, bearer authentication and the rate limiter of                 *)
(* typescript/src/http, and the license guard of typescript/src/middleware   *)
(* that protects an application's own routes.  Every await is a step of its  *)
(* own: requests interleave between the read and the write of a bucket and   *)
(* while a credential is verified.  `pipe` keeps a run to one concern:       *)
(* "routes" (every shape of request, one at a time), "limits" (several       *)
(* requests and the clock), "guard" (the application's guard).               *)
EXTENDS Integers, Sequences, FiniteSets, FiniteSetsExt, TLC

CONSTANTS Pipes,        \* the concerns this instance covers
          Limited,      \* the adapters whose rate limiting is explored
          Skipping,     \* the deployments with rateLimit: skipPublic
          Callers,      \* requests that may be in flight together
          Peers,        \* socket addresses requests come from
          Burst,        \* rateLimit: burst
          RefillNum, RefillDen,   \* rateLimit: refillPerSec = RefillNum / RefillDen
          Second,       \* clock ticks in a second
          MaxTime, MaxRequests

ASSUME PipeAssumption == /\ Burst \in Nat \ {0} /\ RefillNum \in Nat \ {0}
                         /\ RefillDen \in Nat \ {0} /\ Second \in Nat \ {0}
                         /\ Peers # {}

VARIABLES pipe, server, time,
          call,         \* per caller: its request and how far it has come
          bucket,       \* the BucketStore
          admitted,     \* per key: the instants of the requests let through
          overlapped,   \* keys with two requests in the limiter at once
          promise,      \* per key: when the last 429 said to come back
          received

pipeVars == <<pipe, server, time, call, bucket, admitted, overlapped, promise, received>>

None == "none"
NoBucket == [tokens |-> -1, lastRefillMs |-> 0]
\* "expressJson" is Express with express.json() mounted in front.
Adapters == {"node", "express", "expressJson", "fastify", "hono"}

-----------------------------------------------------------------------------
(* Routes.  A path is the sequence of its segments, "%" a segment whose      *)
(* escapes decodeURIComponent rejects.                                       *)

route(m, path, public, body) == [method |-> m, path |-> path, public |-> public, body |-> body]

clientRoutes == <<route("GET", <<"health">>, TRUE, FALSE),
                  route("POST", <<"activate">>, TRUE, TRUE)>>
adminRoutes  == <<route("GET", <<"admin", "licenses">>, FALSE, FALSE),
                  route("POST", <<"admin", "licenses">>, FALSE, TRUE),
                  route("GET", <<"admin", "licenses", ":id">>, FALSE, FALSE),
                  route("PATCH", <<"admin", "licenses", ":id">>, FALSE, TRUE),
                  route("DELETE", <<"admin", "licenses", ":id">>, FALSE, FALSE),
                  route("POST", <<"admin", "licenses", ":id", "suspend">>, FALSE, FALSE)>>
Routes == clientRoutes \o adminRoutes

Paths == {<<"health">>, <<"activate">>, <<"admin", "licenses">>, <<"admin", "licenses", "x">>,
          <<"admin", "licenses", "%">>, <<"admin", "licenses", "%", "nowhere">>,
          <<"admin", "licenses", "x", "suspend">>, <<"nowhere">>}

\* Segments are compared and decoded from left to right.
matchSegments(segments, parts) ==
    LET miss == {i \in DOMAIN segments : segments[i] # ":id" /\ segments[i] # parts[i]}
        bad  == {i \in DOMAIN segments : segments[i] = ":id" /\ parts[i] = "%"}
    IN CASE Len(segments) # Len(parts) -> "null"
         [] Len(segments) = Len(parts) /\ \E i \in bad : \A j \in miss : i < j -> "URIError"
         [] OTHER -> IF miss = {} THEN "params" ELSE "null"

\* The index of the route that answers, or how dispatch ends without one.
dispatch(method, path) ==
    LET found(i) == matchSegments(Routes[i].path, path)
        stops == {i \in DOMAIN Routes : \/ found(i) = "URIError"
                                        \/ found(i) = "params" /\ Routes[i].method = method}
    IN CASE stops = {} -> [status |-> IF \E i \in DOMAIN Routes : found(i) = "params" THEN 405 ELSE 404]
         [] stops # {} /\ found(Min(stops)) = "URIError" -> [status |-> 500]
         [] OTHER -> [index |-> Min(stops)]

-----------------------------------------------------------------------------
(* Adapters.  The body a client sent is nothing, text, or JSON: broken, an   *)
(* object, an array, a scalar or null.                                       *)

isKnownMethod(m) == m \in {"GET", "POST", "PATCH", "DELETE"}

Json == {"broken", "object", "array", "scalar", "null"}

readBody(w) == IF w.method \in {"GET", "DELETE"} \/ w.body \notin Json \ {"broken"}
               THEN "undefined" ELSE w.body
\* What express.json() has parsed, objects and arrays, comes first.
readJsonBody(s, w) == IF s = "expressJson" /\ w.body \in {"object", "array"} THEN w.body ELSE readBody(w)
\* A catch that answers with an empty object.
readHonoBody_EmptyOnError(w) ==
    IF w.method \in {"GET", "DELETE"} \/ w.body \notin Json THEN "undefined"
    ELSE IF w.body = "broken" THEN "object" ELSE w.body
readHonoBody(w) ==
    CASE w.method \in {"GET", "DELETE"} -> "undefined"
      [] w.method \notin {"GET", "DELETE"} /\ w.body \notin Json -> "undefined"
      [] OTHER -> IF w.body = "broken" THEN "undefined" ELSE w.body
\* Fastify parses before the handler runs, DELETE included; text reaches it as
\* a string.
bodyOrUndefined(w) ==
    CASE w.method = "GET" \/ w.body \in {"none", "null"} -> "undefined"
      [] w.method # "GET" /\ w.body = "text" -> "string"
      [] OTHER -> w.body

bodyOf(s, w) == CASE s = "node" -> readBody(w)
                  [] s \in {"express", "expressJson"} -> readJsonBody(s, w)
                  [] s = "fastify" -> bodyOrUndefined(w)
                  [] s = "hono" -> readHonoBody(w)

requireJsonObject(b) == b = "object"

\* The key of the rate limiter.
remoteAddrFrom(w) == IF w.forwarded # None THEN w.forwarded ELSE w.peer
clientIpFromHeaders(w) == IF w.forwarded # None THEN w.forwarded ELSE "unknown"
ip(w) == w.peer
remoteAddr(w) == CASE server = "node" -> remoteAddrFrom(w)
                   [] server = "hono" -> clientIpFromHeaders(w)
                   [] OTHER -> ip(w)
Keys == Peers \cup {"unknown"}

-----------------------------------------------------------------------------
\* `routePublic`: the request came with x-licensing-route-public set to 1.
Wire == [method : {"GET", "POST", "PATCH", "DELETE", "PUT"}, path : Paths, forwarded : Peers \cup {None},
         routePublic : BOOLEAN,
         authorization : {"absent", "basic", "blank", "secret", "wrong"},
         peer : Peers, body : Json \cup {"none", "text"}]

Steady == [method |-> "POST", path |-> <<"activate">>, forwarded |-> None, routePublic |-> FALSE,
           authorization |-> "absent", peer |-> CHOOSE q \in Peers : TRUE, body |-> "object"]

NoCall == [at |-> "idle", wire |-> Steady, route |-> 0, subject |-> None, authSubject |-> None, start |-> 0,
           seen |-> NoBucket, status |-> 0, retryAfter |-> 0, ran |-> FALSE, actorId |-> None, passed |-> {}]

answer(c, status)   == [call EXCEPT ![c].at = "answered", ![c].status = status]
goto(c, at)         == [call EXCEPT ![c].at = at]
turnedAway(w, status) == [NoCall EXCEPT !.at = "answered", !.wire = w, !.status = status]
routed(w, index)    == [NoCall EXCEPT !.at = "auth", !.wire = w, !.route = index]
limiterState == <<bucket, admitted, overlapped, promise>>

\* One request suffices where nothing is shared.
budget == IF pipe = "limits" THEN MaxRequests ELSE 1

\* What the clients send: one request, with any body or with any headers, or
\* ordinary ones.
Wires == CASE pipe = "routes" ->
                  {w \in Wire : /\ w.peer = Steady.peer /\ (w.forwarded = None \/ ~w.routePublic)
                                /\ \/ w.body = Steady.body
                                   \/ w.forwarded = None /\ ~w.routePublic /\ w.authorization = "secret"}
           [] pipe = "limits" -> {[Steady EXCEPT !.peer = q] : q \in Peers}
           [] pipe = "guard"  -> {Steady}

\* Fastify and express.json() answer a body they cannot parse before any
\* handler runs; express.json() takes objects and arrays only.
frameworkRefuses(s, w) ==
    \/ s = "fastify" /\ w.body = "broken" /\ w.method # "GET"
    \/ s = "expressJson" /\ w.body \in {"broken", "scalar", "null"}

\* The adapter builds the HandlerRequest and the router picks the route;
\* a URIError is caught by the adapter or the framework: 500.
Receive(c) ==
    /\ pipe \in {"routes", "limits"} /\ call[c].at = "idle" /\ received < budget
    /\ \E w \in Wires :
         LET d == dispatch(w.method, w.path) IN
         /\ received' = received + 1
         /\ call' = [call EXCEPT ![c] =
                        IF frameworkRefuses(server, w) THEN turnedAway(w, 400)
                        ELSE IF ~isKnownMethod(w.method) THEN turnedAway(w, 405)
                        ELSE IF "status" \in DOMAIN d THEN turnedAway(w, d.status)
                        ELSE routed(w, d.index)]
    /\ UNCHANGED <<pipe, server, time>> /\ UNCHANGED limiterState

-----------------------------------------------------------------------------
(* Bearer authentication; the verifier is awaited and may throw.             *)

\* The router sets the header on the requests of public routes; the adapters
\* pass on the one a request came with.
flagged(c) == Routes[call[c].route].public \/ call[c].wire.routePublic

parseBearer(w) == IF w.authorization \in {"secret", "wrong"} THEN w.authorization ELSE None

sharedSecretVerifier(token) == IF token = "secret" THEN "shared-secret" ELSE None

\* The limiter in front of authentication.
bearerAuth_LimitsFirst(c) ==
    /\ call[c].at = "auth"
    /\ call' = goto(c, "limit")
    /\ UNCHANGED <<pipe, server, time, received>> /\ UNCHANGED limiterState

bearerAuth(c) ==
    /\ call[c].at = "auth"
    /\ call' = CASE flagged(c) -> goto(c, "limit")
                 [] ~flagged(c) /\ parseBearer(call[c].wire) = None -> answer(c, 401)
                 [] OTHER -> goto(c, "verify")
    /\ UNCHANGED <<pipe, server, time, received>> /\ UNCHANGED limiterState

\* A verifier that throws taken for one that has no opinion.
verify_ThrowsPass(c) ==
    /\ call[c].at = "verify"
    /\ \E identity \in {sharedSecretVerifier(parseBearer(call[c].wire)), "throws"} :
         call' = IF identity = None THEN answer(c, 401)
                 ELSE [call EXCEPT ![c].at = "limit"]
    /\ UNCHANGED <<pipe, server, time, received>> /\ UNCHANGED limiterState

verify(c) ==
    /\ call[c].at = "verify"
    /\ \E identity \in {sharedSecretVerifier(parseBearer(call[c].wire)), "throws"} :
         call' = IF identity \in {None, "throws"} THEN answer(c, 401)
                 ELSE [call EXCEPT ![c].at = "limit", ![c].authSubject = identity]
    /\ UNCHANGED <<pipe, server, time, received>> /\ UNCHANGED limiterState

-----------------------------------------------------------------------------
(* The rate limiter.  Credit is counted in 1/One of a token.                 *)

One == Second * RefillDen

\* Rounded down, as integer division would.
retryAfter_Floor(credit) == Max({1, (One - credit) \div (Second * RefillNum)})

refill(prev, nowMs) ==
    Min({Burst * One, prev.tokens + Max({0, nowMs - prev.lastRefillMs}) * RefillNum})
retryAfter(credit) == Max({1, (One - credit + Second * RefillNum - 1) \div (Second * RefillNum)})

keyOf(c) == remoteAddr(call[c].wire)

skipPublic(c) ==
    /\ call[c].at = "limit" /\ server \in Skipping /\ flagged(c)
    /\ call' = goto(c, "handler")
    /\ UNCHANGED <<pipe, server, time, received>> /\ UNCHANGED limiterState

\* nowMs is taken before the store is asked.
rateLimit(c) ==
    /\ call[c].at = "limit" /\ ~(server \in Skipping /\ flagged(c))
    /\ call' = [call EXCEPT ![c].at = "get", ![c].start = time]
    /\ overlapped' = IF \E d \in Callers : call[d].at \in {"get", "set"} /\ keyOf(d) = keyOf(c)
                     THEN overlapped \cup {keyOf(c)} ELSE overlapped
    /\ UNCHANGED <<pipe, server, time, received, bucket, admitted, promise>>

storeGet(c) ==
    /\ call[c].at = "get"
    /\ call' = [call EXCEPT ![c].at = "set", ![c].seen =
                  IF bucket[keyOf(c)] = NoBucket
                  THEN [tokens |-> Burst * One, lastRefillMs |-> call[c].start]
                  ELSE bucket[keyOf(c)]]
    /\ UNCHANGED <<pipe, server, time, received>> /\ UNCHANGED limiterState

refilled(c) == refill(call[c].seen, call[c].start)

Refuse(c) ==
    /\ call[c].at = "set" /\ refilled(c) < One
    /\ bucket' = [bucket EXCEPT ![keyOf(c)] = [tokens |-> refilled(c), lastRefillMs |-> call[c].start]]
    /\ promise' = [promise EXCEPT ![keyOf(c)] = call[c].start + Second * retryAfter(refilled(c))]
    /\ call' = [call EXCEPT ![c].at = "answered", ![c].status = 429,
                            ![c].retryAfter = retryAfter(refilled(c))]
    /\ UNCHANGED <<pipe, server, time, received, admitted, overlapped>>

\* The instant of the last refill is not moved.
Admit_KeepsLastRefill(c) ==
    /\ call[c].at = "set" /\ refilled(c) >= One
    /\ bucket' = [bucket EXCEPT ![keyOf(c)] =
                     [tokens |-> refilled(c) - One, lastRefillMs |-> call[c].seen.lastRefillMs]]
    /\ admitted' = [admitted EXCEPT ![keyOf(c)] = Append(@, call[c].start)]
    /\ promise' = [promise EXCEPT ![keyOf(c)] = -1]
    /\ call' = goto(c, "handler")
    /\ UNCHANGED <<pipe, server, time, received, overlapped>>

Admit(c) ==
    /\ call[c].at = "set" /\ refilled(c) >= One
    /\ bucket' = [bucket EXCEPT ![keyOf(c)] =
                     [tokens |-> refilled(c) - One, lastRefillMs |-> call[c].start]]
    /\ admitted' = [admitted EXCEPT ![keyOf(c)] = Append(@, call[c].start)]
    /\ promise' = [promise EXCEPT ![keyOf(c)] = -1]
    /\ call' = goto(c, "handler")
    /\ UNCHANGED <<pipe, server, time, received, overlapped>>

-----------------------------------------------------------------------------
(* The handler and the last resort.                                          *)

\* Whom the audit row of an admin request names: HandlerRequest.subject, which
\* no adapter sets; bearerAuth leaves the identity in a header.
adminActor(c) == call[c].subject

\* A handler that needs a body validates it first; it may answer, refuse or
\* throw something that is not a LicensingError.
handler(c) ==
    /\ call[c].at = "handler"
    /\ \/ /\ Routes[call[c].route].body
          /\ ~requireJsonObject(bodyOf(server, call[c].wire))
          /\ call' = [answer(c, 400) EXCEPT ![c].ran = TRUE]
       \/ /\ Routes[call[c].route].body => requireJsonObject(bodyOf(server, call[c].wire))
          /\ \E s \in {200, 409} :
                call' = [answer(c, s) EXCEPT ![c].ran = TRUE, ![c].actorId = adminActor(c)]
       \/ call' = [goto(c, "thrown") EXCEPT ![c].ran = TRUE]
    /\ UNCHANGED <<pipe, server, time, received>> /\ UNCHANGED limiterState

\* An Express adapter whose catch forgets next(e).
lastResort_Swallows(c) ==
    /\ call[c].at = "thrown" /\ server # "express"
    /\ call' = answer(c, 500)
    /\ UNCHANGED <<pipe, server, time, received>> /\ UNCHANGED limiterState

\* toNodeListener answers itself, toExpressHandler hands the error to next(),
\* the other two let the framework reject: the client sees a 500.
lastResort(c) ==
    /\ call[c].at = "thrown"
    /\ call' = answer(c, 500)
    /\ UNCHANGED <<pipe, server, time, received>> /\ UNCHANGED limiterState

-----------------------------------------------------------------------------
(* The license guard in front of an application's routes (runGuard).         *)

Codes == {"NoToken", "TokenExpired", "LicenseRevoked", "IssuerUnreachable", "Unmapped"}
STATUS_BY_CODE(code) == CASE code \in {"NoToken", "TokenExpired"} -> 401
                          [] code = "LicenseRevoked" -> 403
                          [] code = "IssuerUnreachable" -> 503
                          [] OTHER -> 500

\* The extractor returns a value, returns none or throws.
licenseGuard(c) ==
    /\ pipe = "guard" /\ call[c].at = "idle" /\ received < budget
    /\ received' = received + 1
    /\ \/ call' = [call EXCEPT ![c] = [NoCall EXCEPT !.at = "answered", !.status = 400]]
       \/ call' = [call EXCEPT ![c] = [NoCall EXCEPT !.at = "guard", !.passed = {"fingerprint"}]]
    /\ UNCHANGED <<pipe, server, time>> /\ UNCHANGED limiterState

clientGuard(c) ==
    /\ call[c].at = "guard"
    /\ \/ \E code \in Codes : call' = answer(c, STATUS_BY_CODE(code))
       \/ call' = [call EXCEPT ![c].at = "onSuccess", ![c].passed = @ \cup {"license"}]
    /\ UNCHANGED <<pipe, server, time, received>> /\ UNCHANGED limiterState

\* The handle is attached, and the route runs, only after the hook.
onSuccess(c) ==
    /\ call[c].at = "onSuccess"
    /\ \/ call' = answer(c, 500)
       \/ call' = [call EXCEPT ![c].at = "route", ![c].passed = @ \cup {"hook"}]
    /\ UNCHANGED <<pipe, server, time, received>> /\ UNCHANGED limiterState

guarded(c) ==
    /\ call[c].at = "route"
    /\ call' = [answer(c, 200) EXCEPT ![c].ran = TRUE]
    /\ UNCHANGED <<pipe, server, time, received>> /\ UNCHANGED limiterState

Done(c) ==
    /\ call[c].at = "answered"
    /\ call' = [call EXCEPT ![c] = NoCall]
    /\ UNCHANGED <<pipe, server, time, received>> /\ UNCHANGED limiterState

TickTime ==
    /\ pipe = "limits" /\ time < MaxTime
    /\ time' = time + 1
    /\ UNCHANGED <<pipe, server, call, received>> /\ UNCHANGED limiterState

-----------------------------------------------------------------------------
PipeInit ==
    /\ pipe \in Pipes
    /\ server \in CASE pipe = "routes" -> Adapters
                   [] pipe = "limits" -> Limited
                   [] pipe = "guard"  -> {"node"}
    /\ time = 0
    /\ call = [c \in Callers |-> NoCall]
    /\ bucket = [k \in Keys |-> NoBucket]
    /\ admitted = [k \in Keys |-> <<>>]
    /\ overlapped = {}
    /\ promise = [k \in Keys |-> -1]
    /\ received = 0

Serve(c) == \/ bearerAuth(c) \/ verify(c) \/ skipPublic(c) \/ rateLimit(c) \/ storeGet(c) \/ Refuse(c) \/ Admit(c)
            \/ handler(c) \/ lastResort(c) \/ clientGuard(c) \/ onSuccess(c) \/ guarded(c)

PipeNext == \/ \E c \in Callers : Receive(c) \/ licenseGuard(c) \/ Serve(c) \/ Done(c)
            \/ TickTime

\* A server keeps working on what it has accepted.
PipeFairness == \A c \in Callers : WF_pipeVars(Serve(c))

PipeSpec == PipeInit /\ [][PipeNext]_pipeVars /\ PipeFairness

-----------------------------------------------------------------------------
(* Properties.                                                               *)

Credit == 0 .. Burst * One

\* Requests stay inside the stages of the pipeline, a bucket never holds less
\* than nothing or more than the burst (rate-limit.ts: Math.min and Math.max).
PipeTypeOK ==
    /\ \A c \in Callers :
         /\ call[c].at \in {"idle", "auth", "verify", "limit", "get", "set", "handler", "thrown",
                            "guard", "onSuccess", "route", "answered"}
         /\ call[c].status \in {0, 200, 400, 401, 403, 404, 405, 409, 429, 500, 503}
         /\ call[c].at = "answered" <=> call[c].status # 0
    /\ \A k \in Keys : bucket[k] = NoBucket \/ bucket[k].tokens \in Credit

\* A handler runs only behind its checks: an application route after
\* fingerprint, license and hook, any other after the verifier named a subject
\* unless the request carries the public header, the router's or its own; an
\* answer the pipeline gives by itself means that no handler ran.
HandlerBehindChecks ==
    \A c \in Callers :
        /\ call[c].ran => \/ pipe = "guard" /\ call[c].passed = {"fingerprint", "license", "hook"}
                          \/ call[c].route # 0 /\ flagged(c)
                          \/ call[c].authSubject = "shared-secret" /\ call[c].wire.authorization = "secret"
        /\ call[c].status \in {401, 404, 405, 429} /\ pipe # "guard" => ~call[c].ran

\* Authentication stands before the limiter: a request that is refused for its
\* credentials costs its address nothing, and neither does one that carries
\* the public header where skipPublic is set.
RefusedCallersSpendNothing ==
    [][\A k \in Keys : bucket'[k] # bucket[k] =>
         \E c \in Callers : /\ call[c].at = "set" /\ keyOf(c) = k
                            /\ \/ server \notin Skipping /\ flagged(c)
                               \/ ~flagged(c) /\ call[c].authSubject # None]_pipeVars

\* Retry-After is honest: a caller that waits as long as the last 429 told it
\* is let in, if nobody with its address was let in meanwhile and no two
\* requests of the address were in the limiter at once.
RetryAfterHonest ==
    [][\A c \in Callers : Refuse(c) => \/ keyOf(c) \in overlapped
                                       \/ promise[keyOf(c)] = -1
                                       \/ call[c].start < promise[keyOf(c)]]_pipeVars

\* The limiter lets at most the burst and the refill of the window through,
\* whatever window is looked at, while the requests of an address follow one
\* another.
withinBurst(k) ==
    \A i, j \in DOMAIN admitted[k] : i <= j =>
        (j - i + 1) * One <= Burst * One + (admitted[k][j] - admitted[k][i]) * RefillNum
SerialBurstRespected == \A k \in Keys \ overlapped : withinBurst(k)

\* A request for a handler that reads its body.
readsBody(w) ==
    LET d == dispatch(w.method, w.path) IN "index" \in DOMAIN d /\ Routes[d.index].body

takesObject(s, w) == ~frameworkRefuses(s, w) /\ requireJsonObject(bodyOf(s, w))

\* Whether a handler that reads its body gets a JSON object does not depend on
\* the framework.
BodiesReadAlike ==
    \A c \in Callers : readsBody(call[c].wire) =>
        \A a, b \in Adapters : takesObject(a, call[c].wire) <=> takesObject(b, call[c].wire)

\* What reaches a handler does not depend on the framework in front of it: the
\* request stands behind its checks and its body is read alike.
PipelineExact == HandlerBehindChecks /\ BodiesReadAlike

\* The limiter's side of the bargain with a caller that waits its turn: no more
\* than the burst, an honest Retry-After, and nothing spent by refused callers.
LimiterHonest == []SerialBurstRespected /\ RetryAfterHonest /\ RefusedCallersSpendNothing

\* Every request that is accepted is answered, also when its handler throws.
EveryRequestAnswered ==
    \A c \in Callers : call[c].at # "idle" ~> call[c].at = "answered"

-----------------------------------------------------------------------------
(* What comments of the code say and the code does not do.                   *)

\* "Persist the refill state so concurrent requests see the same view": the
\* bound of the limiter holds for overlapping requests too.
BurstRespected == \A k \in Keys : withinBurst(k)

\* "Unknown routes -> 404; known path + wrong method -> 405."
UnknownRoutesNotFound ==
    \A c \in Callers : call[c].status = 500 => call[c].ran

\* "Admin handlers record it as actor_id": an authenticated request is
\* attributed to its subject.
ActorAttributed ==
    \A c \in Callers : call[c].ran /\ call[c].status = 200 /\ call[c].authSubject # None
                           => call[c].actorId = call[c].authSubject

\* "Route's `public` flag tells middleware to short-circuit": the verifier is
\* left out for public routes only.
VerifierSkippedOnPublicRoutes ==
    \A c \in Callers : call[c].ran /\ pipe # "guard" /\ call[c].authSubject = None
                           => Routes[call[c].route].public

\* "Opaque client address the rate limiter keys off of": clients connected
\* directly from different addresses have buckets of their own.
DirectPeersApart ==
    \A c, d \in Callers :
        call[c].at = "set" /\ call[d].at = "set" /\ call[c].wire.forwarded = call[d].wire.forwarded
            => (keyOf(c) = keyOf(d) <=> call[c].wire.peer = call[d].wire.peer)
=============================================================================
