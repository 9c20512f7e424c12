----------------------------- MODULE HttpServer -----------------------------
(***************************************************************************)
(* The HTTP side of a compass process that listens: the chains of handlers *)
(* that NewGinServer (cmd/compass/server/server.go) builds for its routes, *)
(* and requests that go through them side by side.  A middleware calls     *)
(* c.Next, so its code after that call runs when all behind it is done; an *)
(* abort keeps what is behind it from running; a panic unwinds the chain   *)
(* to gin.Recovery.  The JWT middleware (internal/middleware/jwtauth.go)   *)
(* is several steps: tokens expire, the provider rotates its keys, and the *)
(* requests share the verifier's cached keys.                              *)
(***************************************************************************)
EXTENDS JwtAuth, Naturals

CONSTANTS
  Settings,     \* the settings a process may be started with
  Requests,     \* requests being served
  Kinds,        \* what a request may be, see below
  Keys,         \* signing keys of the provider
  FirstKeys,    \* those it publishes at first
  MaxRotations, \* the bound on key rotations
  None          \* no request, no claims

(***************************************************************************)
(* A request has a target: oci for a GET or HEAD under /v2/, enrich for    *)
(* POST /v1/enrich, slash for a path that is one of these but for its last *)
(* slash, other for anything else; a header, whose second part is a token; *)
(* and, for enrich, a body that the OpenAPI document allows or not.        *)
(***************************************************************************)
VARIABLES
  settings,    \* what the process was started with
  published,   \* the keys that the provider publishes
  cached,      \* the keys that the verifier holds
  rotations,   \* the number of rotations
  expired,     \* the tokens that have expired
  request,     \* request[r]: the kind of request that it is, or None
  todo,        \* todo[r]: the handlers of its chain that have yet to run
  entered,     \* entered[r]: the middlewares that wait in their c.Next
  check,       \* check[r]: where the JWT middleware is with it
  claims,      \* claims[r]: the context's jwt_claims: its token, or None
  ran,         \* ran[r]: has a handler behind the middlewares run?
  status,      \* status[r]: the status of the response writer
  bodies,      \* bodies[r]: the number of bodies written
  log          \* log[r]: the statuses of its lines in the access log

providerVars == <<published, cached, rotations, expired>>
requestVars == <<request, todo, entered, check, claims, ran, status, bodies, log>>
vars == <<settings, providerVars, requestVars>>

\* The tokens that requests bring.
Tokens == {k.header[2] : k \in {k \in Kinds : Len(k.header) = 2}}

ASSUME NoneAssumption == None \notin Kinds \cup Tokens

ASSUME KeysAssumption == FirstKeys \subseteq Keys /\ MaxRotations \in Nat

Auth == NewJWTAuth(settings)

-----------------------------------------------------------------------------
(***************************************************************************)
(* NewGinServer.  gin gives a route the handlers in use when the route is  *)
(* registered, and a group those in use when the group is made.            *)
(***************************************************************************)
Wrappers == {"recovery", "requestid", "accesslog"}

\* Mutant: the access log comes behind authentication.
EngineHandlers_LogLast ==
  <<"recovery", "requestid">> \o (IF settings.enabled THEN <<"jwt">> ELSE <<>>) \o <<"accesslog">>

\* What r.Use has put before every route, and before the answer 404.
EngineHandlers ==
  <<"recovery", "requestid", "accesslog">> \o (IF settings.enabled THEN <<"jwt">> ELSE <<>>)

\* Mutant: the OCI routes are registered before JWT is in use.
OciChain_Early == <<"recovery", "requestid", "accesslog", "dispatch">>

OciChain == EngineHandlers \o <<"dispatch">>
EnrichChain == EngineHandlers \o <<"validator", "PostV1Enrich">>

Routed(k) == k.target = "enrich" \/ (k.target = "oci" /\ settings.storage)

Chain(k) ==
  IF ~Routed(k) THEN EngineHandlers
  ELSE IF k.target = "oci" THEN OciChain ELSE EnrichChain

Init ==
  /\ settings \in Settings
  /\ published = FirstKeys
  /\ cached = {}
  /\ rotations = 0
  /\ expired = {}
  /\ request = [r \in Requests |-> None]
  /\ todo = [r \in Requests |-> <<>>]
  /\ entered = [r \in Requests |-> <<>>]
  /\ check = [r \in Requests |-> "header"]
  /\ claims = [r \in Requests |-> None]
  /\ ran = [r \in Requests |-> FALSE]
  /\ status = [r \in Requests |-> 200]
  /\ bodies = [r \in Requests |-> 0]
  /\ log = [r \in Requests |-> <<>>]

-----------------------------------------------------------------------------
(***************************************************************************)
(* The world outside, as far as authentication looks at it.                *)
(***************************************************************************)
Token(r) == request[r].header[2]

\* A token expires that a request has brought; another may bring it again.
Expire ==
  /\ settings.enabled
  /\ \E r \in Requests :
       /\ request[r] # None /\ HasBearer(request[r].header)
       /\ Token(r).wellFormed /\ Token(r) \notin expired
       /\ expired' = expired \cup {Token(r)}
  /\ UNCHANGED <<settings, published, cached, rotations, requestVars>>

Rotate ==
  /\ settings.enabled /\ rotations < MaxRotations
  /\ rotations' = rotations + 1
  /\ published' \in SUBSET Keys \ {{}}
  /\ UNCHANGED <<settings, cached, expired, requestVars>>

-----------------------------------------------------------------------------
(***************************************************************************)
(* gin serves a request.                                                   *)
(***************************************************************************)
Write(r, code) ==
  /\ status' = [status EXCEPT ![r] = IF bodies[r] = 0 THEN code ELSE @]
  /\ bodies' = [bodies EXCEPT ![r] = @ + 1]

\* A request comes in.  A missing or additional last slash is answered with
\* a redirection at once; without a route the status is 404 from the start.
Arrive(r) ==
  /\ request[r] = None
  /\ \E k \in Kinds :
       /\ request' = [request EXCEPT ![r] = k]
       /\ \/ k.target = "slash" /\ Write(r, 307) /\ UNCHANGED todo
          \/ /\ k.target # "slash"
             /\ todo' = [todo EXCEPT ![r] = Chain(k)]
             /\ status' = [status EXCEPT ![r] = IF Routed(k) THEN 200 ELSE 404]
             /\ UNCHANGED bodies
  /\ UNCHANGED <<settings, providerVars, entered, check, claims, ran, log>>

At(r, h) == todo[r] # <<>> /\ Head(todo[r]) = h
Pass(r) == todo' = [todo EXCEPT ![r] = Tail(@)]
Abort(r) == todo' = [todo EXCEPT ![r] = <<>>]

\* The first n of some handlers are all that come before one with no c.Next.
Leading(n, handlers) ==
  /\ \A k \in 1 .. n : handlers[k] \in Wrappers
  /\ n < Len(handlers) => handlers[n + 1] \notin Wrappers

\* The middlewares that come next, each up to its c.Next.
Enter(r) ==
  /\ \E n \in 1 .. Len(todo[r]) :
       /\ Leading(n, todo[r])
       /\ entered' = [entered EXCEPT ![r] = @ \o SubSeq(todo[r], 1, n)]
       /\ todo' = [todo EXCEPT ![r] = SubSeq(@, n + 1, Len(@))]
  /\ UNCHANGED <<settings, providerVars, request, check, claims, ran, status, bodies, log>>

\* All behind them is done: the middlewares return from c.Next, and
\* AccessLogger writes its line.
Leave(r) ==
  /\ todo[r] = <<>> /\ entered[r] # <<>>
  /\ log' = [log EXCEPT ![r] =
               IF \E k \in 1 .. Len(entered[r]) : entered[r][k] = "accesslog"
               THEN Append(@, status[r]) ELSE @]
  /\ entered' = [entered EXCEPT ![r] = <<>>]
  /\ UNCHANGED <<settings, providerVars, request, todo, check, claims, ran, status, bodies>>

\* The chain is through; without a route gin writes the body of its 404.
Finish(r) ==
  /\ request[r] # None /\ todo[r] = <<>> /\ entered[r] = <<>> /\ bodies[r] = 0
  /\ Write(r, status[r])
  /\ UNCHANGED <<settings, providerVars, request, todo, entered, check, claims, ran, log>>

Finished(r) == todo[r] = <<>> /\ entered[r] = <<>> /\ bodies[r] > 0

-----------------------------------------------------------------------------
(***************************************************************************)
(* The JWT middleware.                                                     *)
(***************************************************************************)
\* Mutant: c.JSON and return, without an abort.
Refuse_GoesOn(r) == Write(r, 401) /\ Pass(r)

\* AbortWithStatusJSON, and return.
Refuse(r) == Write(r, 401) /\ Abort(r)

GoOn(r, to) ==
  /\ check' = [check EXCEPT ![r] = to]
  /\ UNCHANGED <<todo, status, bodies>>

ReadHeader(r) ==
  /\ At(r, "jwt") /\ check[r] = "header"
  /\ IF HasBearer(request[r].header) THEN GoOn(r, "verify")
                                     ELSE Refuse(r) /\ UNCHANGED check
  /\ UNCHANGED <<settings, providerVars, request, entered, claims, ran, log>>

\* Verify, as far as the cached keys go.
Verify(r) ==
  /\ At(r, "jwt") /\ check[r] = "verify"
  /\ IF ~VerifyClaims(Auth, Token(r), expired) THEN Refuse(r) /\ UNCHANGED check
     ELSE GoOn(r, IF Token(r).key \in cached THEN "subject" ELSE "keys")
  /\ UNCHANGED <<settings, providerVars, request, entered, claims, ran, log>>

\* Mutant: after a failure the token is verified again.
FetchKeys_Retries(r) ==
  /\ At(r, "jwt") /\ check[r] = "keys"
  /\ \/ GoOn(r, "verify") /\ UNCHANGED cached
     \/ /\ cached' = published
        /\ IF Token(r).key \in published THEN GoOn(r, "subject")
                                         ELSE Refuse(r) /\ UNCHANGED check
  /\ UNCHANGED <<settings, published, rotations, expired, request, entered, claims, ran, log>>

\* No cached key fits: Verify asks the provider for its keys, in vain or not.
FetchKeys(r) ==
  /\ At(r, "jwt") /\ check[r] = "keys"
  /\ \/ Refuse(r) /\ UNCHANGED <<check, cached>>
     \/ /\ cached' = published
        /\ IF Token(r).key \in published THEN GoOn(r, "subject")
                                         ELSE Refuse(r) /\ UNCHANGED check
  /\ UNCHANGED <<settings, published, rotations, expired, request, entered, claims, ran, log>>

\* Mutant: the subject is only looked at when the token has one.
CheckSubject_IfAny(r) ==
  /\ At(r, "jwt") /\ check[r] = "subject"
  /\ IF SubjectAllowed(Auth, Token(r)) \/ Token(r).sub = NoSubject
       THEN /\ claims' = [claims EXCEPT ![r] = Token(r)]
            /\ Pass(r)
            /\ UNCHANGED <<status, bodies>>
       ELSE Refuse(r) /\ UNCHANGED claims
  /\ UNCHANGED <<settings, providerVars, request, entered, check, ran, log>>

\* The subject, then c.Set and c.Next.
CheckSubject(r) ==
  /\ At(r, "jwt") /\ check[r] = "subject"
  /\ IF SubjectAllowed(Auth, Token(r))
       THEN /\ claims' = [claims EXCEPT ![r] = Token(r)]
            /\ Pass(r)
            /\ UNCHANGED <<status, bodies>>
       ELSE Refuse(r) /\ UNCHANGED claims
  /\ UNCHANGED <<settings, providerVars, request, entered, check, ran, log>>

-----------------------------------------------------------------------------
(***************************************************************************)
(* The handlers behind the middlewares.  What they answer is the subject   *)
(* of OciRegistry and Enrichment; here it is one of the statuses.          *)
(***************************************************************************)
Runs(r) == ran' = [ran EXCEPT ![r] = TRUE]

OapiRequestValidator(r) ==
  /\ At(r, "validator")
  /\ Runs(r)
  /\ IF request[r].valid THEN Pass(r) /\ UNCHANGED <<status, bodies>>
                         ELSE Write(r, 400) /\ Abort(r)
  /\ UNCHANGED <<settings, providerVars, request, entered, check, claims, log>>

dispatch(r) ==
  /\ At(r, "dispatch")
  /\ Runs(r)
  /\ \E code \in {200, 404} : Write(r, code)
  /\ Pass(r)
  /\ UNCHANGED <<settings, providerVars, request, entered, check, claims, log>>

PostV1Enrich(r) ==
  /\ At(r, "PostV1Enrich")
  /\ Runs(r)
  /\ \E code \in {200, 400} : Write(r, code)
  /\ Pass(r)
  /\ UNCHANGED <<settings, providerVars, request, entered, check, claims, log>>

\* The middlewares that a panic leaves waiting: gin.Recovery and those before.
UpToRecovery(wrappers) ==
  LET at == CHOOSE k \in 1 .. Len(wrappers) : wrappers[k] = "recovery"
  IN SubSeq(wrappers, 1, at)

\* A handler panics; gin.Recovery answers.
Panic(r) ==
  /\ At(r, "dispatch") \/ At(r, "PostV1Enrich")
  /\ Runs(r)
  /\ Write(r, 500) /\ Abort(r)
  /\ entered' = [entered EXCEPT ![r] = UpToRecovery(@)]
  /\ UNCHANGED <<settings, providerVars, request, check, claims, log>>

-----------------------------------------------------------------------------
\* What the process does by itself.
Step(r) ==
  \/ Enter(r) \/ Leave(r) \/ Finish(r)
  \/ ReadHeader(r) \/ Verify(r) \/ CheckSubject(r)
  \/ OapiRequestValidator(r) \/ dispatch(r) \/ PostV1Enrich(r) \/ Panic(r)

Next == Expire \/ Rotate \/ \E r \in Requests : Arrive(r) \/ Step(r) \/ FetchKeys(r)

Spec == Init /\ [][Next]_vars

(***************************************************************************)
(* The process runs its requests on.  The provider may never answer: the   *)
(* request's context has no deadline, nor has http.Server one for it.      *)
(***************************************************************************)
FairSpec == Spec /\ \A r \in Requests : WF_vars(Step(r))

-----------------------------------------------------------------------------
(***************************************************************************)
(* Properties.                                                             *)
(***************************************************************************)
\* TypeOKServer: every variable has its type; in particular no request gets more
\* than one body (cmd/compass/server/server.go 33-73).
TypeOKServer ==
  /\ published \subseteq Keys
  /\ cached \subseteq Keys
  /\ rotations \in 0..MaxRotations
  /\ expired \subseteq Tokens
  /\ request \in [Requests -> Kinds \cup {None}]
  /\ \A r \in Requests : todo[r] # <<>> =>
       \E n \in 0 .. 5 : todo[r] = SubSeq(Chain(request[r]), n + 1, Len(Chain(request[r])))
  /\ \A r \in Requests : \A k \in 1..Len(entered[r]) : entered[r][k] \in Wrappers
  /\ check \in [Requests -> {"header", "verify", "keys", "subject"}]
  /\ claims \in [Requests -> Tokens \cup {None}]
  /\ ran \in [Requests -> BOOLEAN]
  /\ status \in [Requests -> {200, 307, 400, 401, 404, 500}]
  /\ bodies \in [Requests -> {0, 1}]

(***************************************************************************)
(* ImplementsGate: with authentication enabled, no handler of any route,   *)
(* nor the OpenAPI validator, runs for a request whose token was not       *)
(* verified, under whichever order of concurrent requests, key rotations   *)
(* and expiries (cmd/compass/server/server.go 38-73,                       *)
(* internal/middleware/jwtauth.go 128-184).  Entitled is a request whose   *)
(* claims are right, or were when Verify looked at them before it waited   *)
(* for the provider, and whose key the provider publishes or published     *)
(* when it was last asked.                                                 *)
(***************************************************************************)
Entitled(r) ==
  \/ ~settings.enabled
  \/ /\ request[r] # None /\ HasBearer(request[r].header)
     /\ VerifyClaims(Auth, Token(r), expired) \/ check[r] = "keys"
     /\ Token(r).key \in cached \cup published
     /\ SubjectAllowed(Auth, Token(r))

Admitted(r) ==
  \/ ~settings.enabled
  \/ claims[r] # None
  \/ check[r] = "subject" /\ SubjectAllowed(Auth, Token(r))

TheGate == INSTANCE Gate WITH
  entitled <- {r \in Requests : Entitled(r)},
  admitted <- {r \in Requests : Admitted(r)},
  refused <- {r \in Requests : status[r] = 401},
  ran <- {r \in Requests : ran[r]}

ImplementsGate == TheGate!Spec

(***************************************************************************)
(* OnlyDocumentedTokens: jwt_claims holds nothing but a token that         *)
(* docs/JWT_AUTHENTICATION.md 42-66 lets in, whichever settings and        *)
(* environment it comes from: the environment's audience before the        *)
(* configuration's, and never an empty one; the issuer, default or given,  *)
(* unless an IP turns DNS bypass on; a listed subject, if any is listed    *)
(* (cmd/compass/server/server.go 39-52, internal/middleware/jwtauth.go     *)
(* 45-118, 146-177).                                                       *)
(***************************************************************************)
OnlyDocumentedTokens ==
  \A r \in Requests : claims[r] # None =>
    LET s == settings
        t == claims[r]
    IN /\ request[r].header[2] = t
       /\ IF s.EXPECTED_AUDIENCE = "" THEN s.expectedAudience \in t.aud \ {""}
                                      ELSE s.EXPECTED_AUDIENCE \in t.aud
       /\ \/ s.kubernetesServiceIp # "" \/ s.KUBERNETES_SERVICE_IP # ""
          \/ t.iss = s.issuerUrl
          \/ s.issuerUrl = "" /\ t.iss = "https://kubernetes.default.svc"
       /\ s.allowedSubjects = {} \/ t.sub \in s.allowedSubjects

(***************************************************************************)
(* LogTellsAnswer: the access log has one line for each request that is    *)
(* through, with the status that the client got, also for a request that   *)
(* authentication refused or that has no route.  It has none where gin     *)
(* redirects, before any middleware, and where a handler panicked, since   *)
(* AccessLogger does not defer its line (internal/middleware/accesslog.go  *)
(* 12-35, cmd/compass/server/server.go 34-35).                             *)
(***************************************************************************)
LogTellsAnswer ==
  \A r \in Requests :
    /\ log[r] \in {<<>>, <<status[r]>>}
    /\ Finished(r) /\ log[r] = <<>> => status[r] \in {307, 500}

(***************************************************************************)
(* RequestsEnd: every request is answered, except one that waits for the   *)
(* provider's keys for ever (internal/middleware/jwtauth.go 147-156).      *)
(***************************************************************************)
RequestsEnd ==
  \A r \in Requests :
    request[r] # None ~> (Finished(r) \/ [](At(r, "jwt") /\ check[r] = "keys"))
=============================================================================
