---------------------------- MODULE RequestPath ----------------------------
(***************************************************************************)
(* A request from the drivers to its answer: GrpcDriver and ApolloDriver     *)
(* wire the interceptors as they start, every interceptor looks at a request *)
(* before the router's handler runs, withServerSpan() opens and ends a span  *)
(* around the use case, and the caller is answered.  gRPC calls pass one     *)
(* interceptor after another; Apollo runs all their hooks at once.           *)
(***************************************************************************)
EXTENDS AuthentikClient, SecretsClient, Sequences

CONSTANTS
    Requests,
    Chain       \* the interceptors of ServerApp, in their order; "auth" is AuthentikAuthInterceptor

ASSUME ChainAssumption == Chain \in Seq(STRING) /\ \E i \in DOMAIN Chain : Chain[i] = "auth"

VARIABLES
    tracer,   \* otelTracer is registered
    applied,  \* driver -> how many interceptors its start() has applied
    guards,   \* driver -> how many are around its routers; None: it does not listen
    request   \* .left: the interceptors it has still to pass; .accepted: those that let it by

pathVars == <<tracer, applied, guards, request>>
wiring == <<tracer, applied, guards>>
unasked == <<authentik, jar, call, creator, secretsVars>>

Drivers == {"grpc", "graphql"}
Fresh == [via |-> "none", token |-> None, at |-> "idle", left |-> {}, accepted |-> {},
          span |-> "none", answers |-> 0, outcome |-> "none"]

PathInit ==
    /\ tracer \in BOOLEAN /\ request = [r \in Requests |-> Fresh]
    /\ applied = [d \in Drivers |-> 0] /\ guards = [d \in Drivers |-> None]

(* start() of a driver, once the plugins have started: apply() of one         *)
(* interceptor after another.  All of this runs in one stretch, for both      *)
(* drivers, and no request comes in between                                  *)
Apply(d) ==
    /\ login = "done" /\ guards[d] = None /\ applied[d] < Len(Chain)
    /\ applied' = [applied EXCEPT ![d] = @ + 1]
    /\ UNCHANGED <<unasked, faults, tracer, guards, request>>
(* Mutant: register() of a router comes before an apply(). *)
RegisteredEarly(d) ==
    /\ login = "done" /\ guards[d] = None
    /\ guards' = [guards EXCEPT ![d] = applied[d]]
    /\ UNCHANGED <<unasked, faults, tracer, applied, request>>
(* then register() of every router, around which the patched addService puts  *)
(* the interceptors applied so far; and it listens, before or after the other *)
Register(d) ==
    /\ login = "done" /\ guards[d] = None /\ applied[d] = Len(Chain)
    /\ guards' = [guards EXCEPT ![d] = applied[d]]
    /\ UNCHANGED <<unasked, faults, tracer, applied, request>>

Listening == \A d \in Drivers : guards[d] # None
In(r, where) == request[r].at = where
Receive(r, d, t) ==
    /\ In(r, "idle") /\ Listening
    /\ request' = [request EXCEPT ![r].via = d, ![r].token = t, ![r].at = "intercept",
                                 ![r].left = 1 .. guards[d]]
    /\ UNCHANGED <<unasked, faults, wiring>>

-----------------------------------------------------------------------------
(* Interceptors *)

(* whose turn it is: on gRPC the first of the chain that has not run *)
Turn(r) ==
    {k \in request[r].left : request[r].via = "graphql" \/ \A j \in request[r].left : k <= j}

(* Mutant: the catch lets the request pass. *)
FailOpen(t) == t # None
(* jwtVerify(): signature, issuer and expiry, and no question to Authentik *)
Verified(t) == t \in Calls /\ tokens[t].user # None /\ ~tokens[t].expired

(* Mutant: the callback is called, and the wrapper goes on to the handler. *)
AnsweredAndOn(r, outcome) ==
    request' = [request EXCEPT ![r].answers = @ + 1, ![r].outcome = outcome, ![r].left = @ \ Turn(r)]
Rejected(r, outcome) ==
    request' = [request EXCEPT ![r].answers = @ + 1, ![r].outcome = outcome, ![r].at = "ended"]
Accepted(r, k) ==
    request' = [request EXCEPT ![r].left = @ \ {k}, ![r].accepted = @ \cup {k}]

Authenticate(r) ==
    /\ In(r, "intercept")
    /\ \E k \in Turn(r) :
         /\ Chain[k] = "auth"
         /\ \/ /\ IF Verified(request[r].token) THEN Accepted(r, k) ELSE Rejected(r, "UNAUTHENTICATED")
               /\ UNCHANGED faults
            \/ \* the JWKS cannot be fetched
               /\ faults < MaxFaults /\ faults' = faults + 1 /\ Rejected(r, "UNAUTHENTICATED")
    /\ UNCHANGED <<unasked, wiring>>
(* any other interceptor: it returns, throws InterceptorError, or something else *)
Intercept(r) ==
    /\ In(r, "intercept")
    /\ \E k \in Turn(r) :
         /\ Chain[k] # "auth"
         /\ Accepted(r, k) \/ \E o \in {"UNAUTHENTICATED", "INTERNAL"} : Rejected(r, o)
    /\ UNCHANGED <<unasked, faults, wiring>>

-----------------------------------------------------------------------------
(* The router's handler *)

Enter(r) ==
    /\ In(r, "intercept") /\ request[r].left = {}
    /\ request' = [request EXCEPT ![r].at = "handle", ![r].span = IF tracer THEN "open" ELSE "none"]
    /\ UNCHANGED <<unasked, faults, wiring>>

Ended(r, outcome) ==
    IF request[r].span = "none" THEN "none" ELSE IF outcome = "ok" THEN "OK" ELSE "ERROR"
(* the use case settles: the span ends, then the caller is answered *)
Settled(r, outcome) ==
    request' = [request EXCEPT ![r].at = "ended", ![r].outcome = outcome,
                               ![r].span = Ended(r, outcome), ![r].answers = @ + 1]

Execute(r) ==
    /\ In(r, "handle")
    /\ \/ \E o \in {"ok", "error"} : Settled(r, o)
       \/ request' = [request EXCEPT ![r].at = "secrets"]
    /\ UNCHANGED <<unasked, faults, wiring>>
(* the use case has asked for a secret, or stored one; what it does with an   *)
(* absent one is its own affair                                              *)
GetOrPut(r) ==
    /\ In(r, "secrets") /\ Settled(r, Answer)
    /\ UNCHANGED <<unasked, faults, wiring>>
(* the request to OpenBao fails, or its answer is lost *)
NoSecrets(r) ==
    /\ In(r, "secrets") /\ faults < MaxFaults /\ faults' = faults + 1
    /\ Settled(r, "error")
    /\ UNCHANGED <<unasked, wiring>>

PathNext ==
    \/ \E d \in Drivers : Apply(d) \/ Register(d)
    \/ \E r \in Requests : \/ \E d \in Drivers, t \in Handed \cup {Forged, None} : Receive(r, d, t)
                           \/ Authenticate(r) \/ Intercept(r) \/ Enter(r)
                           \/ Execute(r) \/ GetOrPut(r) \/ NoSecrets(r)

-----------------------------------------------------------------------------
Phases == {"idle", "intercept", "handle", "secrets", "ended"}
Spans == {"none", "open", "OK", "ERROR"}
Outcomes == {"none", "ok", "error", "UNAUTHENTICATED", "INTERNAL"}
RequestType ==
    [via : Drivers \cup {"none"}, token : OrNone(Calls \cup {Forged}), at : Phases,
     left : SUBSET DOMAIN Chain, accepted : SUBSET DOMAIN Chain, span : Spans, answers : Nat,
     outcome : Outcomes]

PathTypeOK ==
    /\ tracer \in BOOLEAN /\ applied \in [Drivers -> 0 .. Len(Chain)]
    /\ guards \in [Drivers -> OrNone(0 .. Len(Chain))] /\ request \in [Requests -> RequestType]

(* No handler runs, on either protocol, for a request that an interceptor    *)
(* has refused or has not looked at, in whatever order the drivers are wired *)
(* and Apollo's hooks settle.                                                *)
HandledMeansAccepted ==
    \A r \in Requests :
        In(r, "handle") \/ In(r, "secrets") \/ request[r].outcome \in {"ok", "error"} =>
            request[r].accepted = DOMAIN Chain

(* Every request is answered once: with what its interceptor refused it for, *)
(* or with what its use case returned or threw.  With a tracer, the span of  *)
(* a use case that has settled is ended and tells the same; a refused        *)
(* request has none.                                                         *)
AnsweredOnce ==
    \A r \in Requests :
        /\ request[r].answers = (IF In(r, "ended") THEN 1 ELSE 0)
        /\ In(r, "ended") <=> request[r].outcome # "none"
        /\ In(r, "ended") =>
             request[r].span = IF ~tracer \/ request[r].outcome \notin {"ok", "error"} THEN "none"
                               ELSE IF request[r].outcome = "ok" THEN "OK" ELSE "ERROR"

(* AuthentikAuthInterceptor admits a request only with a token that a user   *)
(* got for the password of the account, before the token expires.  A logout  *)
(* does not reach it: until then it refuses the token for nothing but keys   *)
(* that could not be fetched.                                                *)
VerdictIsLocal(r) ==
    LET t == request[r].token
        good == t \in Handed /\ ~tokens[t].expired
    IN /\ (\E k \in request'[r].accepted \ request[r].accepted : Chain[k] = "auth") =>
            /\ good /\ tokens[t].user = call[t].email
            /\ accounts[call[t].email] = call[t].password
       /\ In(r, "intercept") /\ (\A k \in Turn(r) : Chain[k] = "auth") /\ request'[r].outcome = "UNAUTHENTICATED" =>
            ~good \/ faults' > faults
VerdictsAreLocal == [][\A r \in Requests : VerdictIsLocal(r)]_<<clientVars, pathVars>>
=============================================================================
