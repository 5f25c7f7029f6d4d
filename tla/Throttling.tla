----------------------------- MODULE Throttling -----------------------------
(***************************************************************************)
(* The request throttling gate around every token-endpoint POST.           *)
(*                                                                         *)
(* BaseClient.executePostToTokenEndpoint calls BaseClient.sendPostRequest, *)
(* which runs ThrottlingUtils.preProcess on the request thumbprint, issues *)
(* the network call, and after the awaited response runs                   *)
(* ThrottlingUtils.postProcess.  preProcess and the dispatch of the POST   *)
(* run in one synchronous segment (invokeAsync calls the network module    *)
(* before the first await), so they form one step here; the response is   *)
(* a later step, and the resumption of executePostToTokenEndpoint after    *)
(* the awaited sendPostRequest is a third one.  Several token requests of  *)
(* one client run concurrently (Callers), interleaved at these awaits.     *)
(*                                                                         *)
(* ThrottlingUtils is not part of the excerpt: its preProcess/postProcess  *)
(* are modelled from the specification (section 4.4).                      *)
(***************************************************************************)
EXTENDS Naturals

CONSTANTS
    Callers,             \* concurrent token requests of one client instance
    Thumbprints,         \* RequestThumbprint values (request fingerprints)
    Errors,              \* error/errorCode/subError of a server response
    RetryAfters,         \* Retry-After header values (seconds) the server sends
    DefaultThrottleTime, \* backoff used when a signal carries no Retry-After
    HasTelemetryManager, \* config.serverTelemetryManager is set
    MaxTime,             \* bound on the clock (seconds)
    None                 \* absence (no entry, no header, no pending response)

ASSUME ConstantsAssumption ==
    /\ RetryAfters \subseteq Nat \ {0}
    /\ DefaultThrottleTime \in Nat \ {0}
    /\ HasTelemetryManager \in BOOLEAN
    /\ MaxTime \in Nat
    /\ None \notin Nat \cup Errors \cup Thumbprints

(* Representative HTTP statuses: below 500 and not 429 (200 stands for    *)
(* every such status: no code path tells 2xx from 4xx), 429, and 5xx.      *)
Statuses == {200, 429, 500}

Responses ==
    [status: Statuses, retryAfter: RetryAfters \cup {None}, error: Errors]

(* ThrottlingEntry: throttleTime is the absolute time until which the      *)
(* thumbprint is throttled; error is the cached server diagnostic.         *)
ThrottlingEntry == [throttleTime: Nat, error: Errors]

MaxNat(a, b) == IF a >= b THEN a ELSE b


Outcomes ==
    {None}
    \cup [kind: {"throttled"}, tp: Thumbprints, at: Nat, error: Errors]
    \cup [kind: {"response"}]
    \cup [kind: {"error"}]

VARIABLES
    now,             \* Date.now(), in seconds
    throttle,        \* throttling cache: thumbprint -> ThrottlingEntry or None
    pc,              \* per caller: "idle", "awaitingResponse", "returned"
    req,             \* per caller: thumbprint of the request it sent
    resp,            \* per caller: status of the response sendPostRequest returned
    outcome,         \* per caller: result of its last executePostToTokenEndpoint
    telemetryCached, \* server telemetry cache holds unacknowledged data
    windowEnd,       \* history: latest throttleTime asked for, per thumbprint
                     \* and error, by any throttling response (0: none yet)
    latest,          \* history: the entry section 4.4 prescribes for the most
                     \* recent throttling response, per thumbprint
    signalled        \* history, per thumbprint: latest window a throttling
                     \* status carried by a NetworkError asked for (0: none)

vars == <<now, throttle, pc, req, resp, outcome, telemetryCached,
          windowEnd, latest, signalled>>

TypeOK ==
    /\ now \in 0..MaxTime
    /\ throttle \in [Thumbprints -> ThrottlingEntry \cup {None}]
    /\ pc \in [Callers -> {"idle", "awaitingResponse", "returned"}]
    /\ req \in [Callers -> Thumbprints]
    /\ resp \in [Callers -> Statuses \cup {None}]
    /\ outcome \in [Callers -> Outcomes]
    /\ telemetryCached \in BOOLEAN
    /\ windowEnd \in [Thumbprints -> [Errors -> Nat]]
    /\ latest \in [Thumbprints -> ThrottlingEntry \cup {None}]
    /\ signalled \in [Thumbprints -> Nat]

(* History only: the end of the window a throttling response imposes       *)
(* (section 4.4: now + Retry-After, or now + the default backoff), written *)
(* independently of the code's CalculateThrottleTime.                      *)
RequiredWindowEnd(r) ==
    now + (IF r.retryAfter # None THEN r.retryAfter ELSE DefaultThrottleTime)

(* History only: the entry section 4.4 prescribes for a throttling        *)
(* response, the window it asks for with the response's error.             *)
RequiredEntry(r) == [throttleTime |-> RequiredWindowEnd(r), error |-> r.error]

-----------------------------------------------------------------------------
(* ThrottlingUtils (from the specification).                               *)

(* preProcess: an entry whose throttleTime has not yet passed rejects.     *)
IsThrottled(t) ==
    throttle[t] # None /\ ~(throttle[t].throttleTime < now)

(* postProcess: status >= 500, status 429, or a Retry-After header.        *)
ThrottlingSignal(r) ==
    r.status >= 500 \/ r.status = 429 \/ r.retryAfter # None

(* Mutant: the server's Retry-After is counted one second too long.        *)
CalculateThrottleTimeOffByOne(r) ==
    now + (IF r.retryAfter = None THEN DefaultThrottleTime ELSE r.retryAfter) + 1

(* Mutant: the window ends one second before the one the server asked for.*)
CalculateThrottleTimeShort(r) ==
    now + (IF r.retryAfter = None THEN DefaultThrottleTime ELSE r.retryAfter) - 1

CalculateThrottleTime(r) ==
    now + (IF r.retryAfter = None THEN DefaultThrottleTime ELSE r.retryAfter)

NewEntry(r) == [throttleTime |-> CalculateThrottleTime(r), error |-> r.error]

(* postProcess upserts the entry on a signal and leaves it alone otherwise.*)
PostProcess(t, r) ==
    IF ThrottlingSignal(r) THEN [throttle EXCEPT ![t] = NewEntry(r)] ELSE throttle

-----------------------------------------------------------------------------
(* BaseClient.                                                             *)

Init ==
    /\ now = 0
    /\ throttle = [t \in Thumbprints |-> None]
    /\ pc = [c \in Callers |-> "idle"]
    /\ req \in [Callers -> Thumbprints]
    /\ resp = [c \in Callers |-> None]
    /\ outcome = [c \in Callers |-> None]
    /\ telemetryCached \in BOOLEAN
    /\ windowEnd = [t \in Thumbprints |-> [e \in Errors |-> 0]]
    /\ latest = [t \in Thumbprints |-> None]
    /\ signalled = [t \in Thumbprints |-> 0]

(* executePostToTokenEndpoint -> sendPostRequest up to its first await:   *)
(* preProcess either throws the cached throttling error, or removes an     *)
(* expired entry and the POST is dispatched.                               *)
SendPostRequest(c, t) ==
    /\ pc[c] = "idle"
    /\ \/ /\ IsThrottled(t)
          /\ outcome' = [outcome EXCEPT ![c] =
                [kind |-> "throttled", tp |-> t, at |-> now,
                 error |-> throttle[t].error]]
          /\ UNCHANGED <<throttle, pc, req>>
       \/ /\ ~IsThrottled(t)
          /\ throttle' = [throttle EXCEPT ![t] = None]
          /\ pc' = [pc EXCEPT ![c] = "awaitingResponse"]
          /\ req' = [req EXCEPT ![c] = t]
          /\ outcome' = [outcome EXCEPT ![c] = None]
    /\ UNCHANGED <<now, resp, telemetryCached, windowEnd, latest, signalled>>

(* The awaited network call resolves; postProcess records any signal under *)
(* the thumbprint computed before the call.                                *)
ReceiveResponse(c) ==
    /\ pc[c] = "awaitingResponse"
    /\ \E r \in Responses :
          /\ throttle' = PostProcess(req[c], r)
          /\ windowEnd' = IF ThrottlingSignal(r)
                            THEN [windowEnd EXCEPT ![req[c]][r.error] =
                                    MaxNat(@, RequiredWindowEnd(r))]
                            ELSE windowEnd
          /\ latest' = IF ThrottlingSignal(r)
                         THEN [latest EXCEPT ![req[c]] = RequiredEntry(r)]
                         ELSE latest
          /\ resp' = [resp EXCEPT ![c] = r.status]
    /\ pc' = [pc EXCEPT ![c] = "returned"]
    /\ UNCHANGED <<now, req, outcome, telemetryCached, signalled>>

(* The network call rejects (NetworkError, AuthError or anything else):    *)
(* the error is rethrown and postProcess is skipped.  A NetworkError may   *)
(* carry the status and headers of the response that failed (r), and that *)
(* response may be a throttling signal; the history records its window.   *)
NetworkFailure(c) ==
    /\ pc[c] = "awaitingResponse"
    /\ \E r \in Responses \cup {None} :
          signalled' = IF r # None /\ ThrottlingSignal(r)
                         THEN [signalled EXCEPT ![req[c]] =
                                 MaxNat(@, RequiredWindowEnd(r))]
                         ELSE signalled
    /\ pc' = [pc EXCEPT ![c] = "idle"]
    /\ outcome' = [outcome EXCEPT ![c] = [kind |-> "error"]]
    /\ UNCHANGED <<now, throttle, req, resp, telemetryCached, windowEnd, latest>>

(* executePostToTokenEndpoint resumes: a response below 500 and not 429    *)
(* clears the server telemetry cache; the response is returned.            *)
ExecutePostReturn(c) ==
    /\ pc[c] = "returned"
    /\ telemetryCached' =
         IF HasTelemetryManager /\ resp[c] < 500 /\ resp[c] # 429
           THEN FALSE ELSE telemetryCached
    /\ outcome' = [outcome EXCEPT ![c] = [kind |-> "response"]]
    /\ resp' = [resp EXCEPT ![c] = None]
    /\ pc' = [pc EXCEPT ![c] = "idle"]
    /\ UNCHANGED <<now, throttle, req, windowEnd, latest, signalled>>

(* Time passes.                                                            *)
Tick ==
    /\ now < MaxTime
    /\ now' = now + 1
    /\ UNCHANGED <<throttle, pc, req, resp, outcome, telemetryCached,
                   windowEnd, latest, signalled>>

Next ==
    \/ \E c \in Callers, t \in Thumbprints : SendPostRequest(c, t)
    \/ \E c \in Callers :
          \/ ReceiveResponse(c)
          \/ NetworkFailure(c)
          \/ ExecutePostReturn(c)
    \/ Tick

Spec == Init /\ [][Next]_vars

-----------------------------------------------------------------------------
(* Properties.                                                             *)

(* Sent(c): caller c's request leaves for the network in this step.        *)
Sent(c) == pc[c] = "idle" /\ pc'[c] = "awaitingResponse"

(* Every throttling error preProcess raises for thumbprint t at time n is  *)
(* justified: some server throttling response for t asked for a window    *)
(* reaching n, and the error surfaced is that response's error verbatim.   *)
RejectionJustified ==
    \A c \in Callers :
        outcome[c] # None /\ outcome[c].kind = "throttled" =>
            LET w == windowEnd[outcome[c].tp][outcome[c].error]
            IN  w # 0 /\ w >= outcome[c].at

(* The gate implements its contract (ThrottleGateAbstract): seen through   *)
(* the window of the most recent throttling response of each thumbprint,   *)
(* the cache with its lazy cleanup refuses a request exactly while that    *)
(* window is in force, with that response's error, admits it otherwise,   *)
(* and postProcess replaces the window by the one the response asked for.  *)
(* A caller holds a request in flight from dispatch until                  *)
(* executePostToTokenEndpoint returns or sendPostRequest rejects.          *)
GateInflight == [c \in Callers |-> IF pc[c] = "idle" THEN None ELSE req[c]]

Gate == INSTANCE ThrottleGateAbstract WITH window <- latest,
                                           inflight <- GateInflight

ImplementsThrottleGate == Gate!Spec

-----------------------------------------------------------------------------
(* Inductive invariant (checked by TLC, proved in ThrottlingProofs).       *)

(* A cached entry lies in the future of time 0 and within the window that  *)
(* some throttling response with the same error asked for.                 *)
EntryJustified ==
    \A t \in Thumbprints :
        throttle[t] # None =>
            /\ throttle[t].throttleTime > 0
            /\ windowEnd[t][throttle[t].error] >= throttle[t].throttleTime

(* The most recent throttling entry is still cached, or has expired.       *)
LatestTracked ==
    \A t \in Thumbprints :
        latest[t] # None =>
            throttle[t] = latest[t] \/ latest[t].throttleTime < now

(* A cached entry is the entry of the most recent throttling response:     *)
(* postProcess writes both at once, and preProcess only deletes.           *)
CacheHoldsLatest ==
    \A t \in Thumbprints : throttle[t] # None => throttle[t] = latest[t]

IInv == /\ TypeOK /\ EntryJustified /\ LatestTracked /\ RejectionJustified
        /\ CacheHoldsLatest

-----------------------------------------------------------------------------
(* No request for t is sent before every throttling window the server has *)
(* asked for t has passed.  The specification claims the gate composes    *)
(* safely with concurrent requests; concurrent responses for the same     *)
(* thumbprint overwrite each other's entry (last writer wins).            *)
BackoffHonoured ==
    [][\A c \in Callers :
         Sent(c) => \A e \in Errors : windowEnd[req'[c]][e] \in {0} \cup 0..(now - 1)]_vars

(* A throttling status the server sent back inside a NetworkError (for    *)
(* instance a 429 whose body is not JSON) is honoured like any other       *)
(* throttling response: no request for that thumbprint is sent before the  *)
(* window it asked for has passed (sections 4.4 and 7).                    *)
NetworkErrorBackoffHonoured ==
    [][\A c \in Callers :
         Sent(c) => signalled[req'[c]] \in {0} \cup 0..(now - 1)]_vars

=============================================================================
