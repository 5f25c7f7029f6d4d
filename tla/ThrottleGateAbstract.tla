------------------------- MODULE ThrottleGateAbstract -------------------------
(***************************************************************************)
(* What the request throttling gate promises (section 4.4), with no cache, *)
(* no lazy cleanup and no awaits inside the gate: per thumbprint, the      *)
(* window of the most recent throttling response.  While that window is in *)
(* force a request for the thumbprint is refused, with the error of that   *)
(* response; otherwise it is admitted.  A response to an admitted request  *)
(* that carries a throttling signal replaces the window by now plus the    *)
(* server's Retry-After, or plus the default backoff; any other response   *)
(* leaves it alone.                                                        *)
(***************************************************************************)
EXTENDS Naturals

CONSTANTS Callers, Thumbprints, Errors, RetryAfters, DefaultThrottleTime,
          MaxTime, None

VARIABLES
    now,       \* the clock, in seconds
    window,    \* thumbprint -> [throttleTime, error] of its latest throttling
               \* response, or None
    inflight,  \* caller -> thumbprint of its admitted request, or None
    outcome    \* caller -> verdict or result of its last request

Statuses == {200, 429, 500}

Responses ==
    [status: Statuses, retryAfter: RetryAfters \cup {None}, error: Errors]

Windows == [throttleTime: Nat, error: Errors]

Outcomes ==
    {None}
    \cup [kind: {"throttled"}, tp: Thumbprints, at: Nat, error: Errors]
    \cup [kind: {"response"}]
    \cup [kind: {"error"}]

TypeOK ==
    /\ now \in 0..MaxTime
    /\ window \in [Thumbprints -> Windows \cup {None}]
    /\ inflight \in [Callers -> Thumbprints \cup {None}]
    /\ outcome \in [Callers -> Outcomes]

(* The window of t has not yet passed.                                     *)
InForce(t) == window[t] # None /\ now <= window[t].throttleTime

(* A response asks for a backoff when its status is 5xx or 429, or when it *)
(* carries Retry-After; the window then ends that many seconds from now.   *)
Signals(r) == r.status >= 500 \/ r.status = 429 \/ r.retryAfter # None

WindowOf(r) ==
    [throttleTime |-> now + (IF r.retryAfter # None THEN r.retryAfter
                                                    ELSE DefaultThrottleTime),
     error |-> r.error]

Init ==
    /\ now = 0
    /\ window = [t \in Thumbprints |-> None]
    /\ inflight = [c \in Callers |-> None]
    /\ outcome = [c \in Callers |-> None]

(* An idle caller's request for t is refused without reaching the network. *)
Reject(c, t) ==
    /\ inflight[c] = None
    /\ InForce(t)
    /\ outcome' = [outcome EXCEPT ![c] =
          [kind |-> "throttled", tp |-> t, at |-> now, error |-> window[t].error]]
    /\ UNCHANGED <<now, window, inflight>>

(* An idle caller's request for t goes to the network.                     *)
Admit(c, t) ==
    /\ inflight[c] = None
    /\ ~InForce(t)
    /\ inflight' = [inflight EXCEPT ![c] = t]
    /\ outcome' = [outcome EXCEPT ![c] = None]
    /\ UNCHANGED <<now, window>>

(* A response to c's admitted request arrives.                             *)
Respond(c, r) ==
    /\ inflight[c] # None
    /\ window' = IF Signals(r) THEN [window EXCEPT ![inflight[c]] = WindowOf(r)]
                               ELSE window
    /\ UNCHANGED <<now, inflight, outcome>>

(* c's request completes with the response, or with an error.              *)
Settle(c) ==
    /\ inflight[c] # None
    /\ inflight' = [inflight EXCEPT ![c] = None]
    /\ outcome' \in {[outcome EXCEPT ![c] = [kind |-> k]] : k \in {"response", "error"}}
    /\ UNCHANGED <<now, window>>

Tick ==
    /\ now < MaxTime
    /\ now' = now + 1
    /\ UNCHANGED <<window, inflight, outcome>>

Next ==
    \/ \E c \in Callers, t \in Thumbprints : Reject(c, t) \/ Admit(c, t)
    \/ \E c \in Callers : Settle(c) \/ \E r \in Responses : Respond(c, r)
    \/ Tick

Spec == Init /\ [][Next]_<<now, window, inflight, outcome>>
=============================================================================
