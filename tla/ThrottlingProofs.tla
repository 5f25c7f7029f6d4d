-------------------------- MODULE ThrottlingProofs --------------------------
(***************************************************************************)
(* Proofs about the throttling gate, for every value of the constants      *)
(* satisfying ConstantsAssumption.                                         *)
(***************************************************************************)
EXTENDS Throttling, TLAPS

USE ConstantsAssumption

(* The window history keeps the later of two deadlines: MaxNat of two     *)
(* naturals is a natural no smaller than either.                           *)
LEMMA MaxNatBounds ==
    ASSUME NEW a \in Nat, NEW b \in Nat
    PROVE  MaxNat(a, b) \in Nat /\ MaxNat(a, b) >= a /\ MaxNat(a, b) >= b
    BY DEF MaxNat

(* A throttling entry postProcess computes from a response is well typed   *)
(* and its throttleTime lies strictly in the future.                       *)
LEMMA NewEntryType ==
    ASSUME NEW r \in Responses, now \in Nat
    PROVE  /\ NewEntry(r) \in ThrottlingEntry
           /\ NewEntry(r).throttleTime = RequiredWindowEnd(r)
           /\ NewEntry(r).throttleTime > now
           /\ NewEntry(r) = RequiredEntry(r)
    <1>1. r.retryAfter \in RetryAfters \cup {None} /\ r.error \in Errors
        BY DEF Responses
    <1>2. CalculateThrottleTime(r) = RequiredWindowEnd(r)
        BY <1>1 DEF CalculateThrottleTime, RequiredWindowEnd
    <1>3. CalculateThrottleTime(r) \in Nat /\ CalculateThrottleTime(r) > now
        <2>1. CASE r.retryAfter = None
            BY <2>1 DEF CalculateThrottleTime
        <2>2. CASE r.retryAfter # None
            <3>1. r.retryAfter \in Nat \ {0}
                BY <1>1, <2>2
            <3>2. QED
                BY <2>2, <3>1 DEF CalculateThrottleTime
        <2>3. QED
            BY <2>1, <2>2
    <1>4. QED
        BY <1>1, <1>2, <1>3 DEF NewEntry, ThrottlingEntry, RequiredEntry

(* Every step of the gate preserves the type invariant.                    *)
LEMMA TypeStep == TypeOK /\ [Next]_vars => TypeOK'
    <2> SUFFICES ASSUME TypeOK, [Next]_vars PROVE TypeOK'
        OBVIOUS
    <2>1. ASSUME NEW c \in Callers, NEW t \in Thumbprints, SendPostRequest(c, t)
          PROVE  TypeOK'
        <3>1. CASE IsThrottled(t)
            <4>1. throttle[t] \in ThrottlingEntry
                BY <3>1 DEF IsThrottled, TypeOK
            <4>2. [kind |-> "throttled", tp |-> t, at |-> now,
                   error |-> throttle[t].error] \in Outcomes
                BY <4>1 DEF TypeOK, Outcomes, ThrottlingEntry
            <4>3. /\ outcome' = [outcome EXCEPT ![c] =
                        [kind |-> "throttled", tp |-> t, at |-> now,
                         error |-> throttle[t].error]]
                  /\ UNCHANGED <<throttle, pc, req, now, resp,
                                 telemetryCached, windowEnd, latest,
                                 signalled>>
                BY <2>1, <3>1 DEF SendPostRequest
            <4>4. QED
                BY <4>2, <4>3 DEF TypeOK
        <3>2. CASE ~IsThrottled(t)
            <4>1. /\ throttle' = [throttle EXCEPT ![t] = None]
                  /\ pc' = [pc EXCEPT ![c] = "awaitingResponse"]
                  /\ req' = [req EXCEPT ![c] = t]
                  /\ outcome' = [outcome EXCEPT ![c] = None]
                  /\ UNCHANGED <<now, resp, telemetryCached, windowEnd, latest,
                                 signalled>>
                BY <2>1, <3>2 DEF SendPostRequest
            <4>2. None \in Outcomes
                BY DEF Outcomes
            <4>3. QED
                BY <4>1, <4>2 DEF TypeOK
        <3>3. QED
            BY <3>1, <3>2
    <2>2. ASSUME NEW c \in Callers, ReceiveResponse(c) PROVE TypeOK'
        <3>1. PICK r \in Responses :
                /\ throttle' = PostProcess(req[c], r)
                /\ windowEnd' = IF ThrottlingSignal(r)
                                  THEN [windowEnd EXCEPT ![req[c]][r.error] =
                                          MaxNat(@, RequiredWindowEnd(r))]
                                  ELSE windowEnd
                /\ latest' = IF ThrottlingSignal(r)
                               THEN [latest EXCEPT ![req[c]] = RequiredEntry(r)]
                               ELSE latest
                /\ resp' = [resp EXCEPT ![c] = r.status]
            BY <2>2 DEF ReceiveResponse
        <3>2. now \in Nat
            BY DEF TypeOK
        <3>3. /\ NewEntry(r) \in ThrottlingEntry /\ RequiredWindowEnd(r) \in Nat
              /\ RequiredEntry(r) = NewEntry(r)
            BY <3>2, NewEntryType DEF ThrottlingEntry
        <3>4. throttle' \in [Thumbprints -> ThrottlingEntry \cup {None}]
            BY <3>1, <3>3 DEF PostProcess, TypeOK
        <3>5. windowEnd' \in [Thumbprints -> [Errors -> Nat]]
            <4>1. windowEnd[req[c]][r.error] \in Nat
                BY DEF TypeOK, Responses
            <4>2. MaxNat(windowEnd[req[c]][r.error], RequiredWindowEnd(r)) \in Nat
                BY <3>3, <4>1, MaxNatBounds
            <4>3. QED
                BY <3>1, <4>2 DEF TypeOK, Responses
        <3>6. latest' \in [Thumbprints -> ThrottlingEntry \cup {None}]
            BY <3>1, <3>3 DEF TypeOK
        <3>7. resp' \in [Callers -> Statuses \cup {None}]
            BY <3>1 DEF TypeOK, Responses
        <3>8. QED
            BY <2>2, <3>4, <3>5, <3>6, <3>7 DEF ReceiveResponse, TypeOK
    <2>3. ASSUME NEW c \in Callers, NetworkFailure(c) PROVE TypeOK'
        <3>1. PICK r \in Responses \cup {None} :
                signalled' = IF r # None /\ ThrottlingSignal(r)
                               THEN [signalled EXCEPT ![req[c]] =
                                       MaxNat(@, RequiredWindowEnd(r))]
                               ELSE signalled
            BY <2>3 DEF NetworkFailure
        <3>2. r # None => RequiredWindowEnd(r) \in Nat
            <4>1. HAVE r # None
            <4>2. r \in Responses /\ now \in Nat
                BY <4>1 DEF TypeOK
            <4>3. QED
                BY <4>2, NewEntryType DEF ThrottlingEntry
        <3>3. signalled' \in [Thumbprints -> Nat]
            BY <3>1, <3>2, MaxNatBounds DEF TypeOK
        <3>4. QED
            BY <2>3, <3>3 DEF NetworkFailure, TypeOK, Outcomes
    <2>4. ASSUME NEW c \in Callers, ExecutePostReturn(c) PROVE TypeOK'
        <3>0. telemetryCached' \in {FALSE, telemetryCached}
            BY <2>4 DEF ExecutePostReturn
        <3>1. /\ telemetryCached' \in BOOLEAN
              /\ outcome' = [outcome EXCEPT ![c] = [kind |-> "response"]]
              /\ resp' = [resp EXCEPT ![c] = None]
              /\ pc' = [pc EXCEPT ![c] = "idle"]
              /\ UNCHANGED <<now, throttle, req, windowEnd, latest, signalled>>
            <4>1. telemetryCached' \in BOOLEAN
                BY <3>0 DEF TypeOK
            <4>2. QED
                BY <2>4, <4>1 DEF ExecutePostReturn
        <3>2. [kind |-> "response"] \in Outcomes
            BY DEF Outcomes
        <3>3. QED
            BY <3>1, <3>2 DEF TypeOK
    <2>5. CASE Tick
        BY <2>5 DEF Tick, TypeOK
    <2>6. CASE UNCHANGED vars
        BY <2>6 DEF vars, TypeOK
    <2>7. QED
        BY <2>1, <2>2, <2>3, <2>4, <2>5, <2>6 DEF Next

(* The variables keep their types in every reachable state.               *)
THEOREM TypeCorrect == Spec => []TypeOK
<1>1. Init => TypeOK
    BY DEF Init, TypeOK, Outcomes
<1>2. QED
    BY <1>1, TypeStep, PTL DEF Spec

(* The inductive invariant holds initially.                                *)
LEMMA IInvInit == Init => IInv
    BY DEF Init, IInv, TypeOK, Outcomes, EntryJustified, LatestTracked,
           RejectionJustified, CacheHoldsLatest

(* Every step preserves the inductive invariant.  The entries postProcess  *)
(* writes carry the window the response asked for, windowEnd only grows,   *)
(* and preProcess drops an entry only once it has expired, so the most     *)
(* recent entry is never lost before its time.                             *)
LEMMA IInvStep == IInv /\ [Next]_vars => IInv'
<1> SUFFICES ASSUME IInv, [Next]_vars PROVE IInv'
    OBVIOUS
<1>0. TypeOK /\ TypeOK' /\ now \in Nat
    BY TypeStep DEF IInv, TypeOK
<1> USE DEF TypeOK
<1>1. ASSUME NEW c \in Callers, NEW t \in Thumbprints, SendPostRequest(c, t)
      PROVE  IInv'
    <2>1. CASE IsThrottled(t)
        <3>1. /\ outcome' = [outcome EXCEPT ![c] =
                    [kind |-> "throttled", tp |-> t, at |-> now,
                     error |-> throttle[t].error]]
              /\ UNCHANGED <<throttle, pc, req, now, resp,
                             telemetryCached, windowEnd, latest,
                                 signalled>>
            BY <1>1, <2>1 DEF SendPostRequest
        <3>2. /\ throttle[t] \in ThrottlingEntry
              /\ windowEnd[t][throttle[t].error] >= throttle[t].throttleTime
              /\ throttle[t].throttleTime > 0
              /\ throttle[t].throttleTime >= now
            BY <1>0, <2>1 DEF IsThrottled, IInv, EntryJustified, ThrottlingEntry
        <3>3. RejectionJustified'
            <4>1. SUFFICES ASSUME NEW d \in Callers,
                                  outcome'[d] # None, outcome'[d].kind = "throttled"
                           PROVE  LET w == windowEnd'[outcome'[d].tp][outcome'[d].error]
                                  IN  w # 0 /\ w >= outcome'[d].at
                BY DEF RejectionJustified
            <4>2. CASE d = c
                <5>1. outcome'[d] = [kind |-> "throttled", tp |-> t, at |-> now,
                                     error |-> throttle[t].error]
                    BY <1>0, <3>1, <4>2
                <5>2. QED
                    BY <1>0, <3>1, <3>2, <5>1 DEF ThrottlingEntry
            <4>3. CASE d # c
                <5>1. outcome'[d] = outcome[d]
                    BY <1>0, <3>1, <4>3
                <5>2. QED
                    BY <3>1, <4>1, <5>1 DEF IInv, RejectionJustified
            <4>4. QED
                BY <4>2, <4>3
        <3>4. EntryJustified' /\ LatestTracked' /\ CacheHoldsLatest'
            BY <3>1 DEF IInv, EntryJustified, LatestTracked, CacheHoldsLatest
        <3>5. QED
            BY <1>0, <3>3, <3>4 DEF IInv
    <2>2. CASE ~IsThrottled(t)
        <3>1. /\ throttle' = [throttle EXCEPT ![t] = None]
              /\ outcome' = [outcome EXCEPT ![c] = None]
              /\ UNCHANGED <<now, resp, telemetryCached, windowEnd, latest,
                                 signalled>>
            BY <1>1, <2>2 DEF SendPostRequest
        <3>2. EntryJustified'
            BY <3>1 DEF IInv, EntryJustified
        <3>3. latest[t] # None => latest[t].throttleTime < now
            BY <1>0, <2>2 DEF IsThrottled, IInv, LatestTracked, ThrottlingEntry
        <3>4. LatestTracked'
            BY <3>1, <3>3 DEF IInv, LatestTracked
        <3>5. RejectionJustified'
            BY <3>1 DEF IInv, RejectionJustified
        <3>6. CacheHoldsLatest'
            BY <1>0, <3>1 DEF IInv, CacheHoldsLatest
        <3>7. QED
            BY <1>0, <3>2, <3>4, <3>5, <3>6 DEF IInv
    <2>3. QED
        BY <2>1, <2>2
<1>2. ASSUME NEW c \in Callers, ReceiveResponse(c) PROVE IInv'
    <2>1. PICK r \in Responses :
            /\ throttle' = PostProcess(req[c], r)
            /\ windowEnd' = IF ThrottlingSignal(r)
                              THEN [windowEnd EXCEPT ![req[c]][r.error] =
                                      MaxNat(@, RequiredWindowEnd(r))]
                              ELSE windowEnd
            /\ latest' = IF ThrottlingSignal(r)
                           THEN [latest EXCEPT ![req[c]] = RequiredEntry(r)]
                           ELSE latest
        BY <1>2 DEF ReceiveResponse
    <2>2. UNCHANGED <<now, outcome>>
        BY <1>2 DEF ReceiveResponse
    <2>3. /\ NewEntry(r) \in ThrottlingEntry
          /\ NewEntry(r).throttleTime = RequiredWindowEnd(r)
          /\ NewEntry(r).throttleTime > now
          /\ NewEntry(r).error = r.error
          /\ RequiredEntry(r) = NewEntry(r)
          /\ r.error \in Errors
          /\ req[c] \in Thumbprints
        BY <1>0, NewEntryType DEF NewEntry, Responses
    <2>4. /\ RequiredWindowEnd(r) \in Nat
          /\ LET m == MaxNat(windowEnd[req[c]][r.error], RequiredWindowEnd(r))
             IN  m >= windowEnd[req[c]][r.error] /\ m >= RequiredWindowEnd(r)
        <3>1. RequiredWindowEnd(r) \in Nat
            BY <2>3 DEF ThrottlingEntry
        <3>2. windowEnd[req[c]][r.error] \in Nat
            BY <1>0, <2>3
        <3>3. QED
            BY <3>1, <3>2, MaxNatBounds
    <2>5. \A t \in Thumbprints, e \in Errors : windowEnd'[t][e] >= windowEnd[t][e]
        <3>1. CASE ThrottlingSignal(r)
            BY <1>0, <2>1, <2>3, <2>4, <3>1
        <3>2. CASE ~ThrottlingSignal(r)
            BY <1>0, <2>1, <3>2
        <3>3. QED
            BY <3>1, <3>2
    <2>6. RejectionJustified'
        <3>1. SUFFICES ASSUME NEW d \in Callers,
                              outcome'[d] # None, outcome'[d].kind = "throttled"
                       PROVE  LET w == windowEnd'[outcome'[d].tp][outcome'[d].error]
                              IN  w # 0 /\ w >= outcome'[d].at
            BY DEF RejectionJustified
        <3>2. /\ outcome[d].tp \in Thumbprints /\ outcome[d].error \in Errors
              /\ outcome[d].at \in Nat
            BY <1>0, <2>2, <3>1 DEF Outcomes
        <3>3. LET w == windowEnd[outcome[d].tp][outcome[d].error]
              IN  w # 0 /\ w >= outcome[d].at
            BY <2>2, <3>1 DEF IInv, RejectionJustified
        <3>4. QED
            BY <1>0, <2>2, <2>5, <3>2, <3>3
    <2>7. CASE ThrottlingSignal(r)
        <3>1. /\ throttle' = [throttle EXCEPT ![req[c]] = NewEntry(r)]
              /\ latest' = [latest EXCEPT ![req[c]] = NewEntry(r)]
            BY <2>1, <2>3, <2>7 DEF PostProcess
        <3>5. windowEnd'[req[c]][r.error] >= RequiredWindowEnd(r)
            <4>1. windowEnd' = [windowEnd EXCEPT ![req[c]][r.error] =
                                  MaxNat(@, RequiredWindowEnd(r))]
                BY <2>1, <2>7
            <4>2. windowEnd'[req[c]][r.error] =
                    MaxNat(windowEnd[req[c]][r.error], RequiredWindowEnd(r))
                BY <1>0, <2>3, <4>1
            <4>3. QED
                BY <2>4, <4>2
        <3>2. EntryJustified'
            <4>1. SUFFICES ASSUME NEW t \in Thumbprints, throttle'[t] # None
                           PROVE  /\ throttle'[t].throttleTime > 0
                                  /\ windowEnd'[t][throttle'[t].error] >= throttle'[t].throttleTime
                BY DEF EntryJustified
            <4>2. CASE t = req[c]
                <5>1. throttle'[t] = NewEntry(r)
                    BY <1>0, <3>1, <4>2
                <5>2. NewEntry(r).throttleTime \in Nat /\ now \in Nat
                    BY <1>0, <2>3 DEF ThrottlingEntry
                <5>3. QED
                    BY <2>3, <3>5, <4>2, <5>1, <5>2
            <4>3. CASE t # req[c]
                <5>1. throttle'[t] = throttle[t]
                    BY <1>0, <3>1, <4>3
                <5>2. /\ throttle[t].throttleTime > 0
                      /\ windowEnd[t][throttle[t].error] >= throttle[t].throttleTime
                      /\ throttle[t] \in ThrottlingEntry
                    BY <4>1, <5>1 DEF IInv, EntryJustified
                <5>3. QED
                    BY <1>0, <2>5, <5>1, <5>2 DEF ThrottlingEntry
            <4>4. QED
                BY <4>2, <4>3
        <3>3. LatestTracked'
            BY <2>2, <3>1 DEF IInv, LatestTracked
        <3>6. CacheHoldsLatest'
            BY <1>0, <3>1 DEF IInv, CacheHoldsLatest
        <3>4. QED
            BY <1>0, <2>6, <3>2, <3>3, <3>6 DEF IInv
    <2>8. CASE ~ThrottlingSignal(r)
        <3>1. UNCHANGED <<throttle, latest, windowEnd>>
            BY <2>1, <2>8 DEF PostProcess
        <3>2. QED
            BY <1>0, <2>2, <2>6, <3>1 DEF IInv, EntryJustified, LatestTracked,
                                          CacheHoldsLatest
    <2>9. QED
        BY <2>7, <2>8
<1>3. ASSUME NEW c \in Callers, NetworkFailure(c) PROVE IInv'
    <2>1. UNCHANGED <<now, throttle, windowEnd, latest>>
          /\ outcome' = [outcome EXCEPT ![c] = outcome'[c]]
          /\ outcome'[c].kind # "throttled"
        BY <1>0, <1>3 DEF NetworkFailure
    <2>2. (EntryJustified /\ LatestTracked /\ CacheHoldsLatest)'
        BY <2>1 DEF IInv, EntryJustified, LatestTracked, CacheHoldsLatest
    <2>3. RejectionJustified'
        BY <1>0, <2>1 DEF IInv, RejectionJustified
    <2>4. QED
        BY <1>0, <2>2, <2>3 DEF IInv
<1>4. ASSUME NEW c \in Callers, ExecutePostReturn(c) PROVE IInv'
    <2>1. UNCHANGED <<now, throttle, windowEnd, latest>>
          /\ outcome' = [outcome EXCEPT ![c] = outcome'[c]]
          /\ outcome'[c].kind # "throttled"
        BY <1>0, <1>4 DEF ExecutePostReturn
    <2>2. (EntryJustified /\ LatestTracked /\ CacheHoldsLatest)'
        BY <2>1 DEF IInv, EntryJustified, LatestTracked, CacheHoldsLatest
    <2>3. RejectionJustified'
        BY <1>0, <2>1 DEF IInv, RejectionJustified
    <2>4. QED
        BY <1>0, <2>2, <2>3 DEF IInv
<1>5. CASE Tick
    <2>1. /\ now' = now + 1
          /\ UNCHANGED <<throttle, pc, req, resp, outcome, windowEnd, latest>>
        BY <1>5 DEF Tick
    <2>2. (EntryJustified /\ RejectionJustified /\ CacheHoldsLatest)'
        BY <2>1 DEF IInv, EntryJustified, RejectionJustified, CacheHoldsLatest
    <2>3. LatestTracked'
        BY <1>0, <2>1 DEF IInv, LatestTracked, ThrottlingEntry
    <2>4. QED
        BY <1>0, <2>2, <2>3 DEF IInv
<1>6. CASE UNCHANGED vars
    BY <1>0, <1>6 DEF vars, IInv, EntryJustified, LatestTracked,
                      RejectionJustified, CacheHoldsLatest
<1>7. QED
    BY <1>1, <1>2, <1>3, <1>4, <1>5, <1>6 DEF Next

(* Every throttling error raised is justified by a server throttling       *)
(* response for the same request, whose window had not yet passed.         *)
THEOREM RejectionJustifiedHolds == Spec => []RejectionJustified
<1>1. IInv => RejectionJustified
    BY DEF IInv
<1>2. QED
    BY <1>1, IInvInit, IInvStep, PTL DEF Spec

-----------------------------------------------------------------------------
(* The gate implements its contract.                                       *)

(* A request starts out in flight of no caller, with no window recorded.   *)
LEMMA GateInit == Init => Gate!Init
    BY DEF Init, Gate!Init, GateInflight

(* Seen through the refinement mapping, the pre-flight check of the cache  *)
(* is the check of the latest window: the lazy cleanup deletes only        *)
(* entries that have expired, and a cached entry is the latest one.        *)
LEMMA ThrottledIsInForce ==
    ASSUME IInv, NEW t \in Thumbprints
    PROVE  /\ IsThrottled(t) <=> Gate!InForce(t)
           /\ IsThrottled(t) => throttle[t].error = latest[t].error
<1>1. /\ latest[t] \in ThrottlingEntry \cup {None}
      /\ throttle[t] \in ThrottlingEntry \cup {None}
      /\ now \in Nat
    BY DEF IInv, TypeOK
<1>2. throttle[t] # None => throttle[t] = latest[t]
    BY DEF IInv, CacheHoldsLatest
<1>3. latest[t] # None =>
        throttle[t] = latest[t] \/ latest[t].throttleTime < now
    BY DEF IInv, LatestTracked
<1>4. QED
    BY <1>1, <1>2, <1>3 DEF IsThrottled, Gate!InForce, ThrottlingEntry

(* The window postProcess records is the one the contract asks for.        *)
LEMMA NewEntryIsWindow ==
    ASSUME NEW r \in Responses, now \in Nat
    PROVE  /\ NewEntry(r) = Gate!WindowOf(r)
           /\ ThrottlingSignal(r) <=> Gate!Signals(r)
<1>1. NewEntry(r).throttleTime = RequiredWindowEnd(r)
    BY NewEntryType
<1>2. QED
    BY <1>1 DEF NewEntry, Gate!WindowOf, RequiredWindowEnd, ThrottlingSignal,
                Gate!Signals

(* Every step of the gate is a refusal, an admission, a response, the      *)
(* settling of a request or a tick of the contract, or changes nothing it *)
(* can see.                                                                *)
LEMMA GateStep ==
    IInv /\ [Next]_vars =>
        [Gate!Next]_<<now, latest, GateInflight, outcome>>
<1> SUFFICES ASSUME IInv, [Next]_vars
             PROVE  [Gate!Next]_<<now, latest, GateInflight, outcome>>
    OBVIOUS
<1>0. TypeOK /\ TypeOK' /\ now \in Nat
    BY TypeStep DEF IInv, TypeOK
<1> USE DEF TypeOK
<1>1. ASSUME NEW c \in Callers, NEW t \in Thumbprints, SendPostRequest(c, t)
      PROVE  Gate!Next
    <2>1. pc[c] = "idle" /\ GateInflight[c] = None
        BY <1>1 DEF SendPostRequest, GateInflight
    <2>2. CASE IsThrottled(t)
        <3>1. /\ outcome' = [outcome EXCEPT ![c] =
                    [kind |-> "throttled", tp |-> t, at |-> now,
                     error |-> throttle[t].error]]
              /\ UNCHANGED <<now, latest, pc, req>>
            BY <1>1, <2>2 DEF SendPostRequest
        <3>2. Gate!InForce(t) /\ throttle[t].error = latest[t].error
            BY <2>2, ThrottledIsInForce
        <3>3. UNCHANGED GateInflight
            BY <3>1 DEF GateInflight
        <3>4. Gate!Reject(c, t)
            BY <2>1, <3>1, <3>2, <3>3 DEF Gate!Reject
        <3>5. QED
            BY <3>4 DEF Gate!Next
    <2>3. CASE ~IsThrottled(t)
        <3>1. /\ pc' = [pc EXCEPT ![c] = "awaitingResponse"]
              /\ req' = [req EXCEPT ![c] = t]
              /\ outcome' = [outcome EXCEPT ![c] = None]
              /\ UNCHANGED <<now, latest>>
            BY <1>1, <2>3 DEF SendPostRequest
        <3>2. ~Gate!InForce(t)
            BY <2>3, ThrottledIsInForce
        <3>3. GateInflight' = [GateInflight EXCEPT ![c] = t]
            BY <1>0, <3>1 DEF GateInflight
        <3>4. Gate!Admit(c, t)
            BY <2>1, <3>1, <3>2, <3>3 DEF Gate!Admit
        <3>5. QED
            BY <3>4 DEF Gate!Next
    <2>4. QED
        BY <2>2, <2>3
<1>2. ASSUME NEW c \in Callers, ReceiveResponse(c) PROVE Gate!Next
    <2>1. PICK r \in Responses :
            latest' = IF ThrottlingSignal(r)
                        THEN [latest EXCEPT ![req[c]] = RequiredEntry(r)]
                        ELSE latest
        BY <1>2 DEF ReceiveResponse
    <2>2. /\ pc[c] = "awaitingResponse" /\ pc' = [pc EXCEPT ![c] = "returned"]
          /\ UNCHANGED <<now, req, outcome>>
        BY <1>2 DEF ReceiveResponse
    <2>3. GateInflight[c] = req[c] /\ req[c] \in Thumbprints
          /\ GateInflight[c] # None
        BY <1>0, <2>2, ConstantsAssumption DEF GateInflight
    <2>4. UNCHANGED GateInflight
        BY <2>2 DEF GateInflight
    <2>5. /\ RequiredEntry(r) = Gate!WindowOf(r)
          /\ ThrottlingSignal(r) <=> Gate!Signals(r)
        BY <1>0, NewEntryIsWindow, NewEntryType
    <2>6. r \in Gate!Responses
        BY DEF Responses, Gate!Responses, Statuses, Gate!Statuses
    <2>7. Gate!Respond(c, r)
        BY <2>1, <2>2, <2>3, <2>4, <2>5 DEF Gate!Respond
    <2>8. QED
        BY <2>6, <2>7 DEF Gate!Next
<1>3. ASSUME NEW c \in Callers, NetworkFailure(c) \/ ExecutePostReturn(c)
      PROVE  Gate!Next
    <2>1. /\ pc[c] \in {"awaitingResponse", "returned"}
          /\ pc' = [pc EXCEPT ![c] = "idle"]
          /\ \E k \in {"response", "error"} :
                outcome' = [outcome EXCEPT ![c] = [kind |-> k]]
          /\ UNCHANGED <<now, latest, req>>
        BY <1>3 DEF NetworkFailure, ExecutePostReturn
    <2>2. GateInflight[c] # None
        BY <1>0, <2>1, ConstantsAssumption DEF GateInflight
    <2>3. GateInflight' = [GateInflight EXCEPT ![c] = None]
        BY <1>0, <2>1 DEF GateInflight
    <2>4. Gate!Settle(c)
        BY <2>1, <2>2, <2>3 DEF Gate!Settle
    <2>5. QED
        BY <2>4 DEF Gate!Next
<1>4. CASE Tick
    <2>1. UNCHANGED GateInflight
        BY <1>4 DEF Tick, GateInflight
    <2>2. QED
        BY <1>4, <2>1 DEF Tick, Gate!Tick, Gate!Next
<1>5. CASE UNCHANGED vars
    BY <1>5 DEF vars, GateInflight
<1>6. QED
    BY <1>1, <1>2, <1>3, <1>4, <1>5 DEF Next

(* The throttling gate, for any number of concurrent callers and           *)
(* thumbprints, implements its contract of section 4.4: with the cache's   *)
(* lazy cleanup, concurrent responses and the awaits of sendPostRequest,   *)
(* a request is refused exactly while the window of the latest throttling  *)
(* response for its thumbprint is in force, with that response's error,   *)
(* and every throttling response sets the window it asked for.             *)
THEOREM GateRefinement == Spec => ImplementsThrottleGate
<1>1. IInv /\ [][Next]_vars =>
        [][[Gate!Next]_<<now, latest, GateInflight, outcome>>]_<<now, latest, GateInflight, outcome>>
    BY GateStep, IInvStep, PTL
<1>2. QED
    BY <1>1, GateInit, IInvInit, IInvStep, PTL
       DEF Spec, ImplementsThrottleGate, Gate!Spec
=============================================================================
