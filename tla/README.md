# TLA+ models of the MSAL excerpt

This directory holds TLA+ models of the parts of this repository that have
state and concurrency, the TLC configurations that check them, and TLAPS
proofs about the throttling gate, the key store and native-auth sign-in. Sources are under `src/` and the prose
specification is `spec.md`.

## The system and its parts

| Part | Code | State | Operations | Module |
|---|---|---|---|---|
| Token-endpoint POST with throttling | `BaseClient.ts` 141-249 | the throttling cache (thumbprint -> entry), the server-telemetry cache, in-flight requests | `executePostToTokenEndpoint`, `sendPostRequest` with `ThrottlingUtils.preProcess` and `postProcess` | `Throttling`, refining `ThrottleGateAbstract` |
| Token-binding key store | `CryptoOps` in `NativeAuthPublicClientApplication.ts` 249-512 | `asymmetricKeys` and `symmetricKeys` stores (IndexedDB-backed) | `getPublicKeyThumbprint`, `removeTokenBindingKey`, `clearKeystore`, `signJwt`, `getAsymmetricPublicKey`, `decryptBoundTokenResponse` | `KeyStore`, refining `KeyStoreAbstract` |
| Native-auth sign-in | `NativeAuthPublicClientApplication` (lines 1-102), `NativeAuthStandardController` (`part_001`), `SignInResult` (`part_000`) | the controller chosen at construction, per-call progress | `signIn` and its awaits of `start` and `submitPassword`; `signUp`, `resetPassword` and `getCurrentAccount`, which throw | `SignIn`, refining `SignInAbstract` |
| Sign-in sample | `signin` in the sample (`NativeAuthPublicClientApplication.ts` 119-246) | per-run progress through the sample | the await of `app.signIn`, the result dispatch, `submitCode`, `sumbmitPassword`, the account calls | `SignInSample` (composed with `SignIn`) |

How the parts interact. A token request of the browser client goes through
`executePostToTokenEndpoint`, so the throttling gate sees every POST. Proof-of-possession
requests take their key from the key store: the kid from
`getPublicKeyThumbprint` is later used by `signJwt`. The native-auth
application sits on top of both, but this excerpt does not contain that
wiring. The sign-in sample drives the application's `signIn`, so
`SignInSample` extends `SignIn` and composes the two: a sample run's first
step is the application's `SignInStart`, and the controller's steps run
while the sample awaits. The other parts are modelled on their own.

What makes this code hard to test:
- **Async interleaving.** Every operation is `async`, and calls on one object
  interleave at their `await`s. Each module therefore has a set of callers,
  and every action is the code between two awaits.
- **Last writer wins.** Responses of concurrent requests are post-processed in
  the order they complete.
- **Stale reads.** `signJwt` reads a key before several awaits and uses it after them.
- **Races on the store.** A clear can run while a store is in flight.
- **Failure paths.** Every crypto or network call may reject.

## Modules and runs

### Throttling (`Throttling.tla`, `MCThrottling.tla`)

Variables:
- `throttle` is the throttling cache.
- `pc` and `req` hold each caller's progress and the thumbprint it sent.
- `resp` is the status the awaited `sendPostRequest` returned.
- `outcome` is what the caller's last call produced.
- `telemetryCached` is the server-telemetry cache.
- `windowEnd`, `latest` and `signalled` are history variables. `windowEnd` is
  the largest window any throttling response asked for, per thumbprint and
  error. `latest` is the entry section 4.4 prescribes for the most recent
  such response (`RequiredEntry`: its window by the spec's formula, not by
  the code's `CalculateThrottleTime`, and its error). `signalled`
  is the largest window a throttling status carried by a `NetworkError` asked
  for, per thumbprint.

Actions:
- `SendPostRequest` is lines 149-201: preProcess and the network dispatch
  before the first await, taken as one step because nothing in between yields.
- `ReceiveResponse` is lines 193-248: the awaited call resolves and
  `postProcess` runs.
- `NetworkFailure` is lines 213-244: the rejected call, where postProcess is
  skipped. A `NetworkError` may carry the HTTP status and headers of a real
  response (line 232 reads `e.httpStatus`), so the step chooses that response
  or none, and records in `signalled` the window it asked for.
- `ExecutePostReturn` is lines 164-173: the telemetry clear.
- `Tick` advances the clock.

`ThrottlingUtils` is not in `src/`. Its `preProcess` and `postProcess` are
modelled from spec section 4.4 and marked `spec_modelled` in the map:
- the entry is dropped once `throttleTime < now`;
- a signal is status >= 500, status 429, or a Retry-After header;
- the throttle time is `now + (Retry-After or default)`.

Runs:
- `throttling_safety` (`MCThrottling.cfg`, passes) checks two properties:
  - `RejectionJustified`: every throttling error is backed by a server
    response with that error whose window reaches the moment of rejection.
    A Retry-After counted one second too long violates it.
  - `ImplementsThrottleGate` (`Gate!Spec`): the gate implements its
    contract, described below. Because `latest` is computed by the spec's
    formula, a window one second shorter than the server asked for
    (`CalculateThrottleTimeShort`) violates it: the cache then lets a
    request through while the contract's window is still in force.

`ThrottleGateAbstract` is the contract of section 4.4 with no cache and no
lazy cleanup. Per thumbprint it keeps the window of the most recent
throttling response. Its steps are:
- `Reject(c, t)`: while the window of `t` is in force, refuse with its error;
- `Admit(c, t)`: otherwise, put the request in flight;
- `Respond(c, r)`: a signal replaces the window by `now` plus Retry-After or
  the default; any other response leaves it;
- `Settle(c)`: the request returns a response or an error;
- `Tick`.

The mapping is `window <- latest`, and a caller's request is in flight
(`GateInflight`) from dispatch until `executePostToTokenEndpoint` returns or
`sendPostRequest` rejects. The clock and the outcomes map to themselves. The
window is computed in the contract by its own formula, independently of
`CalculateThrottleTime`.
- `throttling_backoff` (`MCThrottlingBackoff.cfg`, violation) checks
  `BackoffHonoured`, that no request is sent before every window the server
  asked for has passed. TLC finds this trace:
  1. two requests for one thumbprint are in flight;
  2. a 429 with Retry-After 3 arrives first;
  3. a 429 with Retry-After 1 arrives second and overwrites the entry;
  4. at time 2 a new request is sent, although the server asked to be left
     alone until time 3.

  This is a gap in the spec's claim (section 4.4) that the gate "composes safely with
  concurrent requests".
- `throttling_network_error` (`MCThrottlingNetworkError.cfg`, violation)
  checks `NetworkErrorBackoffHonoured`: no request is sent inside a window a
  throttling status asked for, even when that status came back as a
  `NetworkError`. TLC finds this trace:
  1. a request is sent;
  2. the transport rejects with a `NetworkError` carrying 429 and
     Retry-After 1;
  3. `sendPostRequest` rethrows at line 237 before `postProcess`, so no
     entry is written;
  4. the next request for the thumbprint is sent at once.

  Spec section 4.4 says post-flight inspects every received response for
  429, 5xx and Retry-After, and section 1 says the gate prevents retry
  storms. It does not exempt responses that surface as a `NetworkError`.

Bounds:
- 2 callers, 1 thumbprint and 2 errors.
- Retry-After values of 1 and 3, a default backoff of 2, and a clock up to 4.

Every interaction is between requests for the same thumbprint, and entries
for different thumbprints are independent, so one thumbprint loses no
behaviour. Two thumbprints give about 4M states and take minutes. With a clock
of 4, windows of different lengths overlap, expire and are overwritten. The
safety run has 229k distinct states (the `signalled` history multiplies
them). Callers are symmetric.

### KeyStore (`KeyStore.tla`, `MCKeyStore.tla`)

Keys are model values, and `JwkThumbprint` maps a key pair to its kid. The
hashing of the public JWK is abstracted to an injective map, because distinct
public keys have distinct thumbprints. Variables:
- `pc` and `arg` are each caller's progress and argument. The key pair
  `signJwt` reads is not kept: nothing after the read depends on which pair
  it was, only on the kid.
- `generated`, `returned`, `revoked` and `found` are history variables.
  `revoked` holds the kids removed or wiped since they were last stored; a
  successful store takes its kid out again, so a remove that ran before the
  kid was stored does not excuse losing it later.

The initial state may already have persisted entries, because IndexedDB
outlives a page load.

`decryptBoundTokenResponse` delegates to `BoundTokenResponse`, which is not
in `src/`. Following spec section 4.3, it looks the request's key up in
either partition. It resolves to a response only if the key is there, and to
null otherwise or when the integrity check fails. It changes no entry.

`KeyStoreAbstract` is the contract of spec section 4.1 on the asymmetric
partition. Its only variable is a map from kid to pair, and its steps are:
- `Put(kid)` stores the pair the kid was computed from;
- `Remove(kid)`;
- `Clear`.

`KeyStore` instantiates it with `store <- asymmetricKeys`. The refinement
hides the callers, the awaits and the histories.

The symmetric partition is left out of the contract. No operation in this
excerpt adds a symmetric key. Spec section 4.1 does say that clear empties
it, and `keystore_clear` shows that the code does not.

Runs:
- `keystore_safety` (passes) checks two properties:
  - `HandedOutKeysRetained`: a kid returned by `getPublicKeyThumbprint` stays
    stored until it is removed or cleared after it was last stored. This is
    what storing before returning (line 397) buys a caller: `signJwt` and
    `getAsymmetricPublicKey` find the key of a kid they were handed. The
    mutant that returns the kid before the awaited `setItem` violates it.
  - `ImplementsKeyStoreContract` (`Abstract!Spec`): every step is a put, a
    remove or a clear of the contract, or leaves the asymmetric store alone.
    In particular, an entry is never overwritten by another pair, and every
    stored pair is the contract's unextractable one. The mutant whose
    thumbprint leaves out the modulus violates it.
- `keystore_remove_result` (violation): `removeTokenBindingKey` returns `true`
  for a kid that was never stored, because it returns `!containsKey`. Spec
  section 8 says it returns true only if the key was removed.
- `keystore_clear` (violation): `clearKeystore` deletes only
  `Object.keys(this.cache)[0]`, which is the asymmetric store, and still
  reports success. Spec sections 4.1 and 8 say both partitions are emptied.

Bounds: 2 callers, 3 keys and 1 symmetric key. This gives 37k distinct states (up to symmetry), which
is enough for a generate, a remove and a sign to interleave on the same kid
while a third key stays free.

### SignIn (`SignIn.tla`, `MCSignIn.tla`)

Each call has a phase (`idle`, `starting`, `submitting`, `done`). Its input
says whether a username and a password are present. The service's answers are
chosen nondeterministically: `start` resolves to a continuation token, a code
send or another type, or it rejects; `submitPassword` returns an account or
rejects.

Runs:
- `signin_safety` (passes) checks `ImplementsSignInContract`
  (`Contract!Spec`), with two calls interleaved: signIn implements the
  atomic-call contract `SignInAbstract`. In the contract a call returns in
  one step, with the result that `Outcome` prescribes for its own input,
  start answer and submitPassword answer. `Exchange` says which requests a
  call sends. The mapping `ReturnedCall` shows each call's input, answers
  and result once its phase is `done`, and nothing before. The mutant in
  which a code-send response is not recognised and becomes an error result
  violates it.
- `signin_controller` (violation) checks `SignInUsesGivenController`. The
  constructor stores its own default controller and ignores the one it was
  given, which contradicts its doc comment.

- `signin_sample` (`MCSignInSample.cfg`, passes) checks
  `SampleUsesIssuedAccount` on the composed model `SignInSample`: a sample
  run uses an account only when the service issued one to that run on the
  path its signIn result selected. There are three such paths:
  - a completed signIn whose `submitPassword` returned an account;
  - a code-required state whose `submitCode` succeeded;
  - a password-required state whose `sumbmitPassword` succeeded.

  Dropping the `isSuccess` check after `submitCode` (line 169) breaks it.

The sample's second `SignInCodeRequiredState` branch (resend code, lines
188-221) has no step. It tests the same condition as the first branch, and
the first branch returns on every path. `submitCode`, `sumbmitPassword`,
`getAccessToken` and `signOut` belong to state handlers and `AccountInfo`,
which are not in `src/`. Their answers are nondeterministic, and the two
account calls may reject the sample's promise, which the sample does not
catch.

Deadlock checking is off for SignIn and the sample, because a finished call
takes no further step.

## Fairness and liveness

No fairness is assumed and no liveness property is checked:
- a request that passed the throttling gate settles only if the network
  answers; spec section 5 leaves timeouts to the network layer, so that
  `sendPostRequest` settles follows from the assumption alone and says
  nothing about this code;
- the crypto provider and the sign-in service promise no answer, and the
  code sets no timeouts of its own.

Every property of a passing run is a safety or refinement property.

## Proofs

### Throttling proofs (`ThrottlingProofs.tla`)

The constants of Throttling are assumed only as `ConstantsAssumption` states them:
- Retry-After values and the default backoff are positive naturals;
- `MaxTime` is a natural;
- `None` differs from every value.

TLC evaluates this assumption in every Throttling run.

- `TypeCorrect`: `Spec => []TypeOK`. It rests on `TypeStep` and on
  `NewEntryType`, which says a new entry is well typed and lies after `now`.
  `MaxNatBounds`, used for the window history, says the later of two
  deadlines is a natural no smaller than either.
- `RejectionJustifiedHolds`: `Spec => []RejectionJustified`.
- `GateRefinement`: `Spec => ImplementsThrottleGate`.

The last two use the inductive invariant
`IInv == TypeOK /\ EntryJustified /\ LatestTracked /\ RejectionJustified /\ CacheHoldsLatest`.
`RejectionJustified` alone is not inductive, because a rejection reads the
cached entry. That needs two more conjuncts:
- `EntryJustified`: every cached entry is positive and lies within the window
  `windowEnd` records for its error.
- `LatestTracked`: the most recent throttling entry is either still cached or
  already expired, so preProcess never deletes an entry in force.

`windowEnd` only grows. `IInvInit` and `IInvStep` prove the invariant is
inductive, with one case per action. `NewEntryType` also shows that the
entry `postProcess` computes with `CalculateThrottleTime` is the
`RequiredEntry` that `latest` records, which is what ties the code's
arithmetic to the spec's formula in both proofs.

The refinement adds `CacheHoldsLatest` to the invariant: a cached entry is
the entry of the most recent throttling response. `postProcess` writes both
at once, and preProcess only deletes. TLC checked the strengthened `IInv` as
an invariant of the safety run before it was proved. The proof has these
steps:
- `GateInit`: the initial state maps to the contract's initial state.
- `ThrottledIsInForce`: under `IInv`, preProcess's test on the cache
  (`IsThrottled`) is exactly the contract's test on the latest window
  (`InForce`), and the cached error is the latest response's error. One
  direction uses `CacheHoldsLatest`. The other uses `LatestTracked`: an
  entry still in force was never deleted.
- `NewEntryIsWindow`: the entry `postProcess` writes is the contract's
  `WindowOf`, and the two signal tests agree.
- `GateStep`: under `IInv`, each step maps as follows:
  - a throttled `SendPostRequest` is `Reject`;
  - an unthrottled one is `Admit`;
  - `ReceiveResponse` is `Respond`;
  - `NetworkFailure` and `ExecutePostReturn` are `Settle`;
  - `Tick` is `Tick`.

### KeyStore proofs (`KeyStoreProofs.tla`)

`ConstantsAssumption` says that `Keys` is finite and that `None` is not a
key, a cached pair or a result record (`ResultRecords`). `None` models
`undefined` and `null`, which are never an error or a result object.

- `RetainedHolds`: `Spec => []HandedOutKeysRetained`.
- `TypeCorrect`: `Spec => []TypeOK`.
- `Refinement`: `Spec => ImplementsKeyStoreContract`. `CryptoOps` implements
  the key-store contract for any callers and key pairs.

All three use the invariant
`IInv == TypeOK /\ ArgsDefined /\ EntriesMatchKids /\ HandedOutKeysRetained`.

`TypeOK` alone is not inductive, because `ThumbprintStore` and
`RemoveContainsKey` use the caller's `arg` as a kid. That needs
`ArgsDefined`, which says every caller between two awaits holds a key.

The argument for `HandedOutKeysRetained` runs as follows:
- `ThumbprintStore` adds its kid to `returned`, and takes it out of
  `revoked`, in the same step that stores it;
- `RemoveItem` revokes the kid it removes;
- a successful `clearKeystore` revokes every kid it wipes;
- no other step removes an entry.

The refinement rests on two lemmas:
- `RefinementInit`: a persisted store is an initial store of the contract.
- `RefinementStep`: under `IInv`, every step is an abstract step or leaves
  `asymmetricKeys` unchanged. `ThumbprintStore` is `Put(arg[c])`, because
  `JwkThumbprint(arg[c]) = arg[c]` and the cached pair is the contract's
  `StoredPair`. `RemoveItem` is `Remove`, a successful `clearKeystore` is
  `Clear`, and every other step changes no entry.

`EntriesMatchKids` (every entry is the pair of its own kid) is not needed
by the step lemma. It is carried in the invariant because it is what makes
a put an upsert of the same pair.

### SignIn proofs (`SignInProofs.tla`)

`SignIn!ConstantsAssumption` says `None` is none of the inputs, answers and
result names.

Both theorems use the invariant
`IInv == TypeOK /\ PhaseHistory /\ SignInOutcomeConsistent`. It is needed
because a result is decided two awaits after the inputs are read.
`SignInOutcomeConsistent` says each result so far matches its own call's
answers and inputs; `PhaseHistory` records what each phase has already seen:
- nothing before a call starts;
- a username while `start` is awaited;
- a continuation token and a password while `submitPassword` is awaited;
- a result once the call is done.

`StartResolvedSafe` handles the four outcomes of the start dispatch.

- `SampleAccountIssued`: `SampleSpec => []SampleUsesIssuedAccount`. It uses
  `SampleIInv`, which is `IInv` together with `SampleHistory`:
  - a sample run's signIn call starts with it;
  - its result is final once the sample reads it;
  - each state handler is awaited only for the result that carries it.

  `SampleProjects` shows that every step of the composition is a step of
  `SignIn` or leaves its variables alone, so `IInv` carries over unchanged.
- `SignInRefinement`: `Spec => ImplementsSignInContract`. It uses the same
  `IInv`, with `PhaseHistory` strengthened to say that an idle call has no
  input yet. Its lemmas are:
  - `ContractInit`;
  - `ReturnedCallFrame`: a step of one call changes only that call's record;
  - `NotReturnedFrame`: such a step that neither starts nor ends in the
    call's return leaves every record alone;
  - `ReturnedRecord`: the record of a call that returns in this step;
  - `ContractStep`, one case per action:
    - `SignInStart` without a username is the contract's `SignIn` with no
      request sent; with a username it is a stutter;
    - the start dispatch is `SignIn` or, when it goes on to
      `submitPassword`, a stutter;
    - `SubmitPasswordAnswered` is `SignIn`;
    - the unimplemented entry points are `Unimplemented`.

  `PhaseHistory` supplies the facts each case needs: no answers before a
  call returns, a username while `start` is awaited, and a token and a
  password while `submitPassword` is awaited.

### What is only model-checked

- The violations.
- Everything that depends on the bounds.

Every property of a passing run is also proved, the three refinements
included: `KeyStoreAbstract`, `ThrottleGateAbstract` and `SignInAbstract`,
each proved through `[]IInv` and a step lemma. Liveness, `ENABLED` and
induction over recursive definitions are out of TLAPS's reach; the project
states no property that needs them.

## Not modelled

- `createTokenRequestHeaders` and `createTokenQueryParameters` build strings
  from the request and the configuration, and change no state.
- `updateAuthority` replaces `this.authority` after an await. No operation
  in this excerpt reads the authority afterwards, and nothing states which of
  two concurrent updates must win. Its last-completion-wins ordering is listed
  as a hazard in `PROJECT.json`.
- `UnexpectedError` and `ClientConfigurationError` are formatting only.
- `ui.js` is DOM code only.
- The `PopTokenGenerator` unit tests (`part_002`) are tests of a class that is
  not in `src/`. They assert the JSON fields of one payload built with
  stubbed crypto, and have no state or concurrency. The `signJwt` they stub
  is modelled in `KeyStore`.
- Server telemetry content: `ServerTelemetryManager` is not in `src/`. The
  throttling model records only whether the cache was cleared.

## Plan for later sittings

1. Compose the key store with a PoP token request through the throttling
   gate: a kid must still be stored when its request is signed.
2. Give the symmetric partition a contract once code that stores symmetric
   keys is in the excerpt.
