-------------------------- MODULE KeyStoreAbstract --------------------------
(***************************************************************************)
(* What the token-binding key store promises its users (the put / get /    *)
(* remove / clear contract of the asymmetric partition), with no callers,  *)
(* no awaits and no crypto: a map from kid to the key pair whose public    *)
(* key has that kid, changed by atomic operations.  A put under a kid that *)
(* is already present stores the same pair again, because the kid is the  *)
(* thumbprint of the public key.  get changes nothing and so is no step.   *)
(***************************************************************************)
CONSTANTS
    Keys,   \* key pairs; a pair's kid is the pair itself
    None    \* absence of an entry

VARIABLE store   \* kid -> stored pair, or None

(* The pair stored under a kid: that kid's public key with a private key   *)
(* that cannot be exported.                                                *)
StoredPair(kid) == [publicKey |-> kid, extractable |-> FALSE]

TypeOK == store \in [Keys -> {StoredPair(k) : k \in Keys} \cup {None}]

(* The store is persistent, so it may start with entries of an earlier     *)
(* session.                                                                *)
Init ==
    \E persisted \in SUBSET Keys :
        store = [k \in Keys |-> IF k \in persisted THEN StoredPair(k) ELSE None]

(* put(kid, pair): upsert of the pair the kid was computed from.           *)
Put(kid) == store' = [store EXCEPT ![kid] = StoredPair(kid)]

(* remove(kid): afterwards the kid is no longer retrievable.               *)
Remove(kid) == store' = [store EXCEPT ![kid] = None]

(* clear(): every entry is dropped.                                        *)
Clear == store' = [k \in Keys |-> None]

Next == Clear \/ \E kid \in Keys : Put(kid) \/ Remove(kid)

Spec == Init /\ [][Next]_store
=============================================================================
