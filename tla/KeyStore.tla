------------------------------ MODULE KeyStore ------------------------------
(***************************************************************************)
(* The token-binding key store of CryptoOps (msal-browser): the            *)
(* asymmetric and symmetric partitions of the CryptoKeyStore and the       *)
(* operations that create, read and drop proof-of-possession keys:         *)
(* getPublicKeyThumbprint, removeTokenBindingKey, clearKeystore, signJwt   *)
(* and getAsymmetricPublicKey.  Each operation is async; concurrent calls  *)
(* (Callers) interleave at its awaits, and a step here is the code between *)
(* two awaits that touch the store.  Crypto primitives are external: each  *)
(* may reject, which the code propagates.  A key pair is a model value of  *)
(* Keys; JwkThumbprint maps it to the kid it is stored under.  The store   *)
(* is backed by IndexedDB, so it may start with entries persisted by an    *)
(* earlier page load.                                                      *)
(***************************************************************************)
EXTENDS FiniteSets

CONSTANTS
    Callers,   \* concurrent async calls into one CryptoOps instance
    Keys,      \* key pairs the crypto capability can generate
    SymKeys,   \* identifiers of symmetric keys
    None       \* absence (no entry, no result)

(* A cached key pair: its public key, and whether its private key can be   *)
(* exported.                                                               *)
CachedKeyPair == [publicKey: Keys, extractable: BOOLEAN]

(* The results a call settles with: a kid, a token, a public key, a       *)
(* removal or wipe report, a decryption, or one of the errors thrown.      *)
ResultRecords ==
    [kind: {"kid", "SigningKeyNotFound", "token", "publicKey"}, kid: Keys]
    \cup [kind: {"KeyGenerationFailed", "CryptoError"}]
    \cup [kind: {"removed"}, kid: Keys, value: BOOLEAN]
    \cup [kind: {"cleared"}, value: BOOLEAN]
    \cup [kind: {"decrypted", "null"}, kid: Keys \cup SymKeys]

(* None models absence (undefined, null): it is no key pair, cached pair   *)
(* or result.                                                              *)
ASSUME ConstantsAssumption ==
    /\ IsFiniteSet(Keys)
    /\ None \notin Keys \cup CachedKeyPair \cup ResultRecords

Results == {None} \cup ResultRecords

VARIABLES
    asymmetricKeys, \* cache.asymmetricKeys: kid -> CachedKeyPair or None
    symmetricKeys,  \* cache.symmetricKeys: the stored symmetric key ids
    pc,             \* per caller: "idle", "storing", "removing", "signing"
    arg,            \* per caller: the generated key pair, or the kid argument
    result,         \* per caller: result of its last call
    generated,      \* history: key pairs generated so far
    returned,       \* history: kids handed to callers
    revoked,        \* history: kids removed or wiped since last stored
    found           \* history, per caller: removeItem found an entry

vars == <<asymmetricKeys, symmetricKeys, pc, arg, result,
          generated, returned, revoked, found>>

TypeOK ==
    /\ asymmetricKeys \in [Keys -> CachedKeyPair \cup {None}]
    /\ symmetricKeys \subseteq SymKeys
    /\ pc \in [Callers -> {"idle", "storing", "removing", "signing"}]
    /\ arg \in [Callers -> Keys \cup {None}]
    /\ result \in [Callers -> Results]
    /\ generated \subseteq Keys
    /\ returned \subseteq Keys
    /\ revoked \subseteq Keys
    /\ found \in [Callers -> BOOLEAN]

-----------------------------------------------------------------------------
(* Mutant: the canonical JWK leaves out the modulus n, so every key pair   *)
(* of the same type gets the same thumbprint.                              *)
JwkThumbprintWithoutModulus(key) == CHOOSE k \in Keys : TRUE

(* SHA-256 of the canonical {e, kty, n} JWK: distinct keys, distinct kids. *)
JwkThumbprint(key) == key

(* The entry getPublicKeyThumbprint stores: the re-imported, unextractable *)
(* private key with the public key.                                        *)
CachedKeyPairOf(key) == [publicKey |-> key, extractable |-> FALSE]

(* The kids a caller may pass: ones handed out earlier, or a kid no key    *)
(* pair of this store ever had (a foreign or stale kid).                   *)
KidArguments == returned \cup (Keys \ generated)

Init ==
    /\ \E persisted \in SUBSET Keys :
          /\ asymmetricKeys = [k \in Keys |->
                                 IF k \in persisted THEN CachedKeyPairOf(k)
                                                    ELSE None]
          /\ generated = persisted
          /\ returned = persisted
    /\ symmetricKeys \in SUBSET SymKeys
    /\ pc = [c \in Callers |-> "idle"]
    /\ arg = [c \in Callers |-> None]
    /\ result = [c \in Callers |-> None]
    /\ revoked = {}
    /\ found = [c \in Callers |-> FALSE]

-----------------------------------------------------------------------------
(* Mutant: the kid is handed out before the awaited setItem has stored it. *)
ThumbprintGenerateReturnsEarly(c) ==
    /\ pc[c] = "idle"
    /\ \/ /\ result' = [result EXCEPT ![c] = [kind |-> "KeyGenerationFailed"]]
          /\ UNCHANGED <<pc, arg, generated, returned>>
       \/ \E key \in Keys \ generated :
             /\ generated' = generated \cup {key}
             /\ arg' = [arg EXCEPT ![c] = key]
             /\ pc' = [pc EXCEPT ![c] = "storing"]
             /\ result' = [result EXCEPT ![c] =
                             [kind |-> "kid", kid |-> JwkThumbprint(key)]]
             /\ returned' = returned \cup {JwkThumbprint(key)}
    /\ UNCHANGED <<asymmetricKeys, symmetricKeys, revoked, found>>

(* getPublicKeyThumbprint, up to its first await: generateKeyPairHelper    *)
(* either throws KeyGenerationFailed (also thrown when a half of the pair  *)
(* is missing), or yields a fresh key pair.                                *)
ThumbprintGenerate(c) ==
    /\ pc[c] = "idle"
    /\ \/ /\ result' = [result EXCEPT ![c] = [kind |-> "KeyGenerationFailed"]]
          /\ UNCHANGED <<pc, arg, generated, returned>>
       \/ \E key \in Keys \ generated :
             /\ generated' = generated \cup {key}
             /\ arg' = [arg EXCEPT ![c] = key]
             /\ pc' = [pc EXCEPT ![c] = "storing"]
             /\ result' = [result EXCEPT ![c] = None]
             /\ UNCHANGED returned
    /\ UNCHANGED <<asymmetricKeys, symmetricKeys, revoked, found>>

(* The rest of getPublicKeyThumbprint: export and hash the public JWK,     *)
(* export and re-import the private key unextractable, setItem under the   *)
(* thumbprint and return it.  Any of these crypto calls may reject.        *)
ThumbprintStore(c) ==
    /\ pc[c] = "storing"
    /\ LET kid == JwkThumbprint(arg[c]) IN
          \/ /\ result' = [result EXCEPT ![c] = [kind |-> "CryptoError"]]
             /\ UNCHANGED <<asymmetricKeys, returned, revoked>>
          \/ /\ asymmetricKeys' = [asymmetricKeys EXCEPT
                                     ![kid] = CachedKeyPairOf(arg[c])]
             /\ returned' = returned \cup {kid}
             /\ revoked' = revoked \ {kid}
             /\ result' = [result EXCEPT ![c] = [kind |-> "kid", kid |-> kid]]
    /\ pc' = [pc EXCEPT ![c] = "idle"]
    /\ arg' = [arg EXCEPT ![c] = None]
    /\ UNCHANGED <<symmetricKeys, generated, found>>

(* removeTokenBindingKey, up to the await of removeItem.                   *)
RemoveItem(c, kid) ==
    /\ pc[c] = "idle"
    /\ asymmetricKeys' = [asymmetricKeys EXCEPT ![kid] = None]
    /\ found' = [found EXCEPT ![c] = asymmetricKeys[kid] # None]
    /\ revoked' = revoked \cup {kid}
    /\ arg' = [arg EXCEPT ![c] = kid]
    /\ pc' = [pc EXCEPT ![c] = "removing"]
    /\ result' = [result EXCEPT ![c] = None]
    /\ UNCHANGED <<symmetricKeys, generated, returned>>

(* removeTokenBindingKey resumes: return !containsKey(kid).                *)
RemoveContainsKey(c) ==
    /\ pc[c] = "removing"
    /\ result' = [result EXCEPT ![c] =
                    [kind |-> "removed", kid |-> arg[c],
                     value |-> asymmetricKeys[arg[c]] = None]]
    /\ pc' = [pc EXCEPT ![c] = "idle"]
    /\ arg' = [arg EXCEPT ![c] = None]
    /\ UNCHANGED <<asymmetricKeys, symmetricKeys, generated, returned,
                   revoked, found>>

(* clearKeystore: deleteDatabase on the first store of the CryptoKeyStore  *)
(* (Object.keys order: asymmetricKeys); it reports whether the wipe        *)
(* succeeded.                                                              *)
ClearKeystore(c) ==
    /\ pc[c] = "idle"
    /\ \/ /\ asymmetricKeys' = [k \in Keys |-> None]
          /\ revoked' = revoked \cup {k \in Keys : asymmetricKeys[k] # None}
          /\ result' = [result EXCEPT ![c] = [kind |-> "cleared", value |-> TRUE]]
       \/ /\ result' = [result EXCEPT ![c] = [kind |-> "cleared", value |-> FALSE]]
          /\ UNCHANGED <<asymmetricKeys, revoked>>
    /\ UNCHANGED <<symmetricKeys, pc, arg, generated, returned, found>>

(* signJwt, up to the await of getItem(kid): a miss throws                 *)
(* SigningKeyNotFoundInStorage; on a hit the pair read is used to sign.   *)
SignJwtRead(c, kid) ==
    /\ pc[c] = "idle"
    /\ \/ /\ asymmetricKeys[kid] = None
          /\ result' = [result EXCEPT ![c] =
                          [kind |-> "SigningKeyNotFound", kid |-> kid]]
          /\ UNCHANGED <<pc, arg>>
       \/ /\ asymmetricKeys[kid] # None
          /\ arg' = [arg EXCEPT ![c] = kid]
          /\ pc' = [pc EXCEPT ![c] = "signing"]
          /\ result' = [result EXCEPT ![c] = None]
    /\ UNCHANGED <<asymmetricKeys, symmetricKeys, generated, returned,
                   revoked, found>>

(* The rest of signJwt: export the public JWK, build header and payload,   *)
(* sign with the private key read before, and return the compact JWT.     *)
SignJwtFinish(c) ==
    /\ pc[c] = "signing"
    /\ \/ result' = [result EXCEPT ![c] = [kind |-> "token", kid |-> arg[c]]]
       \/ result' = [result EXCEPT ![c] = [kind |-> "CryptoError"]]
    /\ pc' = [pc EXCEPT ![c] = "idle"]
    /\ arg' = [arg EXCEPT ![c] = None]
    /\ UNCHANGED <<asymmetricKeys, symmetricKeys, generated, returned,
                   revoked, found>>

(* getAsymmetricPublicKey: getItem, then export of the public key alone.   *)
GetAsymmetricPublicKey(c, kid) ==
    /\ pc[c] = "idle"
    /\ result' = [result EXCEPT ![c] =
                    IF asymmetricKeys[kid] = None
                      THEN [kind |-> "SigningKeyNotFound", kid |-> kid]
                      ELSE [kind |-> "publicKey", kid |-> kid]]
    /\ UNCHANGED <<asymmetricKeys, symmetricKeys, pc, arg, generated,
                   returned, revoked, found>>

(* decryptBoundTokenResponse: a BoundTokenResponse over this.cache looks   *)
(* the request's key up in either partition and decrypts with it; a       *)
(* missing key or a failed integrity check resolves to null (section 4.3, *)
(* BoundTokenResponse is not in this excerpt).  No store changes.         *)
DecryptBoundTokenResponse(c, kid) ==
    /\ pc[c] = "idle"
    /\ LET stored == IF kid \in Keys THEN asymmetricKeys[kid] # None
                                     ELSE kid \in symmetricKeys
       IN  \/ /\ stored
              /\ result' = [result EXCEPT ![c] = [kind |-> "decrypted", kid |-> kid]]
           \/ result' = [result EXCEPT ![c] = [kind |-> "null", kid |-> kid]]
    /\ UNCHANGED <<asymmetricKeys, symmetricKeys, pc, arg, generated,
                   returned, revoked, found>>

Next ==
    \E c \in Callers :
        \/ ThumbprintGenerate(c)
        \/ ThumbprintStore(c)
        \/ \E kid \in KidArguments : RemoveItem(c, kid)
        \/ RemoveContainsKey(c)
        \/ ClearKeystore(c)
        \/ \E kid \in KidArguments : SignJwtRead(c, kid)
        \/ SignJwtFinish(c)
        \/ \E kid \in KidArguments : GetAsymmetricPublicKey(c, kid)
        \/ \E kid \in KidArguments \cup SymKeys : DecryptBoundTokenResponse(c, kid)

Spec == Init /\ [][Next]_vars

-----------------------------------------------------------------------------
(* Properties.                                                             *)

(* A kid handed out by getPublicKeyThumbprint stays in the store, so that  *)
(* signJwt and getAsymmetricPublicKey find it, until removeTokenBindingKey *)
(* or clearKeystore drops it after it was last stored: no other caller's   *)
(* step loses it, and a remove that ran before the kid was stored does not *)
(* excuse losing it later.                                                 *)
HandedOutKeysRetained ==
    \A k \in returned \ revoked : asymmetricKeys[k] # None

(* The key store with its callers and awaits implements the put / get /   *)
(* remove / clear contract of spec section 4.1 on the asymmetric           *)
(* partition: every step either leaves the store alone or is one atomic    *)
(* put of the pair a kid was computed from, one remove or one clear, so an *)
(* entry is never overwritten with another key pair.                       *)
Abstract == INSTANCE KeyStoreAbstract WITH store <- asymmetricKeys

ImplementsKeyStoreContract == Abstract!Spec

-----------------------------------------------------------------------------
(* Inductive invariant (checked by TLC, proved in KeyStoreProofs).         *)

(* A caller between two awaits holds the key pair or kid it works on.      *)
ArgsDefined ==
    \A c \in Callers : pc[c] # "idle" => arg[c] \in Keys

(* Every entry is the pair its kid was computed from.                      *)
EntriesMatchKids ==
    \A k \in Keys : asymmetricKeys[k] \in {None, CachedKeyPairOf(k)}

IInv == /\ TypeOK /\ ArgsDefined /\ EntriesMatchKids /\ HandedOutKeysRetained

-----------------------------------------------------------------------------
(* Section 8: removeTokenBindingKey returns true only if the key was       *)
(* actually removed.                                                       *)
RemoveReportsRemoval ==
    \A c \in Callers :
        result[c] # None /\ result[c].kind = "removed" /\ result[c].value =>
            found[c]

(* Sections 4.1 and 8: clearKeystore drops all entries across both the     *)
(* asymmetric and the symmetric partitions.                                *)
ClearEmptiesAllPartitions ==
    [][\A c \in Callers :
          ClearKeystore(c) /\ result'[c].value
              => /\ symmetricKeys' = {}
                 /\ \A k \in Keys : asymmetricKeys'[k] = None]_vars

=============================================================================
