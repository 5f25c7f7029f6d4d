--------------------------- MODULE KeyStoreProofs ---------------------------
(* Proofs about the CryptoOps key store, for every set of callers and of   *)
(* key pairs: a kid handed out by getPublicKeyThumbprint stays stored     *)
(* until it is removed or cleared, and the store implements its contract. *)
EXTENDS KeyStore, TLAPS

USE ConstantsAssumption

(* The kids a caller may pass are key-pair identifiers.                   *)
LEMMA KidArgumentsKeys == TypeOK => KidArguments \subseteq Keys
    BY DEF TypeOK, KidArguments

(* The inductive invariant holds in every initial state, whatever entries *)
(* an earlier page load persisted.                                         *)
LEMMA IInvInit == Init => IInv
<1> SUFFICES ASSUME Init PROVE IInv
    OBVIOUS
<1>1. PICK persisted \in SUBSET Keys :
        /\ asymmetricKeys = [k \in Keys |->
                               IF k \in persisted THEN CachedKeyPairOf(k)
                                                  ELSE None]
        /\ generated = persisted
        /\ returned = persisted
    BY DEF Init
<1>2. TypeOK
    <2>1. asymmetricKeys \in [Keys -> CachedKeyPair \cup {None}]
        BY <1>1 DEF CachedKeyPairOf, CachedKeyPair
    <2>2. None \in Results
        BY DEF Results, ResultRecords
    <2>3. QED
        BY <1>1, <2>1, <2>2 DEF Init, TypeOK
<1>3. \A k \in persisted : /\ asymmetricKeys[k] = CachedKeyPairOf(k)
                           /\ CachedKeyPairOf(k) \in CachedKeyPair
    BY <1>1 DEF CachedKeyPairOf, CachedKeyPair
<1>4. \A k \in Keys \ persisted : asymmetricKeys[k] = None
    BY <1>1
<1>5. ArgsDefined
    BY DEF Init, ArgsDefined
<1>7. HandedOutKeysRetained
    BY <1>1, <1>3 DEF Init, HandedOutKeysRetained
<1>8. EntriesMatchKids
    BY <1>3, <1>4 DEF EntriesMatchKids
<1>9. QED
    BY <1>2, <1>5, <1>7, <1>8 DEF IInv

(* Every step preserves the inductive invariant.                           *)
LEMMA IInvStep == IInv /\ [Next]_vars => IInv'
<1> SUFFICES ASSUME IInv, [Next]_vars PROVE IInv'
    OBVIOUS
<1>0. TypeOK /\ ArgsDefined /\ EntriesMatchKids /\ HandedOutKeysRetained
    BY DEF IInv
<1> USE DEF IInv, TypeOK, ArgsDefined, EntriesMatchKids, HandedOutKeysRetained
<1>1. ASSUME NEW c \in Callers, ThumbprintGenerate(c) PROVE IInv'
    BY <1>0, <1>1 DEF ThumbprintGenerate, Results, ResultRecords
<1>2. ASSUME NEW c \in Callers, ThumbprintStore(c) PROVE IInv'
    <2>1. arg[c] \in Keys /\ JwkThumbprint(arg[c]) = arg[c]
        BY <1>0, <1>2 DEF ThumbprintStore, JwkThumbprint
    <2>2. CachedKeyPairOf(arg[c]) \in CachedKeyPair
        BY <2>1 DEF CachedKeyPairOf, CachedKeyPair
    <2>3. [kind |-> "kid", kid |-> arg[c]] \in Results
        BY <2>1 DEF Results, ResultRecords
    <2>4. CASE /\ result' = [result EXCEPT ![c] = [kind |-> "CryptoError"]]
               /\ UNCHANGED <<asymmetricKeys, returned, revoked>>
        <3>1. [kind |-> "CryptoError"] \in Results
            BY DEF Results, ResultRecords
        <3>2. QED
            BY <1>0, <1>2, <2>4, <3>1 DEF ThumbprintStore
    <2>5. CASE /\ asymmetricKeys' = [asymmetricKeys EXCEPT
                                       ![arg[c]] = CachedKeyPairOf(arg[c])]
               /\ returned' = returned \cup {arg[c]}
               /\ revoked' = revoked \ {arg[c]}
               /\ result' = [result EXCEPT ![c] = [kind |-> "kid", kid |-> arg[c]]]
        BY <1>0, <1>2, <2>1, <2>2, <2>3, <2>5 DEF ThumbprintStore
    <2>6. QED
        BY <1>2, <2>1, <2>4, <2>5 DEF ThumbprintStore
<1>3. ASSUME NEW c \in Callers, NEW kid \in KidArguments, RemoveItem(c, kid)
      PROVE  IInv'
    <2>1. kid \in Keys /\ None \in Results
        BY <1>0, KidArgumentsKeys DEF Results
    <2>2. /\ asymmetricKeys' = [asymmetricKeys EXCEPT ![kid] = None]
          /\ revoked' = revoked \cup {kid}
          /\ pc' = [pc EXCEPT ![c] = "removing"]
          /\ arg' = [arg EXCEPT ![c] = kid]
          /\ pc[c] = "idle"
          /\ UNCHANGED returned
        BY <1>3 DEF RemoveItem
    <2>3. (HandedOutKeysRetained /\ EntriesMatchKids)'
        BY <1>0, <2>1, <2>2
    <2>4. (TypeOK /\ ArgsDefined)'
        BY <1>0, <1>3, <2>1 DEF RemoveItem
    <2>5. QED
        BY <2>3, <2>4
<1>4. ASSUME NEW c \in Callers, RemoveContainsKey(c) PROVE IInv'
    BY <1>0, <1>4 DEF RemoveContainsKey, Results, ResultRecords
<1>5. ASSUME NEW c \in Callers, ClearKeystore(c) PROVE IInv'
    <2>1. \A v \in BOOLEAN : [kind |-> "cleared", value |-> v] \in Results
        BY DEF Results, ResultRecords
    <2>2. UNCHANGED <<symmetricKeys, pc, arg, generated, returned, found>>
        BY <1>5 DEF ClearKeystore
    <2>3. CASE /\ asymmetricKeys' = [k \in Keys |-> None]
               /\ revoked' = revoked \cup {k \in Keys : asymmetricKeys[k] # None}
               /\ result' = [result EXCEPT ![c] = [kind |-> "cleared", value |-> TRUE]]
        BY <1>0, <2>1, <2>2, <2>3
    <2>4. CASE /\ result' = [result EXCEPT ![c] = [kind |-> "cleared", value |-> FALSE]]
               /\ UNCHANGED <<asymmetricKeys, revoked>>
        BY <1>0, <2>1, <2>2, <2>4
    <2>5. QED
        BY <1>5, <2>3, <2>4 DEF ClearKeystore
<1>6. ASSUME NEW c \in Callers, NEW kid \in KidArguments, SignJwtRead(c, kid)
      PROVE  IInv'
    <2>1. kid \in Keys
        BY <1>0, KidArgumentsKeys
    <2>3. [kind |-> "SigningKeyNotFound", kid |-> kid] \in Results
          /\ None \in Results
        BY <2>1 DEF Results, ResultRecords
    <2>4. UNCHANGED <<asymmetricKeys, symmetricKeys, generated, returned,
                      revoked, found>> /\ pc[c] = "idle"
        BY <1>6 DEF SignJwtRead
    <2>5. CASE asymmetricKeys[kid] = None
        <3>1. /\ result' = [result EXCEPT ![c] =
                              [kind |-> "SigningKeyNotFound", kid |-> kid]]
              /\ UNCHANGED <<pc, arg>>
            BY <1>6, <2>5 DEF SignJwtRead
        <3>2. QED
            BY <1>0, <2>3, <2>4, <3>1
    <2>6. CASE asymmetricKeys[kid] # None
        <3>1. /\ arg' = [arg EXCEPT ![c] = kid]
              /\ pc' = [pc EXCEPT ![c] = "signing"]
              /\ result' = [result EXCEPT ![c] = None]
            BY <1>6, <2>6 DEF SignJwtRead
        <3>2. QED
            BY <1>0, <2>1, <2>3, <2>4, <3>1
    <2>7. QED
        BY <2>5, <2>6
<1>7. ASSUME NEW c \in Callers, SignJwtFinish(c) PROVE IInv'
    <2>1. /\ [kind |-> "token", kid |-> arg[c]] \in Results
          /\ [kind |-> "CryptoError"] \in Results
        <3>1. arg[c] \in Keys
            BY <1>0, <1>7 DEF SignJwtFinish
        <3>2. QED
            BY <3>1 DEF Results, ResultRecords
    <2>2. /\ result'[c] \in Results
          /\ result' = [result EXCEPT ![c] = result'[c]]
        BY <1>0, <1>7, <2>1 DEF SignJwtFinish
    <2>3. /\ pc' = [pc EXCEPT ![c] = "idle"]
          /\ arg' = [arg EXCEPT ![c] = None]
          /\ UNCHANGED <<asymmetricKeys, symmetricKeys, generated, returned,
                         revoked, found>>
        BY <1>7 DEF SignJwtFinish
    <2>4. QED
        BY <1>0, <2>2, <2>3
<1>8. ASSUME NEW c \in Callers, NEW kid \in KidArguments,
             GetAsymmetricPublicKey(c, kid)
      PROVE  IInv'
    BY <1>0, <1>8, KidArgumentsKeys DEF GetAsymmetricPublicKey, Results, ResultRecords
<1>9. CASE UNCHANGED vars
    BY <1>0, <1>9 DEF vars
<1>10. ASSUME NEW c \in Callers, NEW kid \in KidArguments \cup SymKeys,
              DecryptBoundTokenResponse(c, kid)
       PROVE  IInv'
    <2>1. kid \in Keys \cup SymKeys
        BY <1>0, KidArgumentsKeys
    <2>2. result'[c] \in {[kind |-> "decrypted", kid |-> kid],
                          [kind |-> "null", kid |-> kid]}
          /\ result' = [result EXCEPT ![c] = result'[c]]
        BY <1>0, <1>10 DEF DecryptBoundTokenResponse
    <2>3. result'[c] \in Results
        BY <2>1, <2>2 DEF Results, ResultRecords
    <2>4. UNCHANGED <<asymmetricKeys, symmetricKeys, pc, arg, generated,
                      returned, revoked, found>>
        BY <1>10 DEF DecryptBoundTokenResponse
    <2>5. QED
        BY <1>0, <2>2, <2>3, <2>4
<1>11. QED
    BY <1>1, <1>2, <1>3, <1>4, <1>5, <1>6, <1>7, <1>8, <1>9, <1>10 DEF Next

(* A kid getPublicKeyThumbprint returned stays in the asymmetric store    *)
(* until removeTokenBindingKey or clearKeystore drops it after it was last *)
(* stored, whatever other calls interleave with it.                        *)
THEOREM RetainedHolds == Spec => []HandedOutKeysRetained
<1>1. IInv => HandedOutKeysRetained
    BY DEF IInv
<1>2. QED
    BY <1>1, IInvInit, IInvStep, PTL DEF Spec

(* Every reachable state of the key-store model is well typed.             *)
THEOREM TypeCorrect == Spec => []TypeOK
<1>1. IInv => TypeOK
    BY DEF IInv
<1>2. QED
    BY <1>1, IInvInit, IInvStep, PTL DEF Spec

(* The initial states of CryptoOps, whatever an earlier page load          *)
(* persisted, are initial states of the key-store contract.                *)
LEMMA RefinementInit == Init => Abstract!Init
<1> SUFFICES ASSUME Init PROVE Abstract!Init
    OBVIOUS
<1>1. PICK persisted \in SUBSET Keys :
        asymmetricKeys = [k \in Keys |->
                            IF k \in persisted THEN CachedKeyPairOf(k) ELSE None]
    BY DEF Init
<1>2. \A k \in Keys : CachedKeyPairOf(k) = Abstract!StoredPair(k)
    BY DEF CachedKeyPairOf, Abstract!StoredPair
<1>3. QED
    BY <1>1, <1>2 DEF Abstract!Init

(* Every step of CryptoOps is a put, a remove, a clear of the contract, or *)
(* leaves the asymmetric store unchanged.                                  *)
LEMMA RefinementStep ==
    IInv /\ [Next]_vars => [Abstract!Next]_asymmetricKeys
<1> SUFFICES ASSUME IInv, [Next]_vars PROVE [Abstract!Next]_asymmetricKeys
    OBVIOUS
<1>0. TypeOK /\ ArgsDefined
    BY DEF IInv
<1>1. ASSUME NEW c \in Callers, ThumbprintStore(c)
      PROVE  [Abstract!Next]_asymmetricKeys
    <2>1. arg[c] \in Keys /\ JwkThumbprint(arg[c]) = arg[c]
        BY <1>0, <1>1 DEF ThumbprintStore, ArgsDefined, JwkThumbprint
    <2>2. CachedKeyPairOf(arg[c]) = Abstract!StoredPair(arg[c])
        BY DEF CachedKeyPairOf, Abstract!StoredPair
    <2>3. CASE asymmetricKeys' = [asymmetricKeys EXCEPT
                                    ![arg[c]] = CachedKeyPairOf(arg[c])]
        BY <2>1, <2>2, <2>3 DEF Abstract!Next, Abstract!Put
    <2>4. QED
        BY <1>1, <2>1, <2>3 DEF ThumbprintStore
<1>2. ASSUME NEW c \in Callers, NEW kid \in KidArguments, RemoveItem(c, kid)
      PROVE  [Abstract!Next]_asymmetricKeys
    BY <1>0, <1>2, KidArgumentsKeys DEF RemoveItem, Abstract!Next, Abstract!Remove
<1>3. ASSUME NEW c \in Callers, ClearKeystore(c)
      PROVE  [Abstract!Next]_asymmetricKeys
    BY <1>3 DEF ClearKeystore, Abstract!Next, Abstract!Clear
<1>4. ASSUME NEW c \in Callers,
             \/ ThumbprintGenerate(c)
             \/ RemoveContainsKey(c)
             \/ SignJwtFinish(c)
             \/ \E kid \in KidArguments : SignJwtRead(c, kid)
             \/ \E kid \in KidArguments : GetAsymmetricPublicKey(c, kid)
             \/ \E kid \in KidArguments \cup SymKeys :
                   DecryptBoundTokenResponse(c, kid)
      PROVE  UNCHANGED asymmetricKeys
    BY <1>4 DEF ThumbprintGenerate, RemoveContainsKey, SignJwtFinish,
                SignJwtRead, GetAsymmetricPublicKey, DecryptBoundTokenResponse
<1>5. CASE UNCHANGED vars
    BY <1>5 DEF vars
<1>6. QED
    BY <1>1, <1>2, <1>3, <1>4, <1>5 DEF Next

(* CryptoOps implements the key-store contract of spec section 4.1 on its  *)
(* asymmetric partition, for any callers and key pairs: however the calls  *)
(* interleave at their awaits, the store changes only by atomic puts of    *)
(* the pair a kid was computed from, removes and clears.                   *)
THEOREM Refinement == Spec => ImplementsKeyStoreContract
<1>1. IInv /\ [][Next]_vars => [][[Abstract!Next]_asymmetricKeys]_asymmetricKeys
    <2>1. IInv /\ [Next]_vars => [Abstract!Next]_asymmetricKeys
        BY RefinementStep
    <2>2. QED
        BY <2>1, IInvStep, PTL
<1>2. QED
    BY <1>1, RefinementInit, IInvInit, IInvStep, PTL
       DEF Spec, ImplementsKeyStoreContract, Abstract!Spec
=============================================================================
