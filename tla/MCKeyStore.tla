----------------------------- MODULE MCKeyStore -----------------------------
(* Model-checking instance of KeyStore: two concurrent calls, three key    *)
(* pairs (so a store can start with persisted entries and still generate,  *)
(* and a foreign kid exists), and one symmetric key.                       *)
EXTENDS KeyStore, TLC

CONSTANTS c1, c2, k1, k2, k3, s1

MCCallers == {c1, c2}
MCKeys == {k1, k2, k3}
MCSymKeys == {s1}

(* Callers and key pairs are interchangeable model values.                 *)
MCSymmetry == Permutations(MCCallers) \cup Permutations(MCKeys)
=============================================================================
