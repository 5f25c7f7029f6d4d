--------------------------- MODULE MCSignInSample ---------------------------
(* Model-checking instance of the sign-in sample: two invocations of       *)
(* signin interleaved, each with every combination of username and         *)
(* password present or absent.                                             *)
EXTENDS SignInSample, TLC

CONSTANTS f1, f2

MCCalls == {f1, f2}

(* Invocations are interchangeable model values.                           *)
MCSymmetry == Permutations(MCCalls)
=============================================================================
