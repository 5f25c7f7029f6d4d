------------------------------ MODULE MCSignIn ------------------------------
(* Model-checking instance of SignIn: two interleaved invocations, each    *)
(* with every combination of username and password present or absent.     *)
EXTENDS SignIn, TLC

CONSTANTS f1, f2

MCCalls == {f1, f2}

(* Invocations are interchangeable model values.                           *)
MCSymmetry == Permutations(MCCalls)
=============================================================================
