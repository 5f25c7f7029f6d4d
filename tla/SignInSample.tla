---------------------------- MODULE SignInSample ----------------------------
(***************************************************************************)
(* The native-auth sign-in sample (function signin) composed with the      *)
(* application and controller of SignIn.  Each invocation of Calls creates *)
(* its own application, awaits its signIn, and then follows the result:    *)
(* an error result is handled and returned; a completed flow uses the     *)
(* account; a code-required state awaits submitCode and a password-        *)
(* required state awaits sumbmitPassword, each of which is checked for     *)
(* isSuccess before its data is used as the account.  The account is used  *)
(* through two awaited calls (getAccessToken, signOut) that the sample     *)
(* does not guard, so either may reject the sample's promise.  The state   *)
(* handlers and AccountInfo are not in this excerpt: their answers are     *)
(* chosen nondeterministically.  The second SignInCodeRequiredState branch *)
(* (resend code) tests the condition of the first one, which returns on    *)
(* every path, so it can never run and has no step here.                   *)
(***************************************************************************)
EXTENDS SignIn

VARIABLES
    sample,      \* per call: where the sample function is
    codeAnswer,  \* history, per call: what submitCode resolved with
    pwAnswer     \* history, per call: what sumbmitPassword resolved with

sampleVars == <<sample, codeAnswer, pwAnswer>>

allVars == <<vars, sampleVars>>

SamplePhases == {"idle", "awaitingSignIn", "submittingCode",
                 "submittingPassword", "usingAccount", "returned",
                 "signedIn", "rejected"}

SampleTypeOK ==
    /\ TypeOK
    /\ sample \in [Calls -> SamplePhases]
    /\ codeAnswer \in [Calls -> {None, "account", "error"}]
    /\ pwAnswer \in [Calls -> {None, "account", "error"}]

SampleInit ==
    /\ Init
    /\ sample = [f \in Calls |-> "idle"]
    /\ codeAnswer = [f \in Calls |-> None]
    /\ pwAnswer = [f \in Calls |-> None]

-----------------------------------------------------------------------------
(* The sample's username and optional password go to app.signIn.           *)
SampleStart(f, in) ==
    /\ sample[f] = "idle"
    /\ SignInStart(f, in)
    /\ sample' = [sample EXCEPT ![f] = "awaitingSignIn"]
    /\ UNCHANGED <<codeAnswer, pwAnswer>>

(* The controller's awaits settle; the sample is still waiting.            *)
ControllerStep(f) ==
    /\ StartAnswered(f) \/ SubmitPasswordAnswered(f)
    /\ UNCHANGED sampleVars

(* await app.signIn resolves: !isSuccess returns, isFlowCompleted() uses   *)
(* the account, and the state handler decides which answer is awaited.     *)
SampleSignInResolved(f) ==
    /\ sample[f] = "awaitingSignIn"
    /\ phase[f] = "done"
    /\ sample' = [sample EXCEPT ![f] =
                    CASE result[f] \in {"Error", "InvalidArgument"} -> "returned"
                      [] result[f] = "Completed" -> "usingAccount"
                      [] result[f] = "CodeRequired" -> "submittingCode"
                      [] result[f] = "PasswordRequired" -> "submittingPassword"]
    /\ UNCHANGED <<vars, codeAnswer, pwAnswer>>

(* Mutant: the isSuccess check after submitCode is dropped, so the data of *)
(* a failed result is used as the account.                                 *)
SampleCodeAnsweredUnchecked(f) ==
    /\ sample[f] = "submittingCode"
    /\ \E a \in {"account", "error"} :
          codeAnswer' = [codeAnswer EXCEPT ![f] = a]
    /\ sample' = [sample EXCEPT ![f] = "usingAccount"]
    /\ UNCHANGED <<vars, pwAnswer>>

(* await result.state.submitCode(code) resolves; !isSuccess returns.       *)
SampleCodeAnswered(f) ==
    /\ sample[f] = "submittingCode"
    /\ \E a \in {"account", "error"} :
          /\ codeAnswer' = [codeAnswer EXCEPT ![f] = a]
          /\ sample' = [sample EXCEPT ![f] =
                          IF a = "account" THEN "usingAccount" ELSE "returned"]
    /\ UNCHANGED <<vars, pwAnswer>>

(* await result.state.sumbmitPassword(pwd) resolves; !isSuccess returns.   *)
SamplePasswordAnswered(f) ==
    /\ sample[f] = "submittingPassword"
    /\ \E a \in {"account", "error"} :
          /\ pwAnswer' = [pwAnswer EXCEPT ![f] = a]
          /\ sample' = [sample EXCEPT ![f] =
                          IF a = "account" THEN "usingAccount" ELSE "returned"]
    /\ UNCHANGED <<vars, codeAnswer>>

(* getAccount, getIdToken, then await getAccessToken and await signOut:    *)
(* the sample returns, or one of the awaits rejects its promise.           *)
SampleUseAccount(f) ==
    /\ sample[f] = "usingAccount"
    /\ \E s \in {"signedIn", "rejected"} : sample' = [sample EXCEPT ![f] = s]
    /\ UNCHANGED <<vars, codeAnswer, pwAnswer>>

SampleNext ==
    \E f \in Calls :
        \/ \E in \in Inputs : SampleStart(f, in)
        \/ ControllerStep(f)
        \/ SampleSignInResolved(f)
        \/ SampleCodeAnswered(f)
        \/ SamplePasswordAnswered(f)
        \/ SampleUseAccount(f)

SampleSpec == SampleInit /\ [][SampleNext]_allVars

-----------------------------------------------------------------------------
(* The sample uses an account only when the service issued one to this     *)
(* invocation on the path its signIn result selected: a completed signIn   *)
(* whose submitPassword returned the account, or a code-required or        *)
(* password-required state whose submitCode or sumbmitPassword succeeded.  *)
(* It is about the isSuccess checks after each await of signin and the    *)
(* controller's dispatch on the start result.                              *)
SampleUsesIssuedAccount ==
    \A f \in Calls :
        sample[f] \in {"usingAccount", "signedIn", "rejected"} =>
            \/ result[f] = "Completed" /\ submitAnswer[f] = "account"
            \/ result[f] = "CodeRequired" /\ codeAnswer[f] = "account"
            \/ result[f] = "PasswordRequired" /\ pwAnswer[f] = "account"

-----------------------------------------------------------------------------
(* Inductive invariant (checked by TLC, proved in SignInProofs).           *)

(* The sample's progress matches its signIn call: the call starts with the *)
(* sample, its result is final once the sample reads it, and each state    *)
(* handler is awaited only for the result that carries it.  The sample     *)
(* calls only signIn, so no call ends in "Method not implemented".         *)
SampleHistory ==
    \A f \in Calls :
        /\ result[f] # "NotImplemented"
        /\ sample[f] = "idle" => phase[f] = "idle"
        /\ sample[f] = "awaitingSignIn" => phase[f] # "idle"
        /\ sample[f] \in {"idle", "awaitingSignIn"} =>
              codeAnswer[f] = None /\ pwAnswer[f] = None
        /\ sample[f] \notin {"idle", "awaitingSignIn"} => phase[f] = "done"
        /\ sample[f] = "submittingCode" =>
              result[f] = "CodeRequired" /\ codeAnswer[f] = None
        /\ sample[f] = "submittingPassword" =>
              result[f] = "PasswordRequired" /\ pwAnswer[f] = None

SampleIInv == /\ IInv /\ SampleTypeOK /\ SampleHistory
              /\ SampleUsesIssuedAccount

=============================================================================
