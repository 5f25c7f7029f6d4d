------------------------------- MODULE SignIn -------------------------------
(***************************************************************************)
(* The native-auth sign-in entry points.  NativeAuthPublicClientApplication *)
(* is constructed with a configuration and, optionally, a controller; its  *)
(* signIn delegates to a NativeAuthStandardController, whose signIn checks *)
(* the username, awaits signInClient.start, and depending on the start     *)
(* result returns a password-required state, awaits submitPassword, or     *)
(* returns a code-required state; any exception becomes an error result.  *)
(* signUp, resetPassword and getCurrentAccount of the application throw.   *)
(* Each call of Calls is one invocation, interleaved with the others at    *)
(* its awaits.  The sign-in service answers each request nondeterministically. *)
(***************************************************************************)

CONSTANTS
    Calls,                \* invocations on one application instance
    ControllerSupplied,   \* the constructor received a controller argument
    None

(* The SignInInputs of a call: whether username and password are given.    *)
Inputs == [username: BOOLEAN, password: BOOLEAN]

(* What signInClient.start resolves to or whether it rejects.              *)
StartAnswers == {"continuationToken", "codeSend", "otherType", "rejects"}

(* Results of part_000 and of the thrown errors: an error result, a result *)
(* carrying the next state handler, one carrying the account, or a throw.  *)
Results == {None, "InvalidArgument", "Error", "PasswordRequired",
            "CodeRequired", "Completed", "NotImplemented"}

(* None is none of the values a call's input, answers and results take.  *)
ASSUME ConstantsAssumption ==
    /\ ControllerSupplied \in BOOLEAN
    /\ None \notin Inputs \cup StartAnswers
    /\ None \notin {"InvalidArgument", "Error", "PasswordRequired",
                    "CodeRequired", "Completed", "NotImplemented"}
    /\ None \notin {"account", "rejects", "default", "supplied", "error"}

VARIABLES
    phase,        \* per call: "idle", "starting", "submitting", "done"
    input,        \* per call: its SignInInputs
    result,       \* per call: what the call resolved or rejected with
    handledBy,    \* per call: controller that served it ("default"/"supplied")
    startAnswer,  \* history, per call: the start answer received
    submitAnswer  \* history, per call: the submitPassword answer received

vars == <<phase, input, result, handledBy, startAnswer, submitAnswer>>

TypeOK ==
    /\ phase \in [Calls -> {"idle", "starting", "submitting", "done"}]
    /\ input \in [Calls -> Inputs \cup {None}]
    /\ result \in [Calls -> Results]
    /\ handledBy \in [Calls -> {None, "default", "supplied"}]
    /\ startAnswer \in [Calls -> StartAnswers \cup {None}]
    /\ submitAnswer \in [Calls -> {None, "account", "rejects"}]

Init ==
    /\ phase = [f \in Calls |-> "idle"]
    /\ input = [f \in Calls |-> None]
    /\ result = [f \in Calls |-> None]
    /\ handledBy = [f \in Calls |-> None]
    /\ startAnswer = [f \in Calls |-> None]
    /\ submitAnswer = [f \in Calls |-> None]

-----------------------------------------------------------------------------
(* The controller the application delegates signIn to: the constructor     *)
(* hands `controller || nativeAuthController` to the base class but keeps  *)
(* nativeAuthController, its own default, for signIn.                      *)
SignInController == "default"

(* Mutant: the username check is skipped.                                  *)
UsernameMissingUnchecked(in) == FALSE

(* `!signInOptions.username`: an empty or absent username.                 *)
UsernameMissing(in) == ~in.username

(* application.signIn -> controller.signIn, up to the await of             *)
(* signInClient.start; a missing username resolves at once with an         *)
(* InvalidArgumentError result.                                            *)
SignInStart(f, in) ==
    /\ phase[f] = "idle"
    /\ input' = [input EXCEPT ![f] = in]
    /\ handledBy' = [handledBy EXCEPT ![f] = SignInController]
    /\ \/ /\ UsernameMissing(in)
          /\ result' = [result EXCEPT ![f] = "InvalidArgument"]
          /\ phase' = [phase EXCEPT ![f] = "done"]
       \/ /\ ~UsernameMissing(in)
          /\ phase' = [phase EXCEPT ![f] = "starting"]
          /\ UNCHANGED result
    /\ UNCHANGED <<startAnswer, submitAnswer>>

(* Mutant: the code-send response is not recognised (its instanceof test   *)
(* fails), so it falls through to UnexpectedError and an error result.     *)
StartResolvedCodeSendUnrecognised(f, a) ==
    \/ /\ a = "continuationToken" /\ ~input[f].password
       /\ result' = [result EXCEPT ![f] = "PasswordRequired"]
       /\ phase' = [phase EXCEPT ![f] = "done"]
    \/ /\ a = "continuationToken" /\ input[f].password
       /\ phase' = [phase EXCEPT ![f] = "submitting"]
       /\ UNCHANGED result
    \/ /\ a \in {"codeSend", "otherType", "rejects"}
       /\ result' = [result EXCEPT ![f] = "Error"]
       /\ phase' = [phase EXCEPT ![f] = "done"]

(* The dispatch on the start result: a continuation token without a        *)
(* password returns SignInPasswordRequiredState, with one goes on to       *)
(* submitPassword; a code-send response returns SignInCodeRequiredState;   *)
(* any other type throws UnexpectedError, which like a rejection of start  *)
(* is caught and returned as an error result.                              *)
StartResolved(f, a) ==
    \/ /\ a = "continuationToken" /\ ~input[f].password
       /\ result' = [result EXCEPT ![f] = "PasswordRequired"]
       /\ phase' = [phase EXCEPT ![f] = "done"]
    \/ /\ a = "continuationToken" /\ input[f].password
       /\ phase' = [phase EXCEPT ![f] = "submitting"]
       /\ UNCHANGED result
    \/ /\ a = "codeSend"
       /\ result' = [result EXCEPT ![f] = "CodeRequired"]
       /\ phase' = [phase EXCEPT ![f] = "done"]
    \/ /\ a \in {"otherType", "rejects"}
       /\ result' = [result EXCEPT ![f] = "Error"]
       /\ phase' = [phase EXCEPT ![f] = "done"]

(* signInClient.start settles.                                             *)
StartAnswered(f) ==
    /\ phase[f] = "starting"
    /\ \E a \in StartAnswers :
          /\ startAnswer' = [startAnswer EXCEPT ![f] = a]
          /\ StartResolved(f, a)
    /\ UNCHANGED <<input, handledBy, submitAnswer>>

(* signInClient.submitPassword settles: the account result, or the caught  *)
(* rejection.                                                              *)
SubmitPasswordAnswered(f) ==
    /\ phase[f] = "submitting"
    /\ \E a \in {"account", "rejects"} :
          /\ submitAnswer' = [submitAnswer EXCEPT ![f] = a]
          /\ result' = [result EXCEPT ![f] =
                          IF a = "account" THEN "Completed" ELSE "Error"]
    /\ phase' = [phase EXCEPT ![f] = "done"]
    /\ UNCHANGED <<input, handledBy, startAnswer>>

(* application.signUp, resetPassword, getCurrentAccount: throw "Method not *)
(* implemented" before reaching any controller.                            *)
NotImplementedCall(f) ==
    /\ phase[f] = "idle"
    /\ result' = [result EXCEPT ![f] = "NotImplemented"]
    /\ phase' = [phase EXCEPT ![f] = "done"]
    /\ UNCHANGED <<input, handledBy, startAnswer, submitAnswer>>

(* NativeAuthStandardController.signUp and resetPassword called on the    *)
(* controller itself: a missing username resolves with an                  *)
(* InvalidArgumentError result, any other input throws "Method not         *)
(* implemented"; getCurrentAccount always throws.                          *)
ControllerUnimplementedCall(f, in) ==
    /\ phase[f] = "idle"
    /\ \/ /\ UsernameMissing(in)
          /\ result' = [result EXCEPT ![f] = "InvalidArgument"]
       \/ result' = [result EXCEPT ![f] = "NotImplemented"]
    /\ input' = [input EXCEPT ![f] = in]
    /\ phase' = [phase EXCEPT ![f] = "done"]
    /\ UNCHANGED <<handledBy, startAnswer, submitAnswer>>

Next ==
    \E f \in Calls :
        \/ \E in \in Inputs : SignInStart(f, in)
        \/ StartAnswered(f)
        \/ SubmitPasswordAnswered(f)
        \/ NotImplementedCall(f)
        \/ \E in \in Inputs : ControllerUnimplementedCall(f, in)

Spec == Init /\ [][Next]_vars

-----------------------------------------------------------------------------
(* Properties.                                                             *)

(* Part of the inductive invariant: each call's result so far matches what *)
(* the service answered that call, which the contract refinement needs: an *)
(* account only after start issued a continuation token, the caller gave a *)
(* password and submitPassword returned the account; a password-required   *)
(* state only for a continuation token without password; a code-required  *)
(* state only after a code-send answer; and no request is sent for a call *)
(* without a username.                                                     *)
SignInOutcomeConsistent ==
    \A f \in Calls :
        /\ result[f] = "Completed" =>
              /\ startAnswer[f] = "continuationToken"
              /\ input[f].password
              /\ submitAnswer[f] = "account"
        /\ result[f] = "PasswordRequired" =>
              startAnswer[f] = "continuationToken" /\ ~input[f].password
        /\ result[f] = "CodeRequired" => startAnswer[f] = "codeSend"
        /\ startAnswer[f] # None => input[f].username

(* signIn implements its contract (SignInAbstract): observed when they     *)
(* return, interleaved calls behave as atomic calls whose result is the   *)
(* one the controller's dispatch prescribes for their own input and their  *)
(* own service answers.                                                    *)
ReturnedCall ==
    [f \in Calls |->
        IF phase[f] = "done"
          THEN [input |-> input[f], start |-> startAnswer[f],
                submit |-> submitAnswer[f], result |-> result[f]]
          ELSE None]

Contract == INSTANCE SignInAbstract WITH call <- ReturnedCall

ImplementsSignInContract == Contract!Spec

-----------------------------------------------------------------------------
(* Inductive invariant (checked by TLC, proved in SignInProofs).           *)

(* What each phase of a call has seen so far: nothing before it starts; a  *)
(* username and no answer while start is awaited; a continuation token    *)
(* and a password while submitPassword is awaited; a result once done.     *)
PhaseHistory ==
    \A f \in Calls :
        /\ phase[f] = "idle" =>
              /\ input[f] = None /\ result[f] = None
              /\ startAnswer[f] = None /\ submitAnswer[f] = None
        /\ phase[f] \in {"starting", "submitting"} =>
              /\ input[f] \in Inputs /\ input[f].username
              /\ result[f] = None /\ submitAnswer[f] = None
        /\ phase[f] = "starting" => startAnswer[f] = None
        /\ phase[f] = "submitting" =>
              startAnswer[f] = "continuationToken" /\ input[f].password
        /\ startAnswer[f] # None => input[f] \in Inputs
        /\ phase[f] = "done" => result[f] # None

IInv == TypeOK /\ PhaseHistory /\ SignInOutcomeConsistent

(* The constructor documents that the application is created "with the     *)
(* given configuration and controller": a supplied controller serves the   *)
(* application's calls.                                                    *)
SignInUsesGivenController ==
    \A f \in Calls :
        handledBy[f] # None =>
            (handledBy[f] = "supplied" <=> ControllerSupplied)

=============================================================================
