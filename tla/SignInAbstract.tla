---------------------------- MODULE SignInAbstract ----------------------------
(***************************************************************************)
(* What a sign-in call promises its caller, with no awaits: each call      *)
(* returns once, atomically, and what it returns is decided by its own     *)
(* input and by the answers the service gave to its own requests, whatever *)
(* other calls run meanwhile.  A call records, when it returns, its input, *)
(* the start answer and the submitPassword answer it received (None for a  *)
(* request that was not sent) and its result.                              *)
(***************************************************************************)
CONSTANTS Calls, None

VARIABLE call   \* per call: None until it returns, then its record

Inputs == [username: BOOLEAN, password: BOOLEAN]

StartAnswers == {"continuationToken", "codeSend", "otherType", "rejects"}

SubmitAnswers == {"account", "rejects"}

(* The requests a sign-in sends for an input: start only with a username,  *)
(* submitPassword only after a continuation token for a caller who gave a  *)
(* password.                                                               *)
Exchange(in, sa, pa) ==
    /\ sa = None <=> ~in.username
    /\ pa # None <=> sa = "continuationToken" /\ in.password

(* The result the sign-in flow returns for that exchange.                  *)
Outcome(in, sa, pa) ==
    CASE ~in.username                               -> "InvalidArgument"
      [] sa = "continuationToken" /\ ~in.password   -> "PasswordRequired"
      [] sa = "continuationToken" /\ pa = "account" -> "Completed"
      [] sa = "codeSend"                            -> "CodeRequired"
      [] OTHER                                      -> "Error"

Record(in, sa, pa, res) ==
    [input |-> in, start |-> sa, submit |-> pa, result |-> res]

Init == call = [f \in Calls |-> None]

(* A sign-in call returns.                                                 *)
SignIn(f, in, sa, pa) ==
    /\ call[f] = None
    /\ Exchange(in, sa, pa)
    /\ call' = [call EXCEPT ![f] = Record(in, sa, pa, Outcome(in, sa, pa))]

(* A call of an entry point that is not implemented throws before any      *)
(* request; the controller's own entry points first reject a missing       *)
(* username.                                                               *)
Unimplemented(f, in) ==
    /\ call[f] = None
    /\ \E res \in IF in # None /\ ~in.username
                    THEN {"InvalidArgument", "NotImplemented"}
                    ELSE {"NotImplemented"} :
          call' = [call EXCEPT ![f] = Record(in, None, None, res)]

Next ==
    \E f \in Calls :
        \/ \E in \in Inputs, sa \in StartAnswers \cup {None},
              pa \in SubmitAnswers \cup {None} : SignIn(f, in, sa, pa)
        \/ \E in \in Inputs \cup {None} : Unimplemented(f, in)

Spec == Init /\ [][Next]_call
=============================================================================
