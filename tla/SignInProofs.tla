---------------------------- MODULE SignInProofs ----------------------------
(***************************************************************************)
(* Proofs about native-auth sign-in, for any number of interleaved calls:  *)
(* the controller's results match the service answers of their own call,  *)
(* and the sign-in sample uses an account only when one was issued to it.  *)
(***************************************************************************)
EXTENDS SignInSample, TLAPS

USE ConstantsAssumption

(* The inductive invariant of the controller holds initially.             *)
LEMMA IInvInit == Init => IInv
    BY DEF Init, IInv, TypeOK, PhaseHistory, SignInOutcomeConsistent, Results

(* The start dispatch of one call, for a call awaiting start with a        *)
(* username, yields a result or the submitPassword await that the          *)
(* invariant allows.                                                       *)
LEMMA StartResolvedSafe ==
    ASSUME IInv, NEW f \in Calls, NEW a \in StartAnswers,
           phase[f] = "starting", StartResolved(f, a),
           startAnswer' = [startAnswer EXCEPT ![f] = a],
           UNCHANGED <<input, handledBy, submitAnswer>>
    PROVE  IInv'
<1>0. /\ TypeOK /\ PhaseHistory /\ SignInOutcomeConsistent
      /\ input[f] \in Inputs /\ input[f].username
      /\ result[f] = None /\ submitAnswer[f] = None
    BY DEF IInv, PhaseHistory
<1> USE DEF IInv, TypeOK, PhaseHistory, SignInOutcomeConsistent, Results,
            StartAnswers
<1>1. CASE a = "continuationToken" /\ ~input[f].password
    <2>1. /\ result' = [result EXCEPT ![f] = "PasswordRequired"]
          /\ phase' = [phase EXCEPT ![f] = "done"]
        BY <1>1 DEF StartResolved
    <2>2. QED
        BY <1>0, <1>1, <2>1
<1>2. CASE a = "continuationToken" /\ input[f].password
    <2>1. /\ phase' = [phase EXCEPT ![f] = "submitting"]
          /\ UNCHANGED result
        BY <1>2 DEF StartResolved
    <2>2. QED
        BY <1>0, <1>2, <2>1
<1>3. CASE a = "codeSend"
    <2>1. /\ result' = [result EXCEPT ![f] = "CodeRequired"]
          /\ phase' = [phase EXCEPT ![f] = "done"]
        BY <1>3 DEF StartResolved
    <2>2. QED
        BY <1>0, <1>3, <2>1
<1>4. CASE a \in {"otherType", "rejects"}
    <2>1. /\ result' = [result EXCEPT ![f] = "Error"]
          /\ phase' = [phase EXCEPT ![f] = "done"]
        BY <1>4 DEF StartResolved
    <2>2. QED
        BY <1>0, <1>4, <2>1
<1>5. QED
    BY <1>1, <1>2, <1>3, <1>4

(* Every step of the application and controller preserves the invariant.  *)
LEMMA IInvStep == IInv /\ [Next]_vars => IInv'
<1> SUFFICES ASSUME IInv, [Next]_vars PROVE IInv'
    OBVIOUS
<1>0. TypeOK /\ PhaseHistory /\ SignInOutcomeConsistent
    BY DEF IInv
<1>1. ASSUME NEW f \in Calls, NEW in \in Inputs, SignInStart(f, in)
      PROVE  IInv'
    <2>1. SignInController \in {None, "default", "supplied"}
        BY DEF SignInController
    <2>2. QED
        BY <1>0, <1>1, <2>1
           DEF SignInStart, UsernameMissing, IInv, TypeOK, PhaseHistory,
               SignInOutcomeConsistent, Results
<1>2. ASSUME NEW f \in Calls, StartAnswered(f) PROVE IInv'
    <2>1. PICK a \in StartAnswers :
            /\ startAnswer' = [startAnswer EXCEPT ![f] = a]
            /\ StartResolved(f, a)
        BY <1>2 DEF StartAnswered
    <2>2. QED
        BY <1>2, <2>1, StartResolvedSafe DEF StartAnswered
<1>3. ASSUME NEW f \in Calls, SubmitPasswordAnswered(f) PROVE IInv'
    BY <1>0, <1>3
       DEF SubmitPasswordAnswered, IInv, TypeOK, PhaseHistory,
           SignInOutcomeConsistent, Results
<1>4. ASSUME NEW f \in Calls, NotImplementedCall(f) PROVE IInv'
    BY <1>0, <1>4
       DEF NotImplementedCall, IInv, TypeOK, PhaseHistory,
           SignInOutcomeConsistent, Results
<1>5. ASSUME NEW f \in Calls, NEW in \in Inputs,
             ControllerUnimplementedCall(f, in)
      PROVE  IInv'
    BY <1>0, <1>5
       DEF ControllerUnimplementedCall, IInv, TypeOK, PhaseHistory,
           SignInOutcomeConsistent, Results
<1>6. CASE UNCHANGED vars
    BY <1>0, <1>6 DEF vars, IInv, TypeOK, PhaseHistory,
                      SignInOutcomeConsistent
<1>7. QED
    BY <1>1, <1>2, <1>3, <1>4, <1>5, <1>6 DEF Next

-----------------------------------------------------------------------------
(* signIn implements its contract.                                         *)

(* No call has returned initially.                                         *)
LEMMA ContractInit == Init => Contract!Init
    BY DEF Init, Contract!Init, ReturnedCall

(* A step that changes only call f's variables changes only f's record.    *)
LEMMA ReturnedCallFrame ==
    ASSUME TypeOK, TypeOK', NEW f \in Calls,
           \A g \in Calls \ {f} : /\ phase'[g] = phase[g]
                                  /\ input'[g] = input[g]
                                  /\ result'[g] = result[g]
                                  /\ startAnswer'[g] = startAnswer[g]
                                  /\ submitAnswer'[g] = submitAnswer[g]
    PROVE  ReturnedCall' = [ReturnedCall EXCEPT ![f] = ReturnedCall'[f]]
<1>1. DOMAIN ReturnedCall = Calls /\ DOMAIN ReturnedCall' = Calls
    BY DEF ReturnedCall
<1>2. \A g \in Calls \ {f} : ReturnedCall'[g] = ReturnedCall[g]
    BY DEF ReturnedCall
<1>3. QED
    BY <1>1, <1>2 DEF ReturnedCall

(* A step of one call that neither starts nor ends in its return leaves   *)
(* every record alone.                                                     *)
LEMMA NotReturnedFrame ==
    ASSUME TypeOK, NEW f \in Calls, phase[f] # "done", phase'[f] # "done",
           ReturnedCall' = [ReturnedCall EXCEPT ![f] = ReturnedCall'[f]]
    PROVE  UNCHANGED ReturnedCall
<1>1. ReturnedCall'[f] = None /\ ReturnedCall[f] = None
    BY DEF ReturnedCall
<1>2. ReturnedCall = [ReturnedCall EXCEPT ![f] = None]
    BY <1>1 DEF ReturnedCall
<1>3. QED
    BY <1>1, <1>2

(* The record of a call that returns in this step.                         *)
LEMMA ReturnedRecord ==
    ASSUME NEW f \in Calls, phase[f] # "done", phase'[f] = "done"
    PROVE  /\ ReturnedCall[f] = None
           /\ ReturnedCall'[f] =
                Contract!Record(input'[f], startAnswer'[f], submitAnswer'[f],
                                result'[f])
    BY DEF ReturnedCall, Contract!Record

(* Every step of the application and controller is the atomic return of  *)
(* one call of the contract, or is invisible to it.                        *)
LEMMA ContractStep == IInv /\ [Next]_vars => [Contract!Next]_ReturnedCall
<1> SUFFICES ASSUME IInv, [Next]_vars PROVE [Contract!Next]_ReturnedCall
    OBVIOUS
<1>0. TypeOK /\ TypeOK' /\ PhaseHistory
    BY IInvStep DEF IInv
<1> USE DEF Contract!Next, Contract!Inputs, Inputs, Contract!StartAnswers,
            StartAnswers, Contract!SubmitAnswers
<1> DEFINE Others(f) ==
        \A g \in Calls \ {f} : /\ phase'[g] = phase[g]
                               /\ input'[g] = input[g]
                               /\ result'[g] = result[g]
                               /\ startAnswer'[g] = startAnswer[g]
                               /\ submitAnswer'[g] = submitAnswer[g]
<1>1. ASSUME NEW f \in Calls, NEW in \in Inputs, SignInStart(f, in)
      PROVE  [Contract!Next]_ReturnedCall
    <2>1. /\ phase[f] = "idle" /\ startAnswer[f] = None /\ submitAnswer[f] = None
          /\ UNCHANGED <<startAnswer, submitAnswer>>
          /\ input' = [input EXCEPT ![f] = in]
        BY <1>0, <1>1 DEF SignInStart, PhaseHistory
    <2>0. Others(f)
        BY <1>0, <1>1 DEF SignInStart, TypeOK
    <2>2. ReturnedCall' = [ReturnedCall EXCEPT ![f] = ReturnedCall'[f]]
        BY <1>0, <2>0, ReturnedCallFrame
    <2>3. CASE UsernameMissing(in)
        <3>1. /\ phase' = [phase EXCEPT ![f] = "done"]
              /\ result' = [result EXCEPT ![f] = "InvalidArgument"]
            BY <1>1, <2>3 DEF SignInStart
        <3>2. ReturnedCall'[f] =
                Contract!Record(in, None, None, "InvalidArgument")
              /\ ReturnedCall[f] = None
            BY <1>0, <2>1, <3>1, ReturnedRecord DEF TypeOK
        <3>3. /\ Contract!Exchange(in, None, None)
              /\ Contract!Outcome(in, None, None) = "InvalidArgument"
            BY <2>3 DEF UsernameMissing, Contract!Exchange, Contract!Outcome
        <3>4. Contract!SignIn(f, in, None, None)
            BY <2>2, <3>2, <3>3 DEF Contract!SignIn
        <3>5. QED
            BY <3>4
    <2>4. CASE ~UsernameMissing(in)
        <3>1. phase' = [phase EXCEPT ![f] = "starting"]
            BY <1>1, <2>4 DEF SignInStart
        <3>2. UNCHANGED ReturnedCall
            BY <1>0, <2>1, <2>2, <3>1, NotReturnedFrame DEF TypeOK
        <3>3. QED
            BY <3>2
    <2>5. QED
        BY <2>3, <2>4
<1>2. ASSUME NEW f \in Calls, StartAnswered(f)
      PROVE  [Contract!Next]_ReturnedCall
    <2>1. PICK a \in StartAnswers :
            /\ startAnswer' = [startAnswer EXCEPT ![f] = a]
            /\ StartResolved(f, a)
        BY <1>2 DEF StartAnswered
    <2>2. /\ phase[f] = "starting"
          /\ input[f] \in Inputs /\ input[f].username
          /\ submitAnswer[f] = None
          /\ UNCHANGED <<input, submitAnswer>>
        BY <1>0, <1>2 DEF StartAnswered, PhaseHistory
    <2>0. Others(f)
        BY <1>0, <1>2, <2>1 DEF StartAnswered, StartResolved, TypeOK
    <2>3. ReturnedCall' = [ReturnedCall EXCEPT ![f] = ReturnedCall'[f]]
        BY <1>0, <2>0, ReturnedCallFrame
    <2> DEFINE in == input[f]
    <2>4. ASSUME NEW res,
                 phase' = [phase EXCEPT ![f] = "done"],
                 result' = [result EXCEPT ![f] = res],
                 Contract!Exchange(in, a, None),
                 Contract!Outcome(in, a, None) = res
          PROVE  Contract!SignIn(f, in, a, None)
        <3>1. ReturnedCall'[f] = Contract!Record(in, a, None, res)
              /\ ReturnedCall[f] = None
            BY <1>0, <2>1, <2>2, <2>4, ReturnedRecord DEF TypeOK
        <3>2. QED
            BY <2>3, <2>4, <3>1 DEF Contract!SignIn
    <2>5. CASE a = "continuationToken" /\ ~in.password
        <3>1. /\ phase' = [phase EXCEPT ![f] = "done"]
              /\ result' = [result EXCEPT ![f] = "PasswordRequired"]
            BY <2>1, <2>5 DEF StartResolved
        <3>2. /\ Contract!Exchange(in, a, None)
              /\ Contract!Outcome(in, a, None) = "PasswordRequired"
            BY <2>2, <2>5 DEF Contract!Exchange, Contract!Outcome
        <3>3. QED
            BY <2>1, <2>2, <2>4, <3>1, <3>2
    <2>6. CASE a = "continuationToken" /\ in.password
        <3>1. phase' = [phase EXCEPT ![f] = "submitting"] /\ UNCHANGED result
            BY <2>1, <2>6 DEF StartResolved
        <3>2. UNCHANGED ReturnedCall
            BY <1>0, <2>2, <2>3, <3>1, NotReturnedFrame DEF TypeOK
        <3>3. QED
            BY <3>2
    <2>7. CASE a = "codeSend"
        <3>1. /\ phase' = [phase EXCEPT ![f] = "done"]
              /\ result' = [result EXCEPT ![f] = "CodeRequired"]
            BY <2>1, <2>7 DEF StartResolved
        <3>2. /\ Contract!Exchange(in, a, None)
              /\ Contract!Outcome(in, a, None) = "CodeRequired"
            BY <2>2, <2>7 DEF Contract!Exchange, Contract!Outcome
        <3>3. QED
            BY <2>1, <2>2, <2>4, <3>1, <3>2
    <2>8. CASE a \in {"otherType", "rejects"}
        <3>1. /\ phase' = [phase EXCEPT ![f] = "done"]
              /\ result' = [result EXCEPT ![f] = "Error"]
            BY <2>1, <2>8 DEF StartResolved
        <3>2. /\ Contract!Exchange(in, a, None)
              /\ Contract!Outcome(in, a, None) = "Error"
            BY <2>2, <2>8 DEF Contract!Exchange, Contract!Outcome
        <3>3. QED
            BY <2>1, <2>2, <2>4, <3>1, <3>2
    <2>9. QED
        BY <2>5, <2>6, <2>7, <2>8 DEF StartAnswers
<1>3. ASSUME NEW f \in Calls, SubmitPasswordAnswered(f)
      PROVE  [Contract!Next]_ReturnedCall
    <2>1. PICK a \in {"account", "rejects"} :
            /\ submitAnswer' = [submitAnswer EXCEPT ![f] = a]
            /\ result' = [result EXCEPT ![f] =
                            IF a = "account" THEN "Completed" ELSE "Error"]
        BY <1>3 DEF SubmitPasswordAnswered
    <2>2. /\ phase[f] = "submitting" /\ phase' = [phase EXCEPT ![f] = "done"]
          /\ input[f] \in Inputs /\ input[f].username /\ input[f].password
          /\ startAnswer[f] = "continuationToken"
          /\ UNCHANGED <<input, startAnswer>>
        BY <1>0, <1>3 DEF SubmitPasswordAnswered, PhaseHistory
    <2>0. Others(f)
        BY <1>0, <1>3, <2>1 DEF SubmitPasswordAnswered, TypeOK
    <2>3. ReturnedCall' = [ReturnedCall EXCEPT ![f] = ReturnedCall'[f]]
        BY <1>0, <2>0, ReturnedCallFrame
    <2> DEFINE in == input[f]
               res == IF a = "account" THEN "Completed" ELSE "Error"
    <2>4. ReturnedCall'[f] = Contract!Record(in, "continuationToken", a, res)
          /\ ReturnedCall[f] = None
        BY <1>0, <2>1, <2>2, ReturnedRecord DEF TypeOK
    <2>5. /\ Contract!Exchange(in, "continuationToken", a)
          /\ Contract!Outcome(in, "continuationToken", a) = res
        BY <2>1, <2>2 DEF Contract!Exchange, Contract!Outcome
    <2>6. Contract!SignIn(f, in, "continuationToken", a)
        BY <2>3, <2>4, <2>5 DEF Contract!SignIn
    <2>7. QED
        BY <2>1, <2>2, <2>6 DEF Contract!SubmitAnswers, Contract!StartAnswers
<1>4. ASSUME NEW f \in Calls, NotImplementedCall(f)
      PROVE  [Contract!Next]_ReturnedCall
    <2>1. /\ phase[f] = "idle" /\ input[f] = None
          /\ startAnswer[f] = None /\ submitAnswer[f] = None
        BY <1>0, <1>4 DEF NotImplementedCall, PhaseHistory
    <2>0. Others(f)
        BY <1>0, <1>4 DEF NotImplementedCall, TypeOK
    <2>2. ReturnedCall' = [ReturnedCall EXCEPT ![f] = ReturnedCall'[f]]
        BY <1>0, <2>0, ReturnedCallFrame
    <2>3. ReturnedCall'[f] = Contract!Record(None, None, None, "NotImplemented")
          /\ ReturnedCall[f] = None
        BY <1>0, <1>4, <2>1, ReturnedRecord DEF NotImplementedCall, TypeOK
    <2>4. Contract!Unimplemented(f, None)
        BY <2>2, <2>3 DEF Contract!Unimplemented
    <2>5. QED
        BY <2>4
<1>5. ASSUME NEW f \in Calls, NEW in \in Inputs,
             ControllerUnimplementedCall(f, in)
      PROVE  [Contract!Next]_ReturnedCall
    <2>1. /\ phase[f] = "idle" /\ startAnswer[f] = None /\ submitAnswer[f] = None
          /\ result'[f] \in IF in # None /\ ~in.username
                              THEN {"InvalidArgument", "NotImplemented"}
                              ELSE {"NotImplemented"}
        BY <1>0, <1>5 DEF ControllerUnimplementedCall, UsernameMissing,
                          PhaseHistory, TypeOK
    <2>0. Others(f)
        BY <1>0, <1>5 DEF ControllerUnimplementedCall, TypeOK
    <2>2. ReturnedCall' = [ReturnedCall EXCEPT ![f] = ReturnedCall'[f]]
        BY <1>0, <2>0, ReturnedCallFrame
    <2>3. ReturnedCall'[f] = Contract!Record(in, None, None, result'[f])
          /\ ReturnedCall[f] = None
        BY <1>0, <1>5, <2>1, ReturnedRecord
           DEF ControllerUnimplementedCall, TypeOK
    <2>4. Contract!Unimplemented(f, in)
        BY <2>1, <2>2, <2>3 DEF Contract!Unimplemented
    <2>5. QED
        BY <2>4
<1>6. CASE UNCHANGED vars
    BY <1>6 DEF vars, ReturnedCall
<1>7. QED
    BY <1>1, <1>2, <1>3, <1>4, <1>5, <1>6 DEF Next

(* For any number of interleaved calls, signIn implements its contract:   *)
(* each call, seen when it returns, is one atomic call whose result the    *)
(* controller's dispatch prescribes for its own input and the answers the  *)
(* service gave its own start and submitPassword requests.                 *)
THEOREM SignInRefinement == Spec => ImplementsSignInContract
<1>1. IInv /\ [][Next]_vars => [][[Contract!Next]_ReturnedCall]_ReturnedCall
    BY ContractStep, IInvStep, PTL
<1>2. QED
    BY <1>1, ContractInit, IInvInit, IInvStep, PTL
       DEF Spec, ImplementsSignInContract, Contract!Spec

-----------------------------------------------------------------------------
(* The sign-in sample.                                                     *)

(* The sample's inductive invariant holds initially.                       *)
LEMMA SampleIInvInit == SampleInit => SampleIInv
<1> SUFFICES ASSUME SampleInit PROVE SampleIInv
    OBVIOUS
<1>1. IInv /\ TypeOK
    BY IInvInit DEF SampleInit, IInv
<1>2. QED
    BY <1>1 DEF SampleInit, Init, SampleIInv, SampleTypeOK, SamplePhases,
                SampleHistory, SampleUsesIssuedAccount

(* Seen from the application and controller, a step of the sample is a    *)
(* step of signIn or leaves their variables alone.                         *)
LEMMA SampleProjects == [SampleNext]_allVars => [Next]_vars
<1> SUFFICES ASSUME [SampleNext]_allVars PROVE [Next]_vars
    OBVIOUS
<1>1. ASSUME NEW f \in Calls, NEW in \in Inputs, SampleStart(f, in)
      PROVE  Next
    BY <1>1 DEF SampleStart, Next
<1>2. ASSUME NEW f \in Calls, ControllerStep(f) PROVE Next
    BY <1>2 DEF ControllerStep, Next
<1>3. ASSUME NEW f \in Calls,
             \/ SampleSignInResolved(f)
             \/ SampleCodeAnswered(f)
             \/ SamplePasswordAnswered(f)
             \/ SampleUseAccount(f)
      PROVE  UNCHANGED vars
    BY <1>3 DEF SampleSignInResolved, SampleCodeAnswered,
                SamplePasswordAnswered, SampleUseAccount
<1>4. CASE UNCHANGED allVars
    BY <1>4 DEF allVars
<1>5. QED
    BY <1>1, <1>2, <1>3, <1>4 DEF SampleNext

(* Every step of the sample, or of the signIn call it awaits, preserves    *)
(* the invariant.                                                          *)
LEMMA SampleIInvStep == SampleIInv /\ [SampleNext]_allVars => SampleIInv'
<1> SUFFICES ASSUME SampleIInv, [SampleNext]_allVars PROVE SampleIInv'
    OBVIOUS
<1>0. /\ IInv /\ TypeOK /\ PhaseHistory /\ SignInOutcomeConsistent
      /\ SampleTypeOK /\ SampleHistory /\ SampleUsesIssuedAccount
    BY DEF SampleIInv, IInv
<1>1. IInv' /\ TypeOK' /\ PhaseHistory' /\ SignInOutcomeConsistent'
    BY <1>0, IInvStep, SampleProjects DEF IInv
<1> DEFINE Rest == SampleTypeOK /\ SampleHistory /\ SampleUsesIssuedAccount
<1>2. SUFFICES Rest'
    BY <1>1 DEF SampleIInv
<1> USE DEF SampleTypeOK, SamplePhases, SampleHistory, SampleUsesIssuedAccount
<1>3. ASSUME NEW f \in Calls, NEW in \in Inputs, SampleStart(f, in)
      PROVE  Rest'
    <2>1. /\ phase'[f] \in {"starting", "done"}
          /\ result'[f] # "NotImplemented"
          /\ \A g \in Calls \ {f} : phase'[g] = phase[g] /\ result'[g] = result[g]
          /\ submitAnswer' = submitAnswer
        BY <1>0, <1>3 DEF SampleStart, SignInStart, TypeOK
    <2>2. QED
        BY <1>0, <1>1, <1>3, <2>1 DEF SampleStart
<1>4. ASSUME NEW f \in Calls, ControllerStep(f) PROVE Rest'
    <2>1. phase[f] \in {"starting", "submitting"}
        BY <1>4 DEF ControllerStep, StartAnswered, SubmitPasswordAnswered
    <2>2. sample[f] = "awaitingSignIn"
        BY <1>0, <2>1
    <2>3. /\ phase'[f] # "idle"
          /\ \A g \in Calls \ {f} : /\ phase'[g] = phase[g]
                                   /\ result'[g] = result[g]
                                   /\ submitAnswer'[g] = submitAnswer[g]
        BY <1>0, <1>4 DEF ControllerStep, StartAnswered, StartResolved,
                          SubmitPasswordAnswered, TypeOK
    <2>4. result'[f] # "NotImplemented"
        BY <1>0, <1>4, <2>1 DEF PhaseHistory, ControllerStep, StartAnswered, StartResolved,
                    SubmitPasswordAnswered, TypeOK
    <2>5. QED
        BY <1>0, <1>1, <1>4, <2>2, <2>3, <2>4 DEF ControllerStep, sampleVars
<1>5. ASSUME NEW f \in Calls, SampleSignInResolved(f) PROVE Rest'
    <2>1. result[f] \in {"Error", "InvalidArgument", "Completed",
                         "CodeRequired", "PasswordRequired"}
        BY <1>0, <1>5 DEF SampleSignInResolved, PhaseHistory, TypeOK, Results
    <2>2. /\ UNCHANGED <<phase, result, submitAnswer, codeAnswer, pwAnswer>>
          /\ sample[f] = "awaitingSignIn" /\ phase[f] = "done"
        BY <1>5 DEF SampleSignInResolved, vars
    <2>4. CASE result[f] \in {"Error", "InvalidArgument"}
        <3>1. sample' = [sample EXCEPT ![f] = "returned"]
            BY <1>0, <1>5, <2>4 DEF SampleSignInResolved
        <3>2. QED
            BY <1>0, <1>1, <2>2, <3>1 DEF TypeOK
    <2>5. CASE result[f] = "Completed"
        <3>1. sample' = [sample EXCEPT ![f] = "usingAccount"]
            BY <1>0, <1>5, <2>5 DEF SampleSignInResolved
        <3>2. submitAnswer[f] = "account"
            BY <1>0, <2>5 DEF SignInOutcomeConsistent
        <3>3. QED
            BY <1>0, <1>1, <2>2, <2>5, <3>1, <3>2 DEF TypeOK
    <2>6. CASE result[f] = "CodeRequired"
        <3>1. sample' = [sample EXCEPT ![f] = "submittingCode"]
            BY <1>0, <1>5, <2>6 DEF SampleSignInResolved
        <3>2. QED
            BY <1>0, <1>1, <2>2, <2>6, <3>1 DEF TypeOK
    <2>7. CASE result[f] = "PasswordRequired"
        <3>1. sample' = [sample EXCEPT ![f] = "submittingPassword"]
            BY <1>0, <1>5, <2>7 DEF SampleSignInResolved
        <3>2. QED
            BY <1>0, <1>1, <2>2, <2>7, <3>1 DEF TypeOK
    <2>8. QED
        BY <2>1, <2>4, <2>5, <2>6, <2>7
<1>6. ASSUME NEW f \in Calls, SampleCodeAnswered(f) PROVE Rest'
    BY <1>0, <1>6 DEF SampleCodeAnswered, vars, TypeOK
<1>7. ASSUME NEW f \in Calls, SamplePasswordAnswered(f) PROVE Rest'
    BY <1>0, <1>7 DEF SamplePasswordAnswered, vars, TypeOK
<1>8. ASSUME NEW f \in Calls, SampleUseAccount(f) PROVE Rest'
    BY <1>0, <1>8 DEF SampleUseAccount, vars, TypeOK
<1>9. CASE UNCHANGED allVars
    BY <1>0, <1>1, <1>9 DEF allVars, vars, sampleVars
<1>10. QED
    BY <1>3, <1>4, <1>5, <1>6, <1>7, <1>8, <1>9 DEF SampleNext

(* In every interleaving of any number of runs of the sample, an account   *)
(* is used only when the service issued one to that run on the path its    *)
(* signIn result selected: the isSuccess checks after submitCode and       *)
(* sumbmitPassword, and the controller's dispatch, keep a failed answer's   *)
(* data from being used as the account.                                    *)
THEOREM SampleAccountIssued == SampleSpec => []SampleUsesIssuedAccount
<1>1. SampleIInv => SampleUsesIssuedAccount
    BY DEF SampleIInv
<1>2. QED
    BY <1>1, SampleIInvInit, SampleIInvStep, PTL DEF SampleSpec

=============================================================================
