--------------------------- MODULE ProgramCallsProofs ---------------------------
(***************************************************************************)
(* Without an operator, ProgramNotification implements ProgramCalls: every *)
(* step of the three threads and the tester is a step of the calls, or no  *)
(* step of theirs at all.                                                  *)
(***************************************************************************)
EXTENDS ProgramNotificationProofs

(* A failure that is on its way is the failure of the recipe's own load, and  *)
(* a tester that is gone has no program.                                     *)
FailureInv ==
  /\ HasAnswer /\ Head(events) \in Failures => op = "load" /\ ~program
  /\ pcState = "handle" /\ ev \in Failures => op = "load" /\ ~program
  /\ ~up => ~program

CallInv == QuietInv /\ FailureInv

(* While a failure is on its way the recipe is in its wait. *)
LEMMA FailureMeansWait ==
  ASSUME QuietInv
  PROVE  /\ HasAnswer => pcCmd \in WaitPcs
         /\ pcState = "handle" /\ ev \in Failures => pcCmd \in WaitPcs
         /\ pending # "none" => pcCmd \in WaitPcs /\ up /\ pending = op
         /\ pending # "none" => ~HasAnswer
         /\ pending # "none" => ~(pcState = "handle" /\ ev \in Failures)
  BY DEF QuietInv, ProtocolInv, AnswerInv, Answering, Failures, ProgramEvents,
         LoadEvents

LEMMA FailureStep ==
  ASSUME OperatorOps = {}, CallInv, [Next]_vars PROVE FailureInv'
<1> USE DEF CallInv, FailureInv, cmdVars, stateVars, waitVars, testerVars
<1>1. CASE UNCHANGED <<op, program, up, events, ev, pcState>>
  BY <1>1 DEF HasAnswer
<1>2. CASE pcState' # "handle" /\ UNCHANGED <<op, program, up, events>>
  BY <1>2 DEF HasAnswer
<1>3. CASE CmdQueryProgram \/ CmdCheckUnload
  <2>1. pcCmd \notin WaitPcs
    BY <1>3 DEF CmdQueryProgram, CmdCheckUnload, WaitPcs, CmdHoldsPcs
  <2>2. UNCHANGED <<program, up, events, ev, pcState>>
    BY <1>3 DEF CmdQueryProgram, CmdCheckUnload
  <2> QED
    BY <2>1, <2>2, FailureMeansWait DEF HasAnswer
<1>4. CASE StateRespond
  <2>1. /\ events # <<>> /\ ev' = Head(events) /\ events' = Tail(events)
        /\ UNCHANGED <<op, program, up>>
    BY <1>4 DEF StateRespond
  <2>2. events \in Queues
    BY DEF QuietInv, ProtocolInv, QueueInv
  <2>3. HasAnswer' => Head(events') \notin Failures
    BY <2>1, <2>2, RespondFacts DEF HasAnswer, Failures
  <2>4. ev' \in Failures => op = "load" /\ ~program
    BY <2>1, <2>2, RespondFacts DEF HasAnswer, Failures
  <2> QED
    BY <2>1, <2>3, <2>4
<1>5. CASE MainJoinState \/ MainReconnect
  <2>1. events' = <<>> /\ UNCHANGED <<op, ev, pcState>>
    BY <1>5 DEF MainJoinState, MainReconnect
  <2>2. ~HasAnswer'
    BY <2>1 DEF HasAnswer, Silent
  <2>3. CASE MainJoinState
    <3>1. UNCHANGED <<up, program>>
      BY <2>3 DEF MainJoinState
    <3> QED
      BY <2>1, <2>2, <3>1
  <2>4. CASE MainReconnect
    <3>1. program' = FALSE
      BY <2>4 DEF MainReconnect
    <3> QED
      BY <2>1, <2>2, <3>1
  <2> QED
    BY <1>5, <2>3, <2>4
<1>6. CASE TesterAnswer
  <2>1. /\ pending = op /\ up /\ up' = up
        /\ UNCHANGED <<op, ev, pcState>>
        /\ ~(pcState = "handle" /\ ev \in Failures)
    BY <1>6, FailureMeansWait DEF TesterAnswer, TesterUnloaded, TesterLoaded,
       TesterLoadFailed, TesterLoadAborted, TesterAnswers
  <2>2. events = <<>>
    BY <1>6, FailureMeansWait, RestartFacts
       DEF TesterAnswer, TesterUnloaded, TesterLoaded, TesterLoadFailed,
           TesterLoadAborted, TesterAnswers, HasAnswer, QuietInv, ProtocolInv,
           QueueInv
  <2>3. CASE TesterUnloaded \/ TesterLoaded
    <3>1. Head(events') \notin Failures
      BY <2>2, <2>3, AnswerFacts DEF TesterUnloaded, TesterLoaded,
         TesterAnswers, LoadEvents, Failures
    <3> QED
      BY <2>1, <3>1
  <2>4. CASE TesterLoadFailed \/ TesterLoadAborted
    <3>1. op = "load" /\ program' = FALSE
      BY <2>1, <2>4 DEF TesterLoadFailed, TesterLoadAborted, TesterAnswers
    <3> QED
      BY <2>1, <3>1
  <2> QED
    BY <1>6, <2>3, <2>4 DEF TesterAnswer
<1>7. CASE TesterRestarts
  <2>1. /\ program' = FALSE /\ events' = Append(events, "RESTART")
        /\ events \in Sent
        /\ UNCHANGED <<op, ev, pcState>>
    BY <1>7 DEF TesterRestarts, QuietInv, ProtocolInv, QueueInv
  <2>2. HasAnswer' => HasAnswer /\ Head(events') = Head(events)
    BY <2>1, RestartFacts DEF HasAnswer
  <2> QED
    BY <2>1, <2>2
<1>8. CASE OperatorUnloads \/ OperatorLoads \/ OperatorLoadFails
  BY <1>8 DEF OperatorUnloads, OperatorLoads, OperatorLoadFails, OperatorActs
<1>9. CASE CmdSetup \/ CmdCall \/ CmdTest \/ CmdTestGoAway \/ CmdWait \/ CmdLock
  BY <1>1, <1>9 DEF CmdSetup, CmdCall, CmdTest, CmdTestGoAway, CmdWait, CmdLock
<1>10. CASE \/ CmdCheck \/ CmdSend \/ CmdSpuriousWakeup
            \/ CmdRecipeDecodeAvailable \/ CmdRecipeDecode
  BY <1>1, <1>10 DEF CmdCheck, CmdSend, CmdSpuriousWakeup,
     CmdRecipeDecodeAvailable, CmdRecipeDecode
<1>11. CASE StateHandle \/ StateGuard \/ StateMatch \/ StateLock
  BY <1>2, <1>11 DEF StateHandle, StateGuard, StateMatch, StateLock
<1>12. CASE StateReset \/ StateComplete \/ StateSignal \/ StateUnlock
  BY <1>2, <1>12 DEF StateReset, StateComplete, StateSignal, StateUnlock
<1>13. CASE \/ MainSeeRestart \/ MainReadState \/ MainSetGoAway \/ MainSignal
            \/ MainJoinCmd
  BY <1>1, <1>13 DEF MainSeeRestart, MainReadState, MainSetGoAway, MainSignal,
     MainJoinCmd
<1>14. CASE UNCHANGED vars
  BY <1>1, <1>14 DEF vars
<1> QED
  BY <1>3, <1>4, <1>5, <1>6, <1>7, <1>8, <1>9, <1>10, <1>11, <1>12, <1>13, <1>14
     DEF Next, CmdStep, StateStep, MainStep, Environment

LEMMA FailureStart == Init => FailureInv
<1>1. <<>> \in Silent
  BY DEF Silent
<1> QED
  BY <1>1 DEF Init, FailureInv, HasAnswer

(* Without an operator, failures are the recipe's own. *)
LEMMA CallInvariant == ASSUME OperatorOps = {} PROVE Spec => []CallInv
<1>1. CallInv /\ [Next]_vars => CallInv'
  BY FailureStep, QuietStep DEF CallInv
<1>2. Init => CallInv
  BY QuietStart, FailureStart DEF CallInv
<1> QED
  BY <1>1, <1>2, PTL DEF Spec

--------------------------------------------------------------------------------
(* The refinement.                                                           *)

(* A step that leaves what the recipe sees alone is no step of its calls. *)
LEMMA Stutters ==
  ASSUME InCall' <=> InCall, InCall => op' = op /\ pending' = pending,
         UNCHANGED <<recipeParseResult, up, program>>
  PROVE  UNCHANGED Calls!vars
  BY DEF Calls!vars, Answered

LEMMA CallStarts ==
  ASSUME TypeOK, CmdCall PROVE [Calls!Next]_(Calls!vars)
<1>1. ~InCall
  BY DEF CmdCall, InCall, WaitPcs, CmdHoldsPcs
<1>2. CASE pcCmd' = "lock" /\ pending' = op
  <2>1. InCall' /\ op' = op /\ op \in Calls!Calls /\ pending' # "none"
    BY <1>2 DEF CmdCall, InCall, WaitPcs, TypeOK, Ops, Calls!Calls
  <2>2. up /\ (op = "unload" => program)
    BY <1>2 DEF CmdCall
  <2>3. UNCHANGED <<recipeParseResult, up, program>>
    BY DEF CmdCall, testerVars
  <2>4. Answered = "none" /\ Answered' = "none"
    BY <1>1, <2>1, <2>2, <2>3 DEF Answered
  <2>5. Calls!Call(op)
    BY <1>1, <2>1, <2>2, <2>3, <2>4 DEF Calls!Call
  <2> QED
    BY <2>1, <2>5 DEF Calls!Next
<1>3. CASE pcCmd' = "idle"
  <2>1. ~InCall'
    BY <1>3 DEF InCall, WaitPcs, CmdHoldsPcs
  <2>2. UNCHANGED <<recipeParseResult, up, program>>
    BY DEF CmdCall
  <2> QED
    BY <1>1, <2>1, <2>2, Stutters
<1> QED
  BY <1>2, <1>3 DEF CmdCall

(* waitForNotification only returns from an answered call.                    *)
LEMMA CallReturns ==
  ASSUME CallInv, CmdTest \/ CmdTestGoAway PROVE [Calls!Next]_(Calls!vars)
<1>1. InCall /\ UNCHANGED <<op, pending, recipeParseResult, up, program>>
  BY DEF CmdTest, CmdTestGoAway, InCall, WaitPcs, CmdHoldsPcs, testerVars
<1>2. op \in Calls!Calls /\ op # "none"
  BY DEF CallInv, QuietInv, TypeOK, Ops, Calls!Calls
<1>3. CASE pcCmd' \in {"testGoAway", "wait"}
  <2>1. InCall'
    BY <1>3 DEF InCall, WaitPcs, CmdHoldsPcs
  <2> QED
    BY <1>1, <2>1, Stutters
<1>4. CASE pcCmd' = AfterWait(op) /\ (taskComplete \/ goAway)
  <2>1. ~InCall'
    BY <1>4 DEF AfterWait, InCall, WaitPcs, CmdHoldsPcs
  <2>2. CASE ~up
    <3>1. Answered = "lost" /\ Answered' = "none"
      BY <1>1, <2>1, <2>2 DEF Answered
    <3>2. Calls!Return
      BY <1>1, <1>2, <2>1, <3>1 DEF Calls!Return
    <3> QED
      BY <3>2 DEF Calls!Next
  <2>3. CASE up
    <3>1. taskComplete
      BY <1>1, <1>4, <2>3 DEF CallInv, QuietInv, ProtocolInv, ShutdownInv, InCall
    <3>2. /\ pending = "none" /\ ~HasAnswer
          /\ ~(pcState = "handle" /\ ev \in Failures)
      BY <3>1 DEF CallInv, QuietInv, ProtocolInv, CompleteInv, Answering,
                  Failures, ProgramEvents, LoadEvents
    <3>3. op = "load" => program \/ ~recipeParseResult
      BY <1>1, <2>3, <3>2 DEF CallInv, QuietInv, ProtocolInv, OutcomeInv, InCall
    <3>4. /\ Answered \in {"done", "failed"} /\ Answered' = "none"
          /\ Answered = "failed" => ~recipeParseResult
      BY <1>1, <2>1, <2>3, <3>2, <3>3 DEF Answered
    <3>5. Calls!Return
      BY <1>1, <1>2, <2>1, <3>4 DEF Calls!Return
    <3> QED
      BY <3>5 DEF Calls!Next
  <2> QED
    BY <2>2, <2>3
<1> QED
  BY <1>3, <1>4 DEF CmdTest, CmdTestGoAway

(* The tester's answer to the call in progress.                              *)
LEMMA CallAnswered ==
  ASSUME CallInv, TesterAnswer PROVE [Calls!Next]_(Calls!vars)
<1>1. /\ pending = op /\ up /\ pending' = "none" /\ up' = up
      /\ UNCHANGED <<pcCmd, op, recipeParseResult>>
  BY DEF TesterAnswer, TesterUnloaded, TesterLoaded, TesterLoadFailed,
     TesterLoadAborted, TesterAnswers, cmdVars, CallInv, QuietInv, ProtocolInv,
     AnswerInv, TypeOK, Ops
<1>2. InCall /\ InCall' /\ op \in Calls!Calls /\ op # "none"
  BY <1>1, FailureMeansWait DEF InCall, CallInv, QuietInv, TypeOK, Ops, Calls!Calls
<1>3. Answered = "none"
  BY <1>1, <1>2 DEF Answered
<1>4. \/ op = "unload" /\ program' = FALSE
      \/ op = "load" /\ program' = TRUE
      \/ op = "load" /\ program' = FALSE
  BY <1>1 DEF TesterAnswer, TesterUnloaded, TesterLoaded, TesterLoadFailed,
     TesterLoadAborted, TesterAnswers
<1>5. Answered' = IF op = "load" /\ ~program' THEN "failed" ELSE "done"
  BY <1>1, <1>2 DEF Answered
<1>6. Calls!Answer
  BY <1>1, <1>2, <1>3, <1>4, <1>5 DEF Calls!Answer
<1> QED
  BY <1>6 DEF Calls!Next

(* programChange records a failure only of the call in progress.             *)
LEMMA FailureRecorded ==
  ASSUME CallInv, StateHandle PROVE [Calls!Next]_(Calls!vars)
<1>1. UNCHANGED <<pcCmd, op, pending, up, program>> /\ (InCall' <=> InCall)
  BY DEF StateHandle, cmdVars, testerVars, InCall
<1>2. Answered' = Answered
  BY <1>1 DEF Answered
<1>3. CASE ev \in Failures
  <2>1. pcCmd \in WaitPcs /\ pending = "none" /\ op = "load" /\ ~program
    BY <1>3, FailureMeansWait DEF CallInv, FailureInv, StateHandle
  <2>2. Answered \in {"failed", "lost"}
    BY <2>1 DEF Answered, InCall
  <2>3. recipeParseResult' = FALSE
    BY <1>3 DEF StateHandle, Failures
  <2>4. Calls!RecordFailure
    BY <1>1, <1>2, <2>2, <2>3 DEF Calls!RecordFailure
  <2> QED
    BY <2>4 DEF Calls!Next
<1>4. CASE ev \notin Failures
  <2>1. recipeParseResult' = recipeParseResult
    BY <1>4 DEF StateHandle, Failures, CallInv, QuietInv, TypeOK
  <2> QED
    BY <1>1, <2>1, Stutters
<1> QED
  BY <1>3, <1>4

LEMMA RestartsAndRecipes ==
  ASSUME CallInv,
         \/ TesterRestarts \/ MainReconnect
         \/ CmdRecipeDecodeAvailable \/ CmdRecipeDecode
  PROVE  [Calls!Next]_(Calls!vars)
<1>1. CASE TesterRestarts
  <2>1. /\ up /\ up' = FALSE /\ program' = FALSE
        /\ UNCHANGED <<pcCmd, op, recipeParseResult>>
    BY <1>1 DEF TesterRestarts, cmdVars
  <2>2. (InCall' <=> InCall) /\ op # "none"
    BY <2>1 DEF InCall, CallInv, QuietInv, TypeOK, Ops
  <2>3. Answered' = IF InCall THEN "lost" ELSE "none"
    BY <2>1, <2>2 DEF Answered
  <2>4. Calls!Restart
    BY <2>1, <2>2, <2>3 DEF Calls!Restart
  <2> QED
    BY <2>4 DEF Calls!Next
<1>2. CASE MainReconnect
  <2>1. pcCmd = "idle" /\ ~up /\ program \in BOOLEAN
    BY <1>2 DEF MainReconnect, MainGoto, CallInv, QuietInv, ProtocolInv,
                ShutdownInv, TypeOK
  <2>2. up' = TRUE /\ program' = FALSE /\ UNCHANGED <<pcCmd, recipeParseResult>>
    BY <1>2 DEF MainReconnect, cmdVars
  <2>3. program' = program
    BY <2>1, <2>2 DEF CallInv, FailureInv
  <2>4. ~InCall /\ ~InCall'
    BY <2>1, <2>2 DEF InCall, WaitPcs, CmdHoldsPcs
  <2>5. Answered' = Answered
    BY <2>4 DEF Answered
  <2>6. Calls!Reconnect
    BY <2>1, <2>2, <2>3, <2>4, <2>5 DEF Calls!Reconnect
  <2> QED
    BY <2>6 DEF Calls!Next
<1>3. CASE CmdRecipeDecodeAvailable \/ CmdRecipeDecode
  <2>1. ~InCall /\ ~InCall'
    BY <1>3 DEF CmdRecipeDecodeAvailable, CmdRecipeDecode, cmdVars, InCall,
       WaitPcs, CmdHoldsPcs
  <2>2. recipeParseResult' = TRUE /\ UNCHANGED <<up, program>>
    BY <1>3 DEF CmdRecipeDecodeAvailable, CmdRecipeDecode, testerVars
  <2>3. Answered' = Answered
    BY <2>1 DEF Answered
  <2>4. Calls!NextRecipe
    BY <2>1, <2>2, <2>3 DEF Calls!NextRecipe
  <2> QED
    BY <2>4 DEF Calls!Next
<1> QED
  BY <1>1, <1>2, <1>3

(* Every other step of the three threads is invisible to the recipe.          *)
LEMMA InternalSteps ==
  ASSUME CallInv,
         \/ CmdQueryProgram \/ CmdSetup \/ CmdCheckUnload \/ CmdCheck \/ CmdSend
         \/ CmdLock \/ CmdWait \/ CmdSpuriousWakeup
         \/ StateLock \/ (StateStep /\ ~StateHandle)
         \/ (MainStep /\ ~MainReconnect)
  PROVE  UNCHANGED Calls!vars
<1> USE DEF cmdVars, stateVars, waitVars, testerVars
<1>1. CASE CmdQueryProgram \/ CmdCheckUnload
  <2>1. ~InCall /\ ~InCall' /\ UNCHANGED <<recipeParseResult, up, program>>
    BY <1>1 DEF CmdQueryProgram, CmdCheckUnload, InCall, WaitPcs, CmdHoldsPcs
  <2> QED
    BY <2>1, Stutters
<1>2. CASE CmdSetup
  <2>1. ~InCall /\ ~InCall'
    BY <1>2 DEF CmdSetup, CmdGoto, InCall, WaitPcs, CmdHoldsPcs
  <2>2. UNCHANGED <<recipeParseResult, up, program>>
    BY <1>2 DEF CmdSetup
  <2> QED
    BY <2>1, <2>2, Stutters
<1>3. CASE CmdCheck \/ CmdSend
  <2>1. ~InCall /\ ~InCall'
    BY <1>3 DEF CmdCheck, CmdSend, AfterCheck, AfterSend, InCall, WaitPcs,
       CmdHoldsPcs
  <2>2. UNCHANGED <<recipeParseResult, up, program>>
    BY <1>3 DEF CmdCheck, CmdSend
  <2> QED
    BY <2>1, <2>2, Stutters
<1>4. CASE CmdLock \/ CmdWait \/ CmdSpuriousWakeup
  <2>1. InCall /\ InCall'
    BY <1>4 DEF CmdLock, CmdWait, CmdSpuriousWakeup, CmdGoto, InCall, WaitPcs,
       CmdHoldsPcs
  <2>2. UNCHANGED <<op, pending, recipeParseResult, up, program>>
    BY <1>4 DEF CmdLock, CmdWait, CmdSpuriousWakeup
  <2> QED
    BY <2>1, <2>2, Stutters
<1>5. CASE StateSignal \/ MainSignal
  <2>1. InCall' <=> InCall
    BY <1>5 DEF StateSignal, MainSignal, MainGoto, WakeCmd, InCall, WaitPcs
  <2>2. UNCHANGED <<op, pending, recipeParseResult, up, program>>
    BY <1>5 DEF StateSignal, MainSignal
  <2> QED
    BY <2>1, <2>2, Stutters
<1>6. CASE \/ StateRespond \/ StateGuard \/ StateMatch \/ StateLock
           \/ StateReset \/ StateComplete \/ StateUnlock
  <2>1. UNCHANGED <<pcCmd, op, pending, recipeParseResult, up, program>>
    BY <1>6 DEF StateRespond, StateGuard, StateMatch, StateLock, StateReset,
       StateComplete, StateUnlock
  <2> QED
    BY <2>1, Stutters DEF InCall
<1>7. CASE \/ MainSeeRestart \/ MainReadState \/ MainSetGoAway \/ MainJoinCmd
           \/ MainJoinState
  <2>1. UNCHANGED <<pcCmd, op, pending, recipeParseResult, up, program>>
    BY <1>7 DEF MainSeeRestart, MainReadState, MainSetGoAway, MainJoinCmd,
       MainJoinState
  <2> QED
    BY <2>1, Stutters DEF InCall
<1> QED
  BY <1>1, <1>2, <1>3, <1>4, <1>5, <1>6, <1>7 DEF StateStep, MainStep

(* No operator: what waits in loadProgram and unloadProgram is a call as      *)
(* ProgramCalls describes it, with any recipes, failures and restarts.        *)
THEOREM CallsImplemented ==
  ASSUME OperatorOps = {} PROVE Spec => ImplementsProgramCalls
<1>1. Init => Calls!Init
  BY DEF Init, Calls!Init, InCall, Answered, WaitPcs, CmdHoldsPcs
<1>2. CallInv /\ [Next]_vars => [Calls!Next]_(Calls!vars)
  <2> SUFFICES ASSUME CallInv, [Next]_vars PROVE [Calls!Next]_(Calls!vars)
    OBVIOUS
  <2>1. CASE CmdCall
    BY <2>1, CallStarts DEF CallInv, QuietInv
  <2>2. CASE CmdTest \/ CmdTestGoAway
    BY <2>2, CallReturns
  <2>3. CASE TesterAnswer
    BY <2>3, CallAnswered
  <2>4. CASE StateHandle
    BY <2>4, FailureRecorded
  <2>5. CASE \/ TesterRestarts \/ MainReconnect
             \/ CmdRecipeDecodeAvailable \/ CmdRecipeDecode
    BY <2>5, RestartsAndRecipes
  <2>6. CASE OperatorUnloads \/ OperatorLoads \/ OperatorLoadFails
    BY <2>6 DEF OperatorUnloads, OperatorLoads, OperatorLoadFails, OperatorActs
  <2>7. CASE UNCHANGED vars
    BY <2>7, Stutters DEF vars, cmdVars, testerVars, InCall
  <2>8. CASE \/ CmdQueryProgram \/ CmdSetup \/ CmdCheckUnload \/ CmdCheck \/ CmdSend
             \/ CmdLock \/ CmdWait \/ CmdSpuriousWakeup
             \/ StateLock \/ (StateStep /\ ~StateHandle)
             \/ (MainStep /\ ~MainReconnect)
    BY <2>8, InternalSteps
  <2> QED
    BY <2>1, <2>2, <2>3, <2>4, <2>5, <2>6, <2>7, <2>8
       DEF Next, CmdStep, Environment
<1> QED
  BY <1>1, <1>2, CallInvariant, PTL DEF Spec, ImplementsProgramCalls, Calls!Spec
================================================================================
