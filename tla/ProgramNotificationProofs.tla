----------------------- MODULE ProgramNotificationProofs -----------------------
(***************************************************************************)
(* Theorems about ProgramNotification, for every value of its constants.   *)
(***************************************************************************)
EXTENDS ProgramNotification, SequenceTheorems, TLAPS

(* What the tester appends to its queue keeps the queue a queue of events. *)
LEMMA QueueTypes ==
  ASSUME NEW q \in Seq(Events)
  PROVE  /\ \A e \in Events : Append(q, e) \in Seq(Events)
         /\ \A e \in Events : q \o <<e>> \in Seq(Events)
         /\ \A d, e \in Events : q \o <<d, e>> \in Seq(Events)
         /\ q # <<>> => Head(q) \in Events /\ Tail(q) \in Seq(Events)
<1>1. \A e \in Events : <<e>> \in Seq(Events)
  OBVIOUS
<1>2. \A d, e \in Events : <<d, e>> \in Seq(Events)
  OBVIOUS
<1> QED
  BY <1>1, <1>2, ConcatProperties, AppendProperties, HeadTailProperties

(* Every variable stays in its type, whatever the operator and tester do. *)
LEMMA TypeStep == TypeOK /\ [Next]_vars => TypeOK'
<1> SUFFICES ASSUME TypeOK, [Next]_vars PROVE TypeOK'
  OBVIOUS
<1> USE DEF TypeOK, cmdVars, stateVars, waitVars, testerVars
<1>1. CASE CmdQueryProgram
  BY <1>1 DEF CmdQueryProgram, CmdPcs, SetupPcs, Ops
<1>2. CASE CmdSetup
  <2>1. WaitStates(op) \subseteq LoadEvents
    BY DEF WaitStates, LoadEvents
  <2>2. pcCmd' \in CmdPcs
    BY <1>2 DEF CmdSetup, CmdGoto, CmdPcs, SetupPcs
  <2>3. /\ programStateArray' \subseteq LoadEvents
        /\ currentState' \in {"MAX_EVX_STATE", "EVX_PROGRAM_CHANGE"}
        /\ taskComplete' \in BOOLEAN /\ goAway' \in BOOLEAN
    BY <1>2, <2>1 DEF CmdSetup
  <2>4. /\ condMutex' \in {"free", "cmd", "state"}
        /\ UNCHANGED <<op, recipe, stateVars, pcMain, recipeParseResult,
                       testerRestart, testerVars>>
    BY <1>2 DEF CmdSetup
  <2> QED
    BY <2>2, <2>3, <2>4
<1>3. CASE CmdCall
  BY <1>3 DEF CmdCall, CmdPcs, WaitPcs, Ops
<1>4. CASE CmdTest \/ CmdTestGoAway
  BY <1>4 DEF CmdTest, CmdTestGoAway, AfterWait, CmdPcs, WaitPcs, CmdHoldsPcs
<1>5. CASE CmdLock \/ CmdWait \/ CmdSpuriousWakeup
  BY <1>5 DEF CmdLock, CmdWait, CmdSpuriousWakeup, CmdGoto, CmdPcs, WaitPcs,
              CmdHoldsPcs
<1>6. CASE CmdCheckUnload
  BY <1>6 DEF CmdCheckUnload, CmdPcs, SetupPcs, Ops
<1>7. CASE CmdCheck \/ CmdSend
  <2>1. /\ \A s \in DOMAIN AfterCheck : AfterCheck[s] \in CmdPcs
        /\ \A s \in DOMAIN AfterSend : AfterSend[s] \in CmdPcs
    BY DEF AfterCheck, AfterSend, CmdPcs, StagePcs
  <2>2. "idle" \in CmdPcs
    BY DEF CmdPcs
  <2> QED
    BY <1>7, <2>1, <2>2 DEF CmdCheck, CmdSend
<1>8. CASE CmdRecipeDecodeAvailable \/ CmdRecipeDecode
  BY <1>8 DEF CmdRecipeDecodeAvailable, CmdRecipeDecode, CmdPcs
<1>9. CASE StateRespond
  <2>1. ev' \in Events /\ events' \in Seq(Events)
    BY <1>9, QueueTypes DEF StateRespond
  <2>2. pcState' \in StatePcs
    BY <1>9 DEF StateRespond, StatePcs
  <2>3. UNCHANGED <<cmdVars, pcMain, waitVars, condMutex, recipeParseResult,
                    testerRestart, up, program, pending>>
    BY <1>9 DEF StateRespond
  <2> QED
    BY <2>1, <2>2, <2>3
<1>10. CASE StateHandle \/ StateGuard \/ StateMatch
  BY <1>10 DEF StateHandle, StateGuard, StateMatch, StatePcs
<1>11. CASE StateLock \/ StateReset \/ StateComplete \/ StateUnlock
  BY <1>11 DEF StateLock, StateReset, StateComplete, StateUnlock, StatePcs,
               StateHoldsPcs
<1>12. CASE StateSignal
  BY <1>12 DEF StateSignal, WakeCmd, StatePcs, StateHoldsPcs, CmdPcs, WaitPcs
<1>13. CASE MainSeeRestart \/ MainReadState \/ MainSetGoAway \/ MainJoinCmd
  BY <1>13 DEF MainSeeRestart, MainReadState, MainSetGoAway, MainJoinCmd,
               MainGoto, MainPcs
<1>14. CASE MainSignal
  BY <1>14 DEF MainSignal, MainGoto, WakeCmd, MainPcs, CmdPcs, WaitPcs
<1>15. CASE MainJoinState \/ MainReconnect
  <2>1. <<>> \in Seq(Events)
    OBVIOUS
  <2> QED
    BY <1>15, <2>1 DEF MainJoinState, MainReconnect, MainGoto, MainPcs, Ops
<1>16. CASE TesterAnswer
  <2>1. ProgramEvents \subseteq Events
    BY DEF Events
  <2>2. {"UNLOADED", "LOADED", "LOAD_FAILED", "ABORT_LOAD"} \subseteq Events
    BY <2>1 DEF ProgramEvents, LoadEvents
  <2>3. events' \in Seq(Events)
    BY <1>16, <2>2, QueueTypes DEF TesterAnswer, TesterUnloaded, TesterLoaded,
       TesterLoadFailed, TesterLoadAborted, TesterAnswers
  <2> QED
    BY <1>16, <2>3 DEF TesterAnswer, TesterUnloaded, TesterLoaded,
       TesterLoadFailed, TesterLoadAborted, TesterAnswers
<1>17. CASE OperatorUnloads \/ OperatorLoads \/ OperatorLoadFails
  <2>1. events' \in Seq(Events)
    BY <1>17, QueueTypes DEF OperatorUnloads, OperatorLoads, OperatorLoadFails,
       OperatorActs, Events, ProgramEvents, LoadEvents
  <2> QED
    BY <1>17, <2>1 DEF OperatorUnloads, OperatorLoads, OperatorLoadFails,
       OperatorActs
<1>18. CASE TesterRestarts
  BY <1>18, QueueTypes DEF TesterRestarts, Ops, Events
<1>19. CASE UNCHANGED vars
  BY <1>19 DEF vars
<1> QED
  BY <1>1, <1>2, <1>3, <1>4, <1>5, <1>6, <1>7, <1>8, <1>9, <1>10, <1>11, <1>12,
     <1>13, <1>14, <1>15, <1>16, <1>17, <1>18, <1>19
     DEF Next, CmdStep, StateStep, MainStep, Environment

LEMMA TypeInit == Init => TypeOK
<1>1. <<>> \in Seq(Events)
  OBVIOUS
<1> QED
  BY <1>1 DEF Init, TypeOK, CmdPcs, StatePcs, MainPcs, Ops, Events, ProgramEvents,
     LoadEvents

THEOREM TypeCorrect == Spec => []TypeOK
  BY TypeInit, TypeStep, PTL DEF Spec

(* A recorded failure is only forgotten by the next recipe. *)
LEMMA ParseResultStep ==
  [Next]_vars => (pcCmd # "idle" /\ ~recipeParseResult => ~recipeParseResult')
<1> SUFFICES ASSUME [Next]_vars, pcCmd # "idle", ~recipeParseResult
             PROVE  ~recipeParseResult'
  OBVIOUS
<1>1. CASE CmdStep \/ CmdLock
  BY <1>1 DEF CmdStep, CmdLock, CmdQueryProgram, CmdSetup, CmdCall, CmdTest,
     CmdTestGoAway, CmdWait, CmdCheckUnload, CmdCheck, CmdSend
<1>2. CASE StateStep \/ StateLock
  BY <1>2 DEF StateStep, StateLock, StateRespond, StateHandle, StateGuard,
     StateMatch, StateReset, StateComplete, StateSignal, StateUnlock
<1>3. CASE MainStep
  BY <1>3 DEF MainStep, MainSeeRestart, MainReadState, MainSetGoAway,
     MainSignal, MainJoinCmd, MainJoinState, MainReconnect
<1>4. CASE TesterAnswer
  BY <1>4 DEF TesterAnswer, TesterUnloaded, TesterLoaded, TesterLoadFailed,
     TesterLoadAborted, TesterAnswers
<1>5. CASE Environment
  BY <1>5 DEF Environment, CmdRecipeDecodeAvailable, CmdRecipeDecode,
     CmdSpuriousWakeup, OperatorUnloads, OperatorLoads, OperatorLoadFails,
     OperatorActs, TesterRestarts
<1>6. CASE UNCHANGED vars
  BY <1>6 DEF vars
<1> QED
  BY <1>1, <1>2, <1>3, <1>4, <1>5, <1>6 DEF Next

(* A failure the state thread recorded stands until the recipe is over, even  *)
(* if the operator loads and unloads programs meanwhile.                      *)
THEOREM FailureStands == Spec => FailureSticks
  BY ParseResultStep, PTL DEF Spec, FailureSticks

--------------------------------------------------------------------------------
(* The session without operator.                                             *)

(* Short tuples, for the provers. *)
LEMMA Tuples ==
  ASSUME NEW a, NEW b, NEW c
  PROVE  /\ Len(<<a>>) = 1 /\ Len(<<a, b>>) = 2 /\ Len(<<a, b, c>>) = 3
         /\ Head(<<a>>) = a /\ Head(<<a, b>>) = a /\ Head(<<a, b, c>>) = a
         /\ Tail(<<a>>) = <<>> /\ Tail(<<a, b>>) = <<b>>
         /\ Tail(<<a, b, c>>) = <<b, c>>
         /\ <<>> \o <<a>> = <<a>> /\ <<>> \o <<a, b>> = <<a, b>>
<1> DEFINE S == {a, b, c}
<1>1. <<a>> \in Seq(S) /\ <<a, b>> \in Seq(S)
  OBVIOUS
<1>2. /\ Len(<<a>>) = 1 /\ Len(<<a, b>>) = 2 /\ Len(<<a, b, c>>) = 3
      /\ Head(<<a>>) = a /\ Head(<<a, b>>) = a /\ Head(<<a, b, c>>) = a
  OBVIOUS
<1>3. /\ Tail(<<a>>) = <<>> /\ Tail(<<a, b>>) = <<b>>
      /\ Tail(<<a, b, c>>) = <<b, c>>
  OBVIOUS
<1>4. <<>> \o <<a>> = <<a>> /\ <<>> \o <<a, b>> = <<a, b>>
  BY <1>1, ConcatEmptySeq
<1> QED
  BY <1>2, <1>3, <1>4

LEMMA AppendToEmpty == ASSUME NEW a PROVE Append(<<>>, a) = <<a>>
  OBVIOUS

LEMMA AppendToOne == ASSUME NEW a, NEW b PROVE Append(<<a>>, b) = <<a, b>>
<1> DEFINE S == {a, b}
           s == Append(<<a>>, b)
           t == <<a, b>>
<1>1. <<a>> \in Seq(S) /\ t \in Seq(S) /\ b \in S
  OBVIOUS
<1>2. s \in Seq(S) /\ Len(s) = 2 /\ s[1] = a /\ s[2] = b
  BY <1>1, AppendProperties
<1>3. Len(t) = 2 /\ t[1] = a /\ t[2] = b
  OBVIOUS
<1> HIDE DEF S, s, t
<1>4. \A i \in 1 .. Len(s) : s[i] = t[i]
  BY <1>2, <1>3
<1>5. s = t
  BY <1>1, <1>2, <1>3, <1>4, SeqEqual
<1> QED
  BY <1>5 DEF s, t

LEMMA AppendToTwo ==
  ASSUME NEW a, NEW b, NEW c PROVE Append(<<a, b>>, c) = <<a, b, c>>
<1> DEFINE S == {a, b, c}
           s == Append(<<a, b>>, c)
           t == <<a, b, c>>
<1>1. <<a, b>> \in Seq(S) /\ t \in Seq(S) /\ c \in S
  OBVIOUS
<1>2. s \in Seq(S) /\ Len(s) = 3 /\ s[1] = a /\ s[2] = b /\ s[3] = c
  BY <1>1, AppendProperties
<1>3. Len(t) = 3 /\ t[1] = a /\ t[2] = b /\ t[3] = c
  OBVIOUS
<1> HIDE DEF S, s, t
<1>4. \A i \in 1 .. Len(s) : s[i] = t[i]
  BY <1>2, <1>3
<1>5. s = t
  BY <1>1, <1>2, <1>3, <1>4, SeqEqual
<1> QED
  BY <1>5 DEF s, t

(* The queues QueueInv allows, spelt out. *)
SentTuples ==
  {<<>>, <<"LOADED">>, <<"LOAD_FAILED">>, <<"UNLOADED">>,
   <<"ABORT_LOAD", "UNLOADED">>}
EndedTuples ==
  {<<"RESTART">>, <<"LOADED", "RESTART">>, <<"LOAD_FAILED", "RESTART">>,
   <<"UNLOADED", "RESTART">>, <<"ABORT_LOAD", "UNLOADED", "RESTART">>}

LEMMA QueueTuples == /\ Sent = SentTuples
                     /\ Queues = SentTuples \union EndedTuples
<1>1. Sent = SentTuples
  BY DEF Sent, Answers, SentTuples
<1>2. {Append(q, "RESTART") : q \in SentTuples} = EndedTuples
  BY AppendToEmpty, AppendToOne, AppendToTwo DEF SentTuples, EndedTuples
<1> QED
  BY <1>1, <1>2 DEF Queues

(* The same queue after the tester's restart. *)
LEMMA RestartFacts ==
  ASSUME NEW q \in Sent
  PROVE  /\ Append(q, "RESTART") \in Queues
         /\ Append(q, "RESTART") \in Silent <=> q \in Silent
         /\ q \notin Silent => Head(Append(q, "RESTART")) = Head(q)
         /\ q \in Silent => q = <<>>
<1>1. q \in SentTuples /\ Append(q, "RESTART") \in Queues
  BY QueueTuples DEF Queues
<1>2. CASE q = <<>>
  BY <1>1, <1>2, AppendToEmpty DEF Silent
<1>3. CASE \E a \in LoadEvents : q = <<a>>
  <2>1. PICK a \in LoadEvents : q = <<a>>
    BY <1>3
  <2>2. Append(q, "RESTART") = <<a, "RESTART">> /\ a # "RESTART"
    BY <2>1, AppendToOne DEF LoadEvents
  <2>3. Append(q, "RESTART") \notin Silent /\ q \notin Silent
    BY <2>1, <2>2, Tuples DEF Silent
  <2> QED
    BY <1>1, <2>1, <2>2, <2>3, Tuples
<1>4. CASE q = <<"ABORT_LOAD", "UNLOADED">>
  BY <1>1, <1>4, AppendToTwo, Tuples DEF Silent
<1> QED
  BY <1>1, <1>2, <1>3, <1>4 DEF SentTuples, LoadEvents

(* The tester's answer on an empty queue. *)
LEMMA AnswerFacts ==
  /\ \A e \in LoadEvents :
        <<>> \o <<e>> \in Sent \ Silent /\ Head(<<>> \o <<e>>) = e
  /\ <<>> \o <<"ABORT_LOAD", "UNLOADED">> \in Sent \ Silent
  /\ Head(<<>> \o <<"ABORT_LOAD", "UNLOADED">>) = "ABORT_LOAD"
  /\ <<>> \in Sent /\ <<>> \in Silent /\ Sent \subseteq Queues
<1>1. <<>> \o <<"ABORT_LOAD", "UNLOADED">> \in Sent \ Silent
  BY Tuples DEF Sent, Answers, Silent
<1>2. \A e \in LoadEvents : <<>> \o <<e>> \in Sent \ Silent
  BY Tuples DEF LoadEvents, Sent, Answers, Silent
<1>3. <<>> \in Sent /\ <<>> \in Silent /\ Sent \subseteq Queues
  BY DEF Sent, Silent, Queues
<1> QED
  BY <1>1, <1>2, <1>3, Tuples

(* What StateRespond takes off such a queue and what it leaves. *)
LEMMA RespondFacts ==
  ASSUME NEW q \in Queues, q # <<>>
  PROVE  /\ Tail(q) \in Queues /\ (q \in Sent => Tail(q) \in Sent)
         /\ q \in Silent => Head(q) = "RESTART" /\ Tail(q) = <<>>
         /\ q \notin Silent => Head(q) \in ProgramEvents
         /\ Tail(q) \notin Silent
              => Head(q) = "ABORT_LOAD" /\ Head(Tail(q)) = "UNLOADED"
         /\ Head(q) = "RESTART" => q \in Silent /\ q \notin Sent
         /\ Head(q) = "ABORT_LOAD" => Tail(q) \notin Silent
<1>1. CASE \E a \in LoadEvents : q = <<a>>
  <2>1. PICK a \in LoadEvents : q = <<a>>
    BY <1>1
  <2>2. /\ Head(q) = a /\ Tail(q) = <<>> /\ a # "RESTART" /\ q \notin Silent
        /\ a # "ABORT_LOAD"
    BY <2>1, Tuples DEF LoadEvents, Silent
  <2> QED
    BY <2>2 DEF Sent, Queues, ProgramEvents, Silent
<1>2. CASE \E a \in LoadEvents : q = <<a, "RESTART">>
  <2>1. PICK a \in LoadEvents : q = <<a, "RESTART">>
    BY <1>2
  <2>2. /\ Head(q) = a /\ Tail(q) = <<"RESTART">> /\ Len(q) = 2
        /\ a # "RESTART" /\ a # "ABORT_LOAD" /\ q \notin Silent
    BY <2>1, Tuples DEF LoadEvents, Silent
  <2>3. q \notin Sent
    BY <2>1, <2>2, QueueTuples, Tuples DEF SentTuples
  <2>4. Tail(q) \in Queues /\ Tail(q) \in Silent
    BY <2>2, QueueTuples DEF EndedTuples, Silent
  <2> QED
    BY <2>2, <2>3, <2>4 DEF ProgramEvents
<1>3. CASE q = <<"ABORT_LOAD", "UNLOADED">>
  <2>1. Head(q) = "ABORT_LOAD" /\ Tail(q) = <<"UNLOADED">> /\ q \notin Silent
    BY <1>3, Tuples DEF Silent
  <2>2. /\ Tail(q) \in Sent /\ Tail(q) \in Queues /\ Tail(q) \notin Silent
        /\ Head(Tail(q)) = "UNLOADED"
    BY <2>1, Tuples DEF Sent, Answers, Queues, Silent
  <2> QED
    BY <2>1, <2>2 DEF ProgramEvents
<1>4. CASE q = <<"ABORT_LOAD", "UNLOADED", "RESTART">>
  <2>1. /\ Head(q) = "ABORT_LOAD" /\ Tail(q) = <<"UNLOADED", "RESTART">>
        /\ Len(q) = 3 /\ q \notin Silent
    BY <1>4, Tuples DEF Silent
  <2>2. /\ Tail(q) \in Queues /\ Head(Tail(q)) = "UNLOADED" /\ Len(Tail(q)) = 2
    BY <2>1, Tuples, QueueTuples DEF EndedTuples
  <2>4. Tail(q) \notin Silent
    <3>1. Len(<<>>) # 2
      OBVIOUS
    <3>2. Len(<<"RESTART">>) # 2
      OBVIOUS
    <3> QED
      BY <2>2, <3>1, <3>2 DEF Silent
  <2>3. q \notin Sent
    <3>1. Len(<<>>) # 3
      OBVIOUS
    <3>2. \A a \in LoadEvents : Len(<<a>>) # 3
      BY Tuples
    <3>3. Len(<<"ABORT_LOAD", "UNLOADED">>) # 3
      BY Tuples
    <3>4. \A s \in SentTuples :
             \/ s = <<>> \/ s = <<"ABORT_LOAD", "UNLOADED">>
             \/ \E a \in LoadEvents : s = <<a>>
      BY DEF SentTuples, LoadEvents
    <3>5. \A s \in SentTuples : Len(s) # 3
      BY <3>1, <3>2, <3>3, <3>4
    <3> QED
      BY <2>1, <3>5, QueueTuples
  <2> QED
    BY <2>1, <2>2, <2>3, <2>4 DEF ProgramEvents
<1>5. CASE q = <<"RESTART">>
  <2>1. Head(q) = "RESTART" /\ Tail(q) = <<>> /\ Len(q) = 1
    BY <1>5, Tuples
  <2>2. q \notin Sent
    BY <2>1, QueueTuples, Tuples DEF SentTuples
  <2> QED
    BY <1>5, <2>1, <2>2 DEF Sent, Queues, Silent
<1> QED
  BY <1>1, <1>2, <1>3, <1>4, <1>5, QueueTuples
     DEF SentTuples, EndedTuples, LoadEvents

(* What a wait is armed for, and that it is going to be answered, is kept. *)
LEMMA WakeStep ==
  ASSUME OperatorOps = {}, QuietInv, [Next]_vars
  PROVE  WakeInv'
<1> USE DEF QuietInv, ProtocolInv, TypeOK, MutexInv, QueueInv, AnswerInv,
    CompleteInv, ShutdownInv, NoLostCompletion, HasAnswer, Answering, WakeInv,
    WakeUpIsDue, Armed, CmdHoldsPcs, StateHoldsPcs, WaitPcs, StagePcs, SetupPcs,
    StopPcs, LoadEvents, ProgramEvents, Events,
    cmdVars, stateVars, waitVars, testerVars
<1>1. CASE CmdQueryProgram
  BY <1>1 DEF CmdQueryProgram
<1>2. CASE CmdSetup
  BY <1>2 DEF CmdSetup, CmdGoto, WaitStates
<1>3. CASE CmdCall
  BY <1>3 DEF CmdCall
<1>4. CASE CmdTest
  BY <1>4 DEF CmdTest, AfterWait
<1>5. CASE CmdTestGoAway
  BY <1>5 DEF CmdTestGoAway, AfterWait
<1>6. CASE CmdLock \/ CmdWait \/ CmdSpuriousWakeup
  BY <1>6 DEF CmdLock, CmdWait, CmdSpuriousWakeup, CmdGoto
<1>7. CASE CmdCheckUnload
  BY <1>7 DEF CmdCheckUnload
<1>8. CASE CmdCheck \/ CmdSend
  BY <1>8 DEF CmdCheck, CmdSend, AfterCheck, AfterSend
<1>9. CASE CmdRecipeDecodeAvailable \/ CmdRecipeDecode
  BY <1>9 DEF CmdRecipeDecodeAvailable, CmdRecipeDecode
<1>10. CASE StateRespond
  BY <1>10, RespondFacts DEF StateRespond
<1>11. CASE StateHandle \/ StateGuard
  BY <1>11 DEF StateHandle, StateGuard
<1>12. CASE StateMatch
  BY <1>12 DEF StateMatch, WaitStates, Ops
<1>13. CASE StateLock \/ StateReset \/ StateComplete
  BY <1>13 DEF StateLock, StateReset, StateComplete
<1>14. CASE StateSignal \/ MainSignal
  BY <1>14 DEF StateSignal, MainSignal, MainGoto, WakeCmd
<1>15. CASE StateUnlock
  BY <1>15 DEF StateUnlock
<1>16. CASE MainSeeRestart \/ MainReadState \/ MainSetGoAway \/ MainJoinCmd
  BY <1>16 DEF MainSeeRestart, MainReadState, MainSetGoAway,
     MainJoinCmd, MainGoto
<1>17. CASE MainJoinState \/ MainReconnect
  BY <1>17, AnswerFacts DEF MainJoinState, MainReconnect, MainGoto
<1>18. CASE TesterAnswer
  <2>1. /\ events = <<>> /\ pcCmd \in WaitPcs /\ pending = op /\ up
        /\ ~Answering /\ ~taskComplete
        /\ UNCHANGED <<cmdVars, stateVars, waitVars>>
    BY <1>18, RestartFacts DEF TesterAnswer, TesterUnloaded, TesterLoaded,
       TesterLoadFailed, TesterLoadAborted, TesterAnswers
  <2>2. HasAnswer' /\ (op = "unload" => Head(events)' = "UNLOADED")
    BY <1>18, <2>1, AnswerFacts DEF TesterAnswer, TesterUnloaded, TesterLoaded,
       TesterLoadFailed, TesterLoadAborted, TesterAnswers
  <2> HIDE DEF HasAnswer
  <2> QED
    BY <2>1, <2>2
<1>19. CASE TesterRestarts
  BY <1>19, RestartFacts DEF TesterRestarts
<1>20. CASE UNCHANGED vars
  BY <1>20 DEF vars
<1> QED
  BY <1>1, <1>2, <1>3, <1>4, <1>5, <1>6, <1>7, <1>8, <1>9, <1>10, <1>11, <1>12, <1>13, <1>14, <1>15, <1>16, <1>17, <1>18, <1>19, <1>20
     DEF Next, CmdStep, StateStep, MainStep, Environment, OperatorUnloads,
     OperatorLoads, OperatorLoadFails, OperatorActs

(* Every step keeps the invariant, one action at a time. *)
LEMMA QuietStep ==
  ASSUME OperatorOps = {}, QuietInv, [Next]_vars
  PROVE  QuietInv'
<1> USE DEF QuietInv, ProtocolInv, TypeOK, MutexInv, QueueInv, AnswerInv,
    CompleteInv, ShutdownInv, OutcomeInv, NoLostCompletion, HasAnswer, Answering,
    CmdHoldsPcs, StateHoldsPcs, WaitPcs, StagePcs, SetupPcs, StopPcs,
    LoadEvents, ProgramEvents, Events, Failures,
    cmdVars, stateVars, waitVars, testerVars
<1>0. TypeOK' /\ WakeInv'
  BY TypeStep, WakeStep
<1>1. CASE CmdQueryProgram
  <2>1. MutexInv'
    BY <1>1 DEF CmdQueryProgram
  <2>2. QueueInv'
    BY <1>1 DEF CmdQueryProgram
  <2>3. AnswerInv'
    BY <1>1 DEF CmdQueryProgram
  <2>4. CompleteInv'
    BY <1>1 DEF CmdQueryProgram
  <2>5. ShutdownInv'
    BY <1>1 DEF CmdQueryProgram
  <2>6. OutcomeInv'
    BY <1>1 DEF CmdQueryProgram
  <2> QED
    BY <1>0, <2>1, <2>2, <2>3, <2>4, <2>5, <2>6
<1>2. CASE CmdSetup
  <2>1. ProtocolInv'
    BY <1>2 DEF CmdSetup, CmdGoto
  <2> QED
    BY <1>0, <2>1
<1>3. CASE CmdCall
  <2>1. ProtocolInv'
    BY <1>3 DEF CmdCall
  <2> QED
    BY <1>0, <2>1
<1>4. CASE CmdTest
  <2>1. ProtocolInv'
    BY <1>4 DEF CmdTest, AfterWait
  <2> QED
    BY <1>0, <2>1
<1>5. CASE CmdTestGoAway
  <2>1. MutexInv'
    BY <1>5, AnswerFacts DEF CmdTestGoAway, AfterWait
  <2>2. QueueInv'
    BY <1>5, AnswerFacts DEF CmdTestGoAway, AfterWait
  <2>3. AnswerInv'
    BY <1>5, AnswerFacts DEF CmdTestGoAway, AfterWait
  <2>4. CompleteInv'
    BY <1>5, AnswerFacts DEF CmdTestGoAway, AfterWait
  <2>5. ShutdownInv'
    BY <1>5, AnswerFacts DEF CmdTestGoAway, AfterWait
  <2>6. OutcomeInv'
    BY <1>5, AnswerFacts DEF CmdTestGoAway, AfterWait
  <2> QED
    BY <1>0, <2>1, <2>2, <2>3, <2>4, <2>5, <2>6
<1>6. CASE CmdLock
  <2>1. ProtocolInv'
    BY <1>6 DEF CmdLock
  <2> QED
    BY <1>0, <2>1
<1>7. CASE CmdWait
  <2>1. ProtocolInv'
    BY <1>7 DEF CmdWait, CmdGoto
  <2> QED
    BY <1>0, <2>1
<1>8. CASE CmdSpuriousWakeup
  <2>1. ProtocolInv'
    BY <1>8 DEF CmdSpuriousWakeup, CmdGoto
  <2> QED
    BY <1>0, <2>1
<1>9. CASE CmdCheckUnload
  <2>1. MutexInv'
    BY <1>9 DEF CmdCheckUnload
  <2>2. QueueInv'
    BY <1>9 DEF CmdCheckUnload
  <2>3. AnswerInv'
    BY <1>9 DEF CmdCheckUnload
  <2>4. CompleteInv'
    BY <1>9 DEF CmdCheckUnload
  <2>5. ShutdownInv'
    BY <1>9 DEF CmdCheckUnload
  <2>6. OutcomeInv'
    BY <1>9 DEF CmdCheckUnload
  <2> QED
    BY <1>0, <2>1, <2>2, <2>3, <2>4, <2>5, <2>6
<1>10. CASE CmdCheck
  <2>1. ProtocolInv'
    BY <1>10 DEF CmdCheck, AfterCheck
  <2> QED
    BY <1>0, <2>1
<1>11. CASE CmdSend
  <2>1. ProtocolInv'
    BY <1>11 DEF CmdSend, AfterSend
  <2> QED
    BY <1>0, <2>1
<1>12. CASE CmdRecipeDecodeAvailable
  <2>1. ProtocolInv'
    BY <1>12 DEF CmdRecipeDecodeAvailable
  <2> QED
    BY <1>0, <2>1
<1>13. CASE CmdRecipeDecode
  <2>1. ProtocolInv'
    BY <1>13 DEF CmdRecipeDecode
  <2> QED
    BY <1>0, <2>1
<1>14. CASE StateRespond
  <2>1. ProtocolInv'
    BY <1>14, RespondFacts DEF StateRespond
  <2> QED
    BY <1>0, <2>1
<1>15. CASE StateHandle
  <2>1. ProtocolInv'
    BY <1>15 DEF StateHandle
  <2> QED
    BY <1>0, <2>1
<1>16. CASE StateGuard
  <2>1. ProtocolInv'
    BY <1>16 DEF StateGuard
  <2> QED
    BY <1>0, <2>1
<1>17. CASE StateMatch
  <2>1. ProtocolInv'
    BY <1>17 DEF StateMatch
  <2> QED
    BY <1>0, <2>1
<1>18. CASE StateLock
  <2>1. ProtocolInv'
    BY <1>18 DEF StateLock
  <2> QED
    BY <1>0, <2>1
<1>19. CASE StateReset
  <2>1. ProtocolInv'
    BY <1>19 DEF StateReset
  <2> QED
    BY <1>0, <2>1
<1>20. CASE StateComplete
  <2>1. ProtocolInv'
    BY <1>20 DEF StateComplete
  <2> QED
    BY <1>0, <2>1
<1>21. CASE StateSignal
  <2>1. ProtocolInv'
    BY <1>21 DEF StateSignal, WakeCmd
  <2> QED
    BY <1>0, <2>1
<1>22. CASE StateUnlock
  <2>1. ProtocolInv'
    BY <1>22 DEF StateUnlock
  <2> QED
    BY <1>0, <2>1
<1>23. CASE MainSeeRestart
  <2>1. ProtocolInv'
    BY <1>23 DEF MainSeeRestart, MainGoto
  <2> QED
    BY <1>0, <2>1
<1>24. CASE MainReadState
  <2>1. ProtocolInv'
    BY <1>24 DEF MainReadState
  <2> QED
    BY <1>0, <2>1
<1>25. CASE MainSetGoAway
  <2>1. ProtocolInv'
    BY <1>25 DEF MainSetGoAway, MainGoto
  <2> QED
    BY <1>0, <2>1
<1>26. CASE MainSignal
  <2>1. ProtocolInv'
    BY <1>26 DEF MainSignal, MainGoto, WakeCmd
  <2> QED
    BY <1>0, <2>1
<1>27. CASE MainJoinCmd
  <2>1. ProtocolInv'
    BY <1>27 DEF MainJoinCmd, MainGoto
  <2> QED
    BY <1>0, <2>1
<1>28. CASE MainJoinState
  <2>1. ProtocolInv'
    BY <1>28, AnswerFacts, QueueTuples DEF MainJoinState, MainGoto
  <2> QED
    BY <1>0, <2>1
<1>29. CASE MainReconnect
  <2>1. MutexInv'
    BY <1>29, AnswerFacts, QueueTuples DEF MainReconnect, MainGoto
  <2>2. QueueInv'
    BY <1>29, AnswerFacts, QueueTuples DEF MainReconnect, MainGoto
  <2>3. AnswerInv'
    BY <1>29, AnswerFacts, QueueTuples DEF MainReconnect, MainGoto
  <2>4. CompleteInv'
    BY <1>29, AnswerFacts, QueueTuples DEF MainReconnect, MainGoto
  <2>5. ShutdownInv'
    BY <1>29, AnswerFacts, QueueTuples DEF MainReconnect, MainGoto
  <2>6. OutcomeInv'
    BY <1>29, AnswerFacts, QueueTuples DEF MainReconnect, MainGoto
  <2> QED
    BY <1>0, <2>1, <2>2, <2>3, <2>4, <2>5, <2>6
<1>30. CASE TesterUnloaded
  <2>0. /\ events = <<>> /\ pcCmd \in WaitPcs /\ pending = op
        /\ ~Answering /\ ~taskComplete
    BY <1>30, RestartFacts DEF TesterUnloaded, TesterAnswers
  <2>1. MutexInv'
    BY <1>30, <2>0, AnswerFacts DEF TesterUnloaded, TesterAnswers
  <2>2. QueueInv'
    BY <1>30, <2>0, AnswerFacts DEF TesterUnloaded, TesterAnswers
  <2>3. AnswerInv'
    BY <1>30, <2>0, AnswerFacts DEF TesterUnloaded, TesterAnswers
  <2>4. CompleteInv'
    BY <1>30, <2>0, AnswerFacts DEF TesterUnloaded, TesterAnswers
  <2>5. ShutdownInv'
    BY <1>30, <2>0, AnswerFacts DEF TesterUnloaded, TesterAnswers
  <2>6. OutcomeInv'
    BY <1>30, <2>0, AnswerFacts DEF TesterUnloaded, TesterAnswers
  <2> QED
    BY <1>0, <2>1, <2>2, <2>3, <2>4, <2>5, <2>6
<1>31. CASE TesterLoaded
  <2>0. /\ events = <<>> /\ pcCmd \in WaitPcs /\ pending = op
        /\ ~Answering /\ ~taskComplete
    BY <1>31, RestartFacts DEF TesterLoaded, TesterAnswers
  <2>1. MutexInv'
    BY <1>31, <2>0, AnswerFacts DEF TesterLoaded, TesterAnswers
  <2>2. QueueInv'
    BY <1>31, <2>0, AnswerFacts DEF TesterLoaded, TesterAnswers
  <2>3. AnswerInv'
    BY <1>31, <2>0, AnswerFacts DEF TesterLoaded, TesterAnswers
  <2>4. CompleteInv'
    BY <1>31, <2>0, AnswerFacts DEF TesterLoaded, TesterAnswers
  <2>5. ShutdownInv'
    BY <1>31, <2>0, AnswerFacts DEF TesterLoaded, TesterAnswers
  <2>6. OutcomeInv'
    BY <1>31, <2>0, AnswerFacts DEF TesterLoaded, TesterAnswers
  <2> QED
    BY <1>0, <2>1, <2>2, <2>3, <2>4, <2>5, <2>6
<1>32. CASE TesterLoadFailed
  <2>0. /\ events = <<>> /\ pcCmd \in WaitPcs /\ pending = op
        /\ ~Answering /\ ~taskComplete
    BY <1>32, RestartFacts DEF TesterLoadFailed, TesterAnswers
  <2>1. MutexInv'
    BY <1>32, <2>0, AnswerFacts DEF TesterLoadFailed, TesterAnswers
  <2>2. QueueInv'
    BY <1>32, <2>0, AnswerFacts DEF TesterLoadFailed, TesterAnswers
  <2>3. AnswerInv'
    BY <1>32, <2>0, AnswerFacts DEF TesterLoadFailed, TesterAnswers
  <2>4. CompleteInv'
    BY <1>32, <2>0, AnswerFacts DEF TesterLoadFailed, TesterAnswers
  <2>5. ShutdownInv'
    BY <1>32, <2>0, AnswerFacts DEF TesterLoadFailed, TesterAnswers
  <2>6. OutcomeInv'
    BY <1>32, <2>0, AnswerFacts DEF TesterLoadFailed, TesterAnswers
  <2> QED
    BY <1>0, <2>1, <2>2, <2>3, <2>4, <2>5, <2>6
<1>33. CASE TesterLoadAborted
  <2>0. /\ events = <<>> /\ pcCmd \in WaitPcs /\ pending = op
        /\ ~Answering /\ ~taskComplete
    BY <1>33, RestartFacts DEF TesterLoadAborted, TesterAnswers
  <2>1. MutexInv'
    BY <1>33, <2>0, AnswerFacts DEF TesterLoadAborted, TesterAnswers
  <2>2. QueueInv'
    BY <1>33, <2>0, AnswerFacts DEF TesterLoadAborted, TesterAnswers
  <2>3. AnswerInv'
    BY <1>33, <2>0, AnswerFacts DEF TesterLoadAborted, TesterAnswers
  <2>4. CompleteInv'
    BY <1>33, <2>0, AnswerFacts DEF TesterLoadAborted, TesterAnswers
  <2>5. ShutdownInv'
    BY <1>33, <2>0, AnswerFacts DEF TesterLoadAborted, TesterAnswers
  <2>6. OutcomeInv'
    BY <1>33, <2>0, AnswerFacts DEF TesterLoadAborted, TesterAnswers
  <2> QED
    BY <1>0, <2>1, <2>2, <2>3, <2>4, <2>5, <2>6
<1>34. CASE TesterRestarts
  <2>1. ProtocolInv'
    BY <1>34, RestartFacts DEF TesterRestarts
  <2> QED
    BY <1>0, <2>1
<1>35. CASE UNCHANGED vars
  BY <1>0, <1>35 DEF vars
<1> QED
  BY <1>0, <1>1, <1>2, <1>3, <1>4, <1>5, <1>6, <1>7, <1>8, <1>9, <1>10,
     <1>11, <1>12, <1>13, <1>14, <1>15, <1>16, <1>17, <1>18, <1>19, <1>20,
     <1>21, <1>22, <1>23, <1>24, <1>25, <1>26, <1>27, <1>28, <1>29, <1>30,
     <1>31, <1>32, <1>33, <1>34, <1>35 DEF Next, CmdStep, StateStep,
     MainStep, TesterAnswer, Environment, OperatorUnloads, OperatorLoads,
     OperatorLoadFails, OperatorActs

LEMMA QuietStart == Init => QuietInv
<1>1. Init => ProtocolInv
  BY AnswerFacts DEF Init, ProtocolInv, MutexInv, QueueInv, AnswerInv,
     CompleteInv, ShutdownInv, OutcomeInv, NoLostCompletion, HasAnswer, Answering,
     CmdHoldsPcs, StateHoldsPcs, WaitPcs, StagePcs, SetupPcs
<1>2. Init => WakeInv
  BY AnswerFacts DEF Init, WakeInv, WakeUpIsDue, HasAnswer, Answering, WaitPcs,
     CmdHoldsPcs
<1> QED
  BY <1>1, <1>2, TypeInit DEF QuietInv

(* Without an operator the whole of QuietInv holds, restarts included. *)
THEOREM QuietInvariant == ASSUME OperatorOps = {} PROVE Spec => []QuietInv
<1>1. QuietInv /\ [Next]_vars => QuietInv'
  BY QuietStep
<1> QED
  BY <1>1, QuietStart, PTL DEF Spec

(* No operator: m_condMutex excludes, though setupProgramNotification         *)
(* re-initialises it before every wait.                                       *)
THEOREM MutexExcludes == ASSUME OperatorOps = {} PROVE Spec => []MutexExclusive
<1>1. QuietInv => MutexExclusive
  BY DEF QuietInv, ProtocolInv, MutexInv, MutexExclusive, CmdHoldsPcs,
         StateHoldsPcs
<1> QED
  BY <1>1, QuietInvariant, PTL

(* No operator: no completion falls between the test and the sleep. *)
THEOREM CompletionSeen == ASSUME OperatorOps = {} PROVE Spec => []NoLostCompletion
<1>1. QuietInv => NoLostCompletion
  BY DEF QuietInv, ProtocolInv, CompleteInv
<1> QED
  BY <1>1, QuietInvariant, PTL

(* No operator: a recipe that waits for a live tester has a call it works on, *)
(* an answer on its way that the wait is armed for, or a completion the state *)
(* thread is about to signal.                                                 *)
THEOREM NobodyWaitsInVain == ASSUME OperatorOps = {} PROVE Spec => []WakeUpIsDue
<1>1. QuietInv => WakeUpIsDue
  BY DEF QuietInv, WakeInv
<1> QED
  BY <1>1, QuietInvariant, PTL

(* No operator: parameters are only sent to a tester with a loaded program. *)
THEOREM ParamsAfterLoad ==
  ASSUME OperatorOps = {} PROVE Spec => []ParamsOnlyWithProgram
<1>1. QuietInv => ParamsOnlyWithProgram
  BY DEF QuietInv, ProtocolInv, OutcomeInv, ParamsOnlyWithProgram, StagePcs
<1> QED
  BY <1>1, QuietInvariant, PTL

(* No operator: a wait on a live tester ends only after the tester's answer. *)
THEOREM WaitsForOwnAnswer ==
  ASSUME OperatorOps = {} PROVE Spec => WaitReturnsAfterAnswer
<1>1. QuietInv /\ [Next]_vars => (WaitReturns /\ up => pending = "none")
  <2> SUFFICES ASSUME QuietInv, [Next]_vars, WaitReturns, up
               PROVE  pending = "none"
    OBVIOUS
  <2> USE DEF WaitReturns, cmdVars
  <2>1. taskComplete \/ goAway => pending = "none"
    BY DEF QuietInv, ProtocolInv, CompleteInv, ShutdownInv
  <2>2. CASE CmdTest \/ CmdTestGoAway
    BY <2>1, <2>2 DEF CmdTest, CmdTestGoAway, WaitPcs, CmdHoldsPcs
  <2>3. CASE CmdLock \/ CmdWait \/ CmdSpuriousWakeup
    BY <2>3 DEF CmdLock, CmdWait, CmdSpuriousWakeup, CmdGoto, WaitPcs, CmdHoldsPcs
  <2>4. CASE CmdQueryProgram \/ CmdSetup \/ CmdCall \/ CmdCheckUnload
             \/ CmdRecipeDecodeAvailable \/ CmdRecipeDecode
    BY <2>4 DEF CmdQueryProgram, CmdSetup, CmdGoto, CmdCall, CmdCheckUnload,
       CmdRecipeDecodeAvailable, CmdRecipeDecode, WaitPcs, CmdHoldsPcs
  <2>5. CASE CmdCheck \/ CmdSend
    BY <2>5 DEF CmdCheck, CmdSend, AfterCheck, AfterSend, WaitPcs, CmdHoldsPcs
  <2>6. CASE StateSignal \/ MainSignal
    BY <2>6 DEF StateSignal, MainSignal, MainGoto, WakeCmd, WaitPcs
  <2>7. CASE StateLock \/ (StateStep /\ ~StateSignal)
    BY <2>7 DEF StateStep, StateLock, StateRespond, StateHandle, StateGuard,
       StateMatch, StateReset, StateComplete, StateUnlock
  <2>8. CASE MainStep /\ ~MainSignal
    BY <2>8 DEF MainStep, MainSeeRestart, MainReadState, MainSetGoAway,
       MainJoinCmd, MainJoinState, MainReconnect
  <2>9. CASE TesterAnswer \/ TesterRestarts
    BY <2>9 DEF TesterAnswer, TesterUnloaded, TesterLoaded, TesterLoadFailed,
       TesterLoadAborted, TesterAnswers, TesterRestarts
  <2>10. CASE OperatorUnloads \/ OperatorLoads \/ OperatorLoadFails
    BY <2>10 DEF OperatorUnloads, OperatorLoads, OperatorLoadFails, OperatorActs
  <2>11. CASE UNCHANGED vars
    BY <2>11 DEF vars
  <2> QED
    BY <2>2, <2>3, <2>4, <2>5, <2>6, <2>7, <2>8, <2>9, <2>10, <2>11
       DEF Next, CmdStep, MainStep, Environment
<1> QED
  BY <1>1, QuietInvariant, PTL DEF Spec, WaitReturnsAfterAnswer
================================================================================
