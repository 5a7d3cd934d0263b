-------------------------- MODULE TesterSessionProofs --------------------------
(***************************************************************************)
(* Theorems about TesterSession, wherever the tester may restart or die.   *)
(***************************************************************************)
EXTENDS TesterSession, TLAPS

LEMMA SessionInit == Init => SessionInv
  BY DEF Init, SessionInv, TypeOK, MainPcs, StartPcs, StopPcs, Listeners,
     ListenerStates, Running, StageInv, OrderInv, HandlersHaveTester,
     StatesOutliveCommands

(* What is built and taken down together stays together, step by step. *)
LEMMA SessionStep == SessionInv /\ [Next]_vars => SessionInv'
<1> SUFFICES ASSUME SessionInv, [Next]_vars PROVE SessionInv'
  OBVIOUS
<1> USE DEF SessionInv, TypeOK, MainPcs, StartPcs, StopPcs, Listeners,
        ListenerStates, Running, StageInv, OrderInv, HandlersHaveTester,
        StatesOutliveCommands, Goto, sessionVars, testerVars
<1>1. CASE Connect
  BY <1>1 DEF Connect
<1>2. CASE StartListener
  <2>0. UNCHANGED <<internTHC, programCtrl, registered, testerRestart, testerVars>>
    BY <1>2 DEF StartListener
  <2>1. CASE pc = "startStates"
    <3>1. \/ pc' = "startCmd" /\ listener' = [listener EXCEPT !["states"] = "polling"]
          \/ pc' = "active" /\ listener' = [listener EXCEPT !["states"] = "unstarted"]
      BY <1>2, <2>1 DEF StartListener, NextStart, Started
    <3> QED
      BY <2>0, <2>1, <3>1
  <2>2. CASE pc = "startCmd"
    <3>1. \/ /\ pc' = "startStreams"
             /\ listener' = [listener EXCEPT !["cmd"] = "polling"]
          \/ pc' = "active" /\ listener' = [listener EXCEPT !["cmd"] = "unstarted"]
      BY <1>2, <2>2 DEF StartListener, NextStart, Started
    <3> QED
      BY <2>0, <2>2, <3>1
  <2>3. CASE pc = "startStreams"
    <3>1. /\ pc' = "active"
          /\ \E s \in {"polling", "unstarted", listener["streams"]} :
               listener' = [listener EXCEPT !["streams"] = s]
      BY <1>2, <2>3 DEF StartListener, NextStart, Started
    <3> QED
      BY <2>0, <2>3, <3>1
  <2> QED
    BY <1>2, <2>1, <2>2, <2>3 DEF StartListener
<1>3. CASE ActiveTester \/ SetTesterRestart \/ IsTesterRestart
  <2>1. UNCHANGED <<sessionVars, testerVars>>
    BY <1>3 DEF ActiveTester, SetTesterRestart, IsTesterRestart
  <2>2. /\ pc \in {"active", "resetFlag", "watch"}
        /\ pc' \in {"register", "watch", "stopStreams"}
        /\ testerRestart' \in BOOLEAN
    BY <1>3 DEF ActiveTester, SetTesterRestart, IsTesterRestart
  <2> QED
    BY <2>1, <2>2
<1>4. CASE SetupRegisterCommands
  BY <1>4 DEF SetupRegisterCommands
<1>5. CASE StopListener
  <2>0. /\ registered' = (registered /\ pc # "stopCmd")
        /\ UNCHANGED <<internTHC, programCtrl, testerRestart, testerVars>>
    BY <1>5 DEF StopListener
  <2>1. CASE pc = "stopStreams"
    <3>1. pc' = "stopCmd" /\ listener' = [listener EXCEPT !["streams"] = "none"]
      BY <1>5, <2>1 DEF StopListener, NextStop, Stopped
    <3> QED
      BY <2>0, <2>1, <3>1
  <2>2. CASE pc = "stopCmd"
    <3>1. pc' = "stopStates" /\ listener' = [listener EXCEPT !["cmd"] = "none"]
      BY <1>5, <2>2 DEF StopListener, NextStop, Stopped
    <3> QED
      BY <2>0, <2>2, <3>1
  <2>3. CASE pc = "stopStates"
    <3>1. pc' = "release" /\ listener' = [listener EXCEPT !["states"] = "none"]
      BY <1>5, <2>3 DEF StopListener, NextStop, Stopped
    <3> QED
      BY <2>0, <2>3, <3>1
  <2> QED
    BY <1>5, <2>1, <2>2, <2>3 DEF StopListener, NextStop
<1>6. CASE Disconnect
  BY <1>6 DEF Disconnect
<1>7. CASE Respond
  <2>1. PICK l \in Listeners : /\ listener[l] = "polling"
                               /\ listener' = [listener EXCEPT ![l] = "handling"]
    BY <1>7 DEF Respond
  <2>2. /\ UNCHANGED <<pc, internTHC, programCtrl, registered, testerRestart>>
        /\ UNCHANGED testerVars /\ linked
    BY <1>7 DEF Respond
  <2> QED
    BY <2>1, <2>2
<1>8. CASE \E l \in Listeners : HandlerReturns(l)
  <2>1. PICK l \in Listeners : HandlerReturns(l)
    BY <1>8
  <2> QED
    BY <2>1 DEF HandlerReturns
<1>9. CASE RestartTester
  BY <1>9 DEF RestartTester
<1>10. CASE RespondFails
  <2>1. PICK l \in Listeners : /\ listener[l] = "polling"
                               /\ listener' = [listener EXCEPT ![l] = "dead"]
    BY <1>10 DEF RespondFails
  <2>2. /\ UNCHANGED <<pc, internTHC, programCtrl, registered, testerRestart>>
        /\ UNCHANGED testerVars
    BY <1>10 DEF RespondFails
  <2> QED
    BY <2>1, <2>2
<1>11. CASE TesterRestarts
  BY <1>11 DEF TesterRestarts
<1>12. CASE TesterDies
  <2>1. UNCHANGED <<pc, sessionVars, testerRestart, restartSent>>
    BY <1>12 DEF TesterDies
  <2>2. tester' = "down" /\ linked' = FALSE
    BY <1>12 DEF TesterDies
  <2> QED
    BY <2>1, <2>2
<1>13. CASE TesterComesUp
  <2>1. UNCHANGED <<pc, sessionVars, testerRestart, linked, restartSent>>
    BY <1>13 DEF TesterComesUp
  <2>2. tester' \in {"booting", "ready"}
    BY <1>13 DEF TesterComesUp
  <2> QED
    BY <2>1, <2>2
<1>14. CASE UNCHANGED vars
  BY <1>14 DEF vars
<1> QED
  BY <1>1, <1>2, <1>3, <1>4, <1>5, <1>6, <1>7, <1>8, <1>9, <1>10, <1>11, <1>12,
     <1>13, <1>14 DEF Next, MainStep, ListenerStep

(* The whole invariant. *)
THEOREM SessionInvariant == Spec => []SessionInv
  BY SessionInit, SessionStep, PTL DEF Spec

(* Every variable stays in its type. *)
THEOREM TypeCorrect == Spec => []TypeOK
<1>1. SessionInv => TypeOK
  BY DEF SessionInv
<1> QED
  BY <1>1, SessionInvariant, PTL

(* No handler runs on what disconnect has deleted. *)
THEOREM HandlersSafe == Spec => []HandlersHaveTester
<1>1. SessionInv => HandlersHaveTester
  BY DEF SessionInv
<1> QED
  BY <1>1, SessionInvariant, PTL

(* The command listener never runs without a state listener behind it. *)
THEOREM CommandsHaveStates == Spec => []StatesOutliveCommands
<1>1. SessionInv => StatesOutliveCommands
  BY DEF SessionInv
<1> QED
  BY <1>1, SessionInvariant, PTL

--------------------------------------------------------------------------------
(* A restart the main thread is going to see: the flag is set, or the         *)
(* notification is there and the thread that reads it alive.                 *)
Announced ==
  pc = "watch" /\ (testerRestart \/ (restartSent /\ listener["states"] \in Running))

(* What RestartIsSeen rests on: once announced to a session that is watched, a *)
(* restart stays announced until the main thread begins to take the session   *)
(* down, whatever the handlers, the other listeners and the tester do         *)
(* meanwhile (recipeHandler.cpp:133-139, userInterface.cpp:323-327).          *)
THEOREM RestartStaysAnnounced ==
  Spec => [][Announced => Announced' \/ pc' = "stopStreams"]_vars
<1>1. ASSUME SessionInv, [Next]_vars, Announced
      PROVE  Announced' \/ pc' = "stopStreams"
  <2> USE <1>1 DEF Announced, Goto, Running, sessionVars, testerVars
  <2>0. listener \in [Listeners -> ListenerStates] /\ "states" \in Listeners
    BY DEF SessionInv, TypeOK, Listeners
  <2>1. CASE MainStep
    BY <2>1 DEF MainStep, Connect, StartListener, StartPcs, ActiveTester,
       SetupRegisterCommands, SetTesterRestart, IsTesterRestart, StopListener,
       NextStop, Disconnect
  <2>2. CASE Respond
    <3>1. PICK l \in Listeners : listener' = [listener EXCEPT ![l] = "handling"]
      BY <2>2 DEF Respond
    <3>2. UNCHANGED <<pc, testerRestart, restartSent>>
      BY <2>2 DEF Respond
    <3> QED
      BY <2>0, <3>1, <3>2
  <2>3. CASE \E l \in Listeners : HandlerReturns(l)
    <3>1. PICK l \in Listeners : HandlerReturns(l)
      BY <2>3
    <3> QED
      BY <2>0, <3>1 DEF HandlerReturns
  <2>4. CASE RestartTester
    BY <2>4 DEF RestartTester
  <2>5. CASE RespondFails
    <3>1. PICK l \in Listeners : /\ l = "states" => ~restartSent
                                 /\ listener' = [listener EXCEPT ![l] = "dead"]
      BY <2>5 DEF RespondFails
    <3>2. UNCHANGED <<pc, testerRestart, restartSent>>
      BY <2>5 DEF RespondFails
    <3> QED
      BY <2>0, <3>1, <3>2
  <2>6. CASE TesterRestarts
    <3>1. /\ UNCHANGED <<pc, listener, testerRestart>>
          /\ restartSent' = (restartSent \/ (linked /\ listener["states"] # "none"))
      BY <2>6 DEF TesterRestarts
    <3> QED
      BY <3>1
  <2>7. CASE TesterDies \/ TesterComesUp \/ UNCHANGED vars
    BY <2>7 DEF TesterDies, TesterComesUp, vars
  <2> QED
    BY <2>1, <2>2, <2>3, <2>4, <2>5, <2>6, <2>7 DEF Next, ListenerStep
<1> QED
  BY <1>1, SessionInvariant, PTL DEF Spec
================================================================================
