----------------------------- MODULE TesterSession -----------------------------
(***************************************************************************)
(* A session with the tester, from connect to shutdown.  The main thread   *)
(* connects, starts three listener threads, waits until the tester is      *)
(* ready, registers for recipes, and then only watches the restart flag    *)
(* that the state listener sets.  When it is set, everything is taken down *)
(* in reverse and built again.                                             *)
(*                                                                         *)
(* What a recipe does meanwhile, and how it is told to go away, is         *)
(* ProgramNotification's subject: here a handler runs and comes to an end. *)
(***************************************************************************)
EXTENDS Naturals

CONSTANT RestartsWhile  \* where the main thread may be when the tester restarts

Listeners == {"states", "cmd", "streams"}
StartPcs == {"startStates", "startCmd", "startStreams"}
StopPcs == {"stopStreams", "stopCmd", "stopStates", "release"}
MainPcs == {"connect", "active", "register", "resetFlag", "watch"}
             \union StartPcs \union StopPcs

ASSUME RestartsWhileAssumption == RestartsWhile \subseteq MainPcs

VARIABLES
  pc,             \* main thread: mainEvxaUserLoop
  listener,       \* m_states, m_cmdNotify and m_evxioStreams, with their threads
  internTHC,      \* m_internTHC exists: the listeners' connection
  programCtrl,    \* m_programCtrl exists: what the handlers call
  registered,     \* the tester was asked to send recipes
  testerRestart,  \* m_testerRestart
  tester,         \* what the tester is doing
  linked,         \* the session's connections lead to this tester
  restartSent     \* a restart notification the state listener has yet to read

sessionVars == <<listener, internTHC, programCtrl, registered>>
testerVars == <<tester, linked, restartSent>>
vars == <<pc, sessionVars, testerRestart, testerVars>>

(* "unstarted": the object exists but its thread could not be started.       *)
(* "dead": run returned because respond failed.                              *)
Running == {"polling", "handling"}
ListenerStates == Running \union {"none", "unstarted", "dead"}

TypeOK ==
  /\ pc \in MainPcs
  /\ listener \in [Listeners -> ListenerStates]
  /\ internTHC \in BOOLEAN /\ programCtrl \in BOOLEAN
  /\ registered \in BOOLEAN /\ testerRestart \in BOOLEAN
  /\ tester \in {"down", "booting", "ready"}
  /\ linked \in BOOLEAN /\ restartSent \in BOOLEAN

Init ==
  /\ pc = "connect"
  /\ listener = [l \in Listeners |-> "none"]
  /\ internTHC = FALSE /\ programCtrl = FALSE /\ registered = FALSE
  /\ testerRestart = FALSE
  /\ tester \in {"down", "booting", "ready"}
  /\ linked = FALSE /\ restartSent = FALSE

--------------------------------------------------------------------------------
(* The main thread.                                                          *)

Goto(from, to) == pc = from /\ pc' = to

(* connect(), with restartIfNeeded false: without a tester it is tried again. *)
Connect ==
  /\ Goto("connect", "startStates") /\ tester # "down"
  /\ programCtrl' = TRUE /\ internTHC' = TRUE
  /\ linked' = TRUE /\ restartSent' = FALSE
  /\ UNCHANGED <<listener, registered, testerRestart, tester>>

(* startListener: one thread after the other, until one does not start.      *)
NextStart == [startStates |-> "startCmd", startCmd |-> "startStreams",
              startStreams |-> "active"]
Started == [startStates |-> "states", startCmd |-> "cmd",
            startStreams |-> "streams"]
StartListener ==
  /\ pc \in StartPcs
  /\ \/ pc' = NextStart[pc] /\ listener' = [listener EXCEPT ![Started[pc]] = "polling"]
     \/ pc' = "active" /\ listener' = [listener EXCEPT ![Started[pc]] = "unstarted"]
     \/ pc = "startStreams" /\ pc' = "active" /\ listener' = listener
  /\ UNCHANGED <<internTHC, programCtrl, registered, testerRestart, testerVars>>

(* "get past restart tester" *)
ActiveTester ==
  /\ Goto("active", "register") /\ tester = "ready"
  /\ UNCHANGED <<sessionVars, testerRestart, testerVars>>

(* setupRegisterCommands; nobody looks at what registerNotification returns. *)
SetupRegisterCommands ==
  /\ Goto("register", "resetFlag")
  /\ registered' \in {FALSE, listener["cmd"] # "none"}
  /\ UNCHANGED <<listener, internTHC, programCtrl, testerRestart, testerVars>>

(* "explicitly set this to false" *)
SetTesterRestart ==
  /\ Goto("resetFlag", "watch")
  /\ testerRestart' = FALSE
  /\ UNCHANGED <<sessionVars, testerVars>>

(* Seeded fault: the streams listener is forgotten.                          *)
IsTesterRestartKeepsStreams ==
  /\ Goto("watch", "stopCmd") /\ testerRestart
  /\ UNCHANGED <<sessionVars, testerRestart, testerVars>>
IsTesterRestart ==
  /\ Goto("watch", "stopStreams") /\ testerRestart
  /\ UNCHANGED <<sessionVars, testerRestart, testerVars>>

(* stopListener: each destructor waits until its thread's handler is over.   *)
(* Seeded faults: the state listener goes before the command listener; a     *)
(* destructor does not wait.                                                 *)
NextStop == [stopStreams |-> "stopCmd", stopCmd |-> "stopStates",
             stopStates |-> "release"]
StoppedStatesFirst == [stopStreams |-> "streams", stopCmd |-> "states",
                       stopStates |-> "cmd"]
Stopped == [stopStreams |-> "streams", stopCmd |-> "cmd",
            stopStates |-> "states"]
StopListenerNoJoin ==
  /\ pc \in DOMAIN NextStop
  /\ pc' = NextStop[pc]
  /\ listener' = [listener EXCEPT ![Stopped[pc]] =
                    IF @ = "handling" THEN @ ELSE "none"]
  /\ registered' = (registered /\ pc # "stopCmd")
  /\ UNCHANGED <<internTHC, programCtrl, testerRestart, testerVars>>
StopListener ==
  /\ pc \in DOMAIN NextStop /\ listener[Stopped[pc]] # "handling"
  /\ pc' = NextStop[pc]
  /\ listener' = [listener EXCEPT ![Stopped[pc]] = "none"]
  /\ registered' = (registered /\ pc # "stopCmd")
  /\ UNCHANGED <<internTHC, programCtrl, testerRestart, testerVars>>

(* The rest of stopListener and of disconnect, and back to connectToTester. *)
Disconnect ==
  /\ Goto("release", "connect")
  /\ internTHC' = FALSE /\ programCtrl' = FALSE
  /\ linked' = FALSE /\ restartSent' = FALSE
  /\ UNCHANGED <<listener, registered, testerRestart, tester>>

--------------------------------------------------------------------------------
(* The listener threads.                                                     *)

(* run: something arrives and a handler is called; recipes only come if the  *)
(* tester was asked for them.                                                *)
Respond ==
  /\ linked
  /\ \E l \in Listeners :
       /\ listener[l] = "polling" /\ (l = "cmd" => registered)
       /\ listener' = [listener EXCEPT ![l] = "handling"]
  /\ UNCHANGED <<pc, internTHC, programCtrl, registered, testerRestart,
                 testerVars>>

HandlerReturns(l) ==
  /\ listener[l] = "handling"
  /\ listener' = [listener EXCEPT ![l] = "polling"]
  /\ UNCHANGED <<pc, internTHC, programCtrl, registered, testerRestart,
                 testerVars>>

(* restartTester, the last notification of a tester.  Seeded fault: it is     *)
(* not recorded under a recipe.                                              *)
RestartTesterUnlessBusy ==
  /\ restartSent /\ restartSent' = FALSE
  /\ listener["states"] = "polling"
  /\ testerRestart' = (testerRestart \/ listener["cmd"] # "handling")
  /\ UNCHANGED <<pc, sessionVars, tester, linked>>
RestartTester ==
  /\ restartSent /\ restartSent' = FALSE
  /\ listener["states"] = "polling"
  /\ testerRestart' = TRUE
  /\ UNCHANGED <<pc, sessionVars, tester, linked>>

(* respond fails once the tester is gone and all it sent is read: the thread *)
(* ends, and only its standard output says so.                               *)
RespondFails ==
  /\ ~linked
  /\ \E l \in Listeners :
       /\ listener[l] = "polling" /\ (l = "states" => ~restartSent)
       /\ listener' = [listener EXCEPT ![l] = "dead"]
  /\ UNCHANGED <<pc, internTHC, programCtrl, registered, testerRestart,
                 testerVars>>

--------------------------------------------------------------------------------
(* The tester.                                                               *)

(* restart_tester: it tells its state listeners, and their connections end.  *)
TesterRestarts ==
  /\ pc \in RestartsWhile /\ tester # "down"
  /\ tester' = "booting" /\ linked' = FALSE
  /\ restartSent' = (restartSent \/ (linked /\ listener["states"] # "none"))
  /\ UNCHANGED <<pc, sessionVars, testerRestart>>

(* It dies, and tells nobody. *)
TesterDies ==
  /\ pc \in RestartsWhile
  /\ tester' = "down" /\ linked' = FALSE
  /\ UNCHANGED <<pc, sessionVars, testerRestart, restartSent>>

TesterComesUp ==
  /\ tester' = IF tester = "down" THEN "booting" ELSE "ready"
  /\ UNCHANGED <<pc, sessionVars, testerRestart, linked, restartSent>>

MainStep == \/ Connect \/ StartListener \/ ActiveTester \/ SetupRegisterCommands
            \/ SetTesterRestart \/ IsTesterRestart \/ StopListener \/ Disconnect
ListenerStep == \/ Respond \/ RestartTester \/ RespondFails
                \/ \E l \in Listeners : HandlerReturns(l)
Next == MainStep \/ ListenerStep \/ TesterRestarts \/ TesterDies \/ TesterComesUp

Spec == Init /\ [][Next]_vars

(* The threads are scheduled, and every handler comes to an end.             *)
FairSpec == Spec /\ WF_vars(MainStep) /\ WF_vars(RestartTester)
                 /\ \A l \in Listeners : WF_vars(HandlerReturns(l))

--------------------------------------------------------------------------------
(* Properties.                                                               *)

(* A handler never runs without the program control it calls, nor on a       *)
(* connection that is gone: connect creates both before the first thread,    *)
(* stopListener ends the threads before disconnect deletes them              *)
(* (evxaTester.cpp:440-446, 516-560).                                        *)
HandlersHaveTester ==
  (\E l \in Listeners : listener[l] = "handling") => internTHC /\ programCtrl

(* Whoever may be waiting in a recipe has a state listener that was started,  *)
(* while sessions are built and while they are taken down.  Whether it still  *)
(* runs is another matter: its respond may have failed, which nobody notices  *)
(* (evxaTester.cpp:65, 484-493, 525-533).                                     *)
StatesOutliveCommands ==
  listener["cmd"] \in Running => listener["states"] \notin {"none", "unstarted"}

(* A restart that is announced while the main thread watches the flag ends    *)
(* in a new connection, recipe or not (recipeHandler.cpp:133-139,            *)
(* userInterface.cpp:323-327).                                               *)
RestartIsSeen ==
  (pc = "watch" /\ restartSent /\ listener["states"] \in Running)
    ~> (pc = "connect")

--------------------------------------------------------------------------------
(* Why: an inductive invariant.                                              *)

(* What exists at each stage, and so what a new session finds: nothing.      *)
StageInv ==
  /\ internTHC <=> pc # "connect"
  /\ programCtrl <=> pc # "connect"
  /\ linked \/ restartSent => pc # "connect"
  /\ pc \in {"connect", "startStates", "release"}
        => \A l \in Listeners : listener[l] = "none"
  /\ pc \in {"startCmd", "startStreams"}
        => listener["states"] \in Running \union {"dead"}
  /\ pc = "startCmd" => listener["cmd"] = "none"
  /\ pc \in {"startCmd", "startStreams", "stopCmd", "stopStates"}
        => listener["streams"] = "none"
  /\ pc = "stopStates" => listener["cmd"] = "none"

OrderInv ==
  /\ listener["cmd"] # "none" => listener["states"] \in Running \union {"dead"}
  /\ registered => listener["cmd"] # "none"

SessionInv == /\ TypeOK /\ StageInv /\ OrderInv
              /\ HandlersHaveTester /\ StatesOutliveCommands
================================================================================
