-------------------------- MODULE ProgramNotification --------------------------
(***************************************************************************)
(* How a recipe waits for the test program.  The command thread decodes a  *)
(* recipe, asks the tester to unload and load a program without waiting,   *)
(* and sleeps on a condition variable until the state thread reports that  *)
(* the tester announced an event it waits for.  The main thread tears the  *)
(* session down when the tester restarts.                                  *)
(*                                                                         *)
(* The three threads share m_currentState, m_currentProgramStateArray,     *)
(* m_taskComplete, m_goAway and m_recipeParseResult.  Only parts of their  *)
(* accesses are under m_condMutex, so every access outside it is a step of *)
(* its own here.                                                           *)
(***************************************************************************)
EXTENDS Naturals, Sequences

CONSTANTS
  OperatorOps,   \* what the operator may do by hand at Unison: subset of Ops
  CallMayFail,   \* may ProgramControl::load/unload return an error status?
  MayRestart,    \* may the tester restart under a running handler?
  MaxEvents      \* bound: the operator acts only below this event backlog

Ops == {"load", "unload"}

ASSUME OperatorOpsAssumption == OperatorOps \subseteq Ops
ASSUME SwitchesAssumption == CallMayFail \in BOOLEAN /\ MayRestart \in BOOLEAN
ASSUME MaxEventsAssumption == MaxEvents \in Nat

VARIABLES
  pcCmd,               \* command thread: CCmdNotify::run -> RecipeDecode
  op,                  \* the ProgramControl call the recipe is making
  recipe,              \* what the recipe asks for: "program", "context", "none"
  pcState,             \* state thread: CStateNotify::run -> programChange
  ev,                  \* the event the state thread is handling
  pcMain,              \* main thread: mainEvxaUserLoop -> shutdownTester
  currentState,        \* m_currentState
  programStateArray,   \* m_currentProgramStateArray, as a set
  taskComplete,        \* m_taskComplete
  goAway,              \* m_goAway
  condMutex,           \* holder of m_condMutex
  recipeParseResult,   \* m_recipeParseResult
  testerRestart,       \* m_testerRestart
  up, program, pending, \* the tester: alive, a program loaded, call it works on
  events               \* notifications sent by the tester and not yet read

cmdVars == <<pcCmd, op, recipe>>
stateVars == <<pcState, ev>>
waitVars == <<currentState, programStateArray, taskComplete, goAway>>
testerVars == <<up, program, pending, events>>
vars == <<cmdVars, stateVars, pcMain, waitVars, condMutex, recipeParseResult,
          testerRestart, testerVars>>

--------------------------------------------------------------------------------
(* EVX_PROGRAM_STATE values programChange reacts to or a wait names.         *)
LoadEvents == {"LOADED", "LOAD_FAILED", "UNLOADED"}
ProgramEvents == LoadEvents \union {"ABORT_LOAD"}
Events == ProgramEvents \union {"RESTART"}

(* Seeded faults: waiting for the abort as well, or forgetting the failure.  *)
WaitStatesWithAbort(o) ==
  IF o = "load" THEN LoadEvents \union {"ABORT_LOAD"} ELSE {"UNLOADED"}
WaitStatesWithoutFailure(o) ==
  IF o = "load" THEN {"LOADED", "UNLOADED"} ELSE {"UNLOADED"}

(* The arrays loadProgram and unloadProgram hand to setupProgramNotification. *)
WaitStates(o) == IF o = "load" THEN LoadEvents ELSE {"UNLOADED"}

SetupPcs == {"clear", "fill", "arm", "resetComplete", "resetGoAway", "initSync",
             "call"}
CmdHoldsPcs == {"test", "testGoAway", "wait"}
WaitPcs == CmdHoldsPcs \union {"lock", "asleep", "awake"}
StagePcs == {"checkTP", "sendTP", "checkMIR", "sendMIR", "checkSDR", "sendSDR",
             "checkEnd"}
CmdPcs == {"idle", "query", "checkUnload", "checkLoad"}
            \union SetupPcs \union WaitPcs \union StagePcs
StateHoldsPcs == {"reset", "complete", "signal", "unlock"}
StatePcs == {"poll", "handle", "guard", "match", "lock"} \union StateHoldsPcs
MainPcs == {"loop", "readState", "setGoAway", "signal", "joinCmd", "joinState",
            "down"}
StopPcs == {"joinCmd", "joinState", "down"}

(* Where the command thread goes when a check of m_recipeParseResult passes, *)
(* and when a stage of updateTestProgramData succeeds.                       *)
AfterCheck == [checkLoad |-> "checkTP", checkTP |-> "sendTP",
               checkMIR |-> "sendMIR", checkSDR |-> "sendSDR",
               checkEnd |-> "idle"]
AfterSend == [sendTP |-> "checkMIR", sendMIR |-> "checkSDR",
              sendSDR |-> "checkEnd"]
AfterWait(o) == IF o = "load" THEN "checkLoad" ELSE "checkUnload"

TypeOK ==
  /\ pcCmd \in CmdPcs /\ op \in Ops
  /\ recipe \in {"none", "context", "program"}
  /\ pcState \in StatePcs /\ ev \in Events
  /\ pcMain \in MainPcs
  /\ currentState \in {"MAX_EVX_STATE", "EVX_PROGRAM_CHANGE"}
  /\ programStateArray \subseteq LoadEvents
  /\ taskComplete \in BOOLEAN /\ goAway \in BOOLEAN
  /\ condMutex \in {"free", "cmd", "state"}
  /\ recipeParseResult \in BOOLEAN /\ testerRestart \in BOOLEAN
  /\ up \in BOOLEAN /\ program \in BOOLEAN
  /\ pending \in Ops \union {"none"}
  /\ events \in Seq(Events)

Init ==
  /\ pcCmd = "idle" /\ op = "load" /\ recipe = "none"
  /\ pcState = "poll" /\ ev = "LOADED"
  /\ pcMain = "loop"
  /\ currentState = "MAX_EVX_STATE" /\ programStateArray = {}
  /\ taskComplete = FALSE /\ goAway = FALSE
  /\ condMutex = "free"
  /\ recipeParseResult = TRUE /\ testerRestart = FALSE
  /\ up = TRUE /\ program \in BOOLEAN /\ pending = "none" /\ events = <<>>

--------------------------------------------------------------------------------
(* The command thread.                                                       *)

CmdGoto(from, to) == pcCmd = from /\ pcCmd' = to

(* RecipeDecodeAvailable only resets the recipe variables. *)
CmdRecipeDecodeAvailable ==
  /\ pcCmd = "idle" /\ pcMain \notin StopPcs
  /\ recipeParseResult' = TRUE
  /\ UNCHANGED <<cmdVars, stateVars, pcMain, waitVars, condMutex, testerRestart,
                 testerVars>>

(* RecipeDecode: reset, parse.  A recipe that does not parse is dropped; one *)
(* without a program name skips executeRecipeReload.                         *)
CmdRecipeDecode ==
  /\ pcCmd = "idle" /\ pcMain \notin StopPcs
  /\ recipeParseResult' = TRUE
  /\ \/ recipe' = "none" /\ pcCmd' = "idle"
     \/ recipe' = "context" /\ pcCmd' = "checkLoad"
     \/ recipe' = "program" /\ pcCmd' = "query"
  /\ UNCHANGED <<op, stateVars, pcMain, waitVars, condMutex, testerRestart,
                 testerVars>>

(* executeRecipeReload: ask whether a program is loaded.  The strategy        *)
(* then reloads, keeps the loaded program, or gives up (ReloadStrategy says  *)
(* which); a reload unloads first only if a program was loaded.              *)
CmdQueryProgram ==
  /\ pcCmd = "query"
  /\ \/ pcCmd' = "clear" /\ op' = (IF program THEN "unload" ELSE "load")
     \/ program /\ pcCmd' = "checkLoad" /\ op' = op
     \/ pcCmd' = "idle" /\ op' = op
  /\ UNCHANGED <<recipe, stateVars, pcMain, waitVars, condMutex,
                 recipeParseResult, testerRestart, testerVars>>

(* setupProgramNotification, one shared location at a time. *)
CmdSetup ==
  /\ \/ /\ CmdGoto("clear", "fill")
        /\ programStateArray' = {}
        /\ UNCHANGED <<currentState, taskComplete, goAway, condMutex>>
     \/ /\ CmdGoto("fill", "arm")
        /\ programStateArray' = WaitStates(op)
        /\ UNCHANGED <<currentState, taskComplete, goAway, condMutex>>
     \/ /\ CmdGoto("arm", "resetComplete")
        /\ currentState' = "EVX_PROGRAM_CHANGE"
        /\ UNCHANGED <<programStateArray, taskComplete, goAway, condMutex>>
     \/ /\ CmdGoto("resetComplete", "resetGoAway")
        /\ taskComplete' = FALSE
        /\ UNCHANGED <<programStateArray, currentState, goAway, condMutex>>
     \/ /\ CmdGoto("resetGoAway", "initSync")
        /\ goAway' = FALSE
        /\ UNCHANGED <<programStateArray, currentState, taskComplete, condMutex>>
     \/ /\ CmdGoto("initSync", "call")   \* pthread_mutex_init, whoever holds it
        /\ condMutex' = "free"
        /\ UNCHANGED waitVars
  /\ UNCHANGED <<op, recipe, stateVars, pcMain, recipeParseResult,
                 testerRestart, testerVars>>

(* ProgramControl::load/unload(NO_WAIT).  A call the tester cannot take, or  *)
(* that fails, ends the recipe and leaves the wait armed.                    *)
CmdCall ==
  /\ pcCmd = "call"
  /\ \/ /\ up /\ pending = "none" /\ (op = "unload" => program)
        /\ pending' = op
        /\ pcCmd' = "lock"
     \/ /\ CallMayFail \/ ~up \/ pending # "none" \/ (op = "unload" /\ ~program)
        /\ pending' = pending
        /\ pcCmd' = "idle"
  /\ UNCHANGED <<op, recipe, stateVars, pcMain, waitVars, condMutex,
                 recipeParseResult, testerRestart, up, program, events>>

(* Seeded fault: an if instead of the while around pthread_cond_wait. *)
CmdLockWithoutLoop ==
  /\ pcCmd \in {"lock", "awake"} /\ condMutex = "free"
  /\ IF pcCmd = "lock" THEN condMutex' = "cmd" /\ pcCmd' = "test"
                       ELSE condMutex' = "free" /\ pcCmd' = AfterWait(op)
  /\ UNCHANGED <<op, recipe, stateVars, pcMain, waitVars,
                 recipeParseResult, testerRestart, testerVars>>

(* waitForNotification: CMutexLock, and the re-acquisition inside            *)
(* pthread_cond_wait once the thread is awake.                               *)
CmdLock ==
  /\ pcCmd \in {"lock", "awake"} /\ condMutex = "free"
  /\ condMutex' = "cmd"
  /\ pcCmd' = "test"
  /\ UNCHANGED <<op, recipe, stateVars, pcMain, waitVars,
                 recipeParseResult, testerRestart, testerVars>>

(* while (m_taskComplete == false): leave, or go on to look at m_goAway. *)
CmdTest ==
  /\ pcCmd = "test"
  /\ IF taskComplete
       THEN condMutex' = "free" /\ pcCmd' = AfterWait(op)
       ELSE condMutex' = condMutex /\ pcCmd' = "testGoAway"
  /\ UNCHANGED <<op, recipe, stateVars, pcMain, waitVars,
                 recipeParseResult, testerRestart, testerVars>>

(* if (m_goAway) return: the caller cannot tell this from a completion. *)
CmdTestGoAway ==
  /\ pcCmd = "testGoAway"
  /\ IF goAway
       THEN condMutex' = "free" /\ pcCmd' = AfterWait(op)
       ELSE condMutex' = condMutex /\ pcCmd' = "wait"
  /\ UNCHANGED <<op, recipe, stateVars, pcMain, waitVars,
                 recipeParseResult, testerRestart, testerVars>>

(* Seeded fault: sleeping without letting go of the mutex. *)
CmdWaitHoldingMutex ==
  /\ CmdGoto("wait", "asleep")
  /\ UNCHANGED <<op, recipe, stateVars, pcMain, waitVars, condMutex,
                 recipeParseResult, testerRestart, testerVars>>

(* pthread_cond_wait releases the mutex and sleeps in one step. *)
CmdWait ==
  /\ CmdGoto("wait", "asleep")
  /\ condMutex' = "free"
  /\ UNCHANGED <<op, recipe, stateVars, pcMain, waitVars,
                 recipeParseResult, testerRestart, testerVars>>

(* "the wait has a spurrious return (which may occur according to the manual)" *)
CmdSpuriousWakeup ==
  /\ CmdGoto("asleep", "awake")
  /\ UNCHANGED <<op, recipe, stateVars, pcMain, waitVars, condMutex,
                 recipeParseResult, testerRestart, testerVars>>

(* unloadProgram's test of m_recipeParseResult; then loadProgram starts. *)
CmdCheckUnload ==
  /\ pcCmd = "checkUnload"
  /\ IF recipeParseResult THEN pcCmd' = "clear" /\ op' = "load"
                          ELSE pcCmd' = "idle" /\ op' = op
  /\ UNCHANGED <<recipe, stateVars, pcMain, waitVars, condMutex,
                 recipeParseResult, testerRestart, testerVars>>

(* RecipeDecode's test before updateTestProgramData, and the tests in it. *)
CmdCheck ==
  /\ pcCmd \in DOMAIN AfterCheck
  /\ pcCmd' = IF recipeParseResult THEN AfterCheck[pcCmd] ELSE "idle"
  /\ UNCHANGED <<op, recipe, stateVars, pcMain, waitVars, condMutex,
                 recipeParseResult, testerRestart, testerVars>>

(* sendTPParams, sendMIRParams, sendSDRParams: the next stage, or give up. *)
CmdSend ==
  /\ pcCmd \in DOMAIN AfterSend
  /\ pcCmd' \in {AfterSend[pcCmd], "idle"}
  /\ UNCHANGED <<op, recipe, stateVars, pcMain, waitVars, condMutex,
                 recipeParseResult, testerRestart, testerVars>>

--------------------------------------------------------------------------------
(* The state thread.                                                         *)

(* StateNotification::respond reads one notification and calls the handler. *)
StateRespond ==
  /\ pcState = "poll" /\ events # <<>> /\ pcMain \notin {"joinState", "down"}
  /\ ev' = Head(events) /\ events' = Tail(events)
  /\ pcState' = "handle"
  /\ UNCHANGED <<cmdVars, pcMain, waitVars, condMutex, recipeParseResult,
                 testerRestart, up, program, pending>>

(* Seeded faults: LOAD_FAILED not recorded; LOADED taken as overall success. *)
StateHandleForgetsFailure ==
  /\ pcState = "handle"
  /\ IF ev = "RESTART"
       THEN pcState' = "poll" /\ testerRestart' = TRUE
       ELSE pcState' = "guard" /\ testerRestart' = testerRestart
  /\ recipeParseResult' = (recipeParseResult /\ ev # "ABORT_LOAD")
  /\ UNCHANGED <<cmdVars, ev, pcMain, waitVars, condMutex, testerVars>>
StateHandleLoadedIsSuccess ==
  /\ pcState = "handle"
  /\ IF ev = "RESTART"
       THEN pcState' = "poll" /\ testerRestart' = TRUE
       ELSE pcState' = "guard" /\ testerRestart' = testerRestart
  /\ recipeParseResult' = IF ev = "LOADED" THEN TRUE
                           ELSE recipeParseResult /\ ev \notin {"LOAD_FAILED",
                                                                "ABORT_LOAD"}
  /\ UNCHANGED <<cmdVars, ev, pcMain, waitVars, condMutex, testerVars>>

(* restartTester, or the switch of programChange. *)
StateHandle ==
  /\ pcState = "handle"
  /\ IF ev = "RESTART"
       THEN pcState' = "poll" /\ testerRestart' = TRUE
       ELSE pcState' = "guard" /\ testerRestart' = testerRestart
  /\ recipeParseResult' = (recipeParseResult /\ ev \notin {"LOAD_FAILED",
                                                           "ABORT_LOAD"})
  /\ UNCHANGED <<cmdVars, ev, pcMain, waitVars, condMutex, testerVars>>

(* sendNotificationComplete: is anything being waited for?  Read unlocked. *)
StateGuard ==
  /\ pcState = "guard"
  /\ pcState' = IF currentState = "MAX_EVX_STATE" THEN "poll" ELSE "match"
  /\ UNCHANGED <<cmdVars, ev, pcMain, waitVars, condMutex, recipeParseResult,
                 testerRestart, testerVars>>

(* Is it this event?  Also unlocked.  With no array armed the branch that    *)
(* compares m_currentMinorState cannot match: only dead code sets it.        *)
StateMatch ==
  /\ pcState = "match"
  /\ pcState' = IF ev \in programStateArray THEN "lock" ELSE "poll"
  /\ UNCHANGED <<cmdVars, ev, pcMain, waitVars, condMutex, recipeParseResult,
                 testerRestart, testerVars>>

(* Seeded fault: the completion is written without the lock. *)
StateLockRegardless ==
  /\ pcState = "lock"
  /\ pcState' = "reset"
  /\ condMutex' = "state"
  /\ UNCHANGED <<cmdVars, ev, pcMain, waitVars, recipeParseResult, testerRestart,
                 testerVars>>

StateLock ==
  /\ pcState = "lock" /\ condMutex = "free"
  /\ pcState' = "reset"
  /\ condMutex' = "state"
  /\ UNCHANGED <<cmdVars, ev, pcMain, waitVars, recipeParseResult, testerRestart,
                 testerVars>>

StateReset ==
  /\ pcState = "reset"
  /\ pcState' = "complete"
  /\ currentState' = "MAX_EVX_STATE" /\ programStateArray' = {}
  /\ UNCHANGED <<cmdVars, ev, pcMain, taskComplete, goAway, condMutex,
                 recipeParseResult, testerRestart, testerVars>>

StateComplete ==
  /\ pcState = "complete"
  /\ pcState' = "signal"
  /\ taskComplete' = TRUE
  /\ UNCHANGED <<cmdVars, ev, pcMain, currentState, programStateArray, goAway,
                 condMutex, recipeParseResult, testerRestart, testerVars>>

WakeCmd == pcCmd' = IF pcCmd = "asleep" THEN "awake" ELSE pcCmd

(* Seeded fault: no pthread_cond_signal. *)
StateSignalMissing ==
  /\ pcState = "signal"
  /\ pcState' = "unlock"
  /\ UNCHANGED <<cmdVars, ev, pcMain, waitVars, condMutex, recipeParseResult,
                 testerRestart, testerVars>>

StateSignal ==
  /\ pcState = "signal"
  /\ pcState' = "unlock"
  /\ WakeCmd
  /\ UNCHANGED <<op, recipe, ev, pcMain, waitVars, condMutex,
                 recipeParseResult, testerRestart, testerVars>>

(* ~CMutexLock.  If the mutex was re-initialised meanwhile, this frees it    *)
(* under whoever has locked it since.                                        *)
StateUnlock ==
  /\ pcState = "unlock"
  /\ pcState' = "poll"
  /\ condMutex' = "free"
  /\ UNCHANGED <<cmdVars, ev, pcMain, waitVars, recipeParseResult, testerRestart,
                 testerVars>>

--------------------------------------------------------------------------------
(* The main thread.                                                          *)

MainGoto(from, to) == pcMain = from /\ pcMain' = to

(* Seeded fault: the loop condition is not looked at. *)
MainLeavesLoop ==
  /\ MainGoto("loop", "readState")
  /\ UNCHANGED <<cmdVars, stateVars, waitVars, condMutex, recipeParseResult,
                 testerRestart, testerVars>>

MainSeeRestart ==
  /\ MainGoto("loop", "readState") /\ testerRestart
  /\ UNCHANGED <<cmdVars, stateVars, waitVars, condMutex, recipeParseResult,
                 testerRestart, testerVars>>

(* shutdownTester: is a thread waiting?  Read, set and signal unlocked. *)
MainReadState ==
  /\ pcMain = "readState"
  /\ pcMain' = IF currentState # "MAX_EVX_STATE" THEN "setGoAway" ELSE "joinCmd"
  /\ UNCHANGED <<cmdVars, stateVars, waitVars, condMutex, recipeParseResult,
                 testerRestart, testerVars>>

MainSetGoAway ==
  /\ MainGoto("setGoAway", "signal")
  /\ goAway' = TRUE
  /\ UNCHANGED <<cmdVars, stateVars, currentState, programStateArray,
                 taskComplete, condMutex, recipeParseResult, testerRestart,
                 testerVars>>

MainSignal ==
  /\ MainGoto("signal", "joinCmd")
  /\ WakeCmd
  /\ UNCHANGED <<op, recipe, stateVars, waitVars, condMutex,
                 recipeParseResult, testerRestart, testerVars>>

(* delete m_tester: stopListener deletes the command listener, then the      *)
(* state listener; each destructor waits for its thread.                     *)
MainJoinCmd ==
  /\ MainGoto("joinCmd", "joinState") /\ pcCmd = "idle"
  /\ UNCHANGED <<cmdVars, stateVars, waitVars, condMutex, recipeParseResult,
                 testerRestart, testerVars>>

MainJoinState ==
  /\ MainGoto("joinState", "down") /\ pcState = "poll"
  /\ events' = <<>>
  /\ UNCHANGED <<cmdVars, stateVars, waitVars, condMutex, recipeParseResult,
                 testerRestart, up, program, pending>>

(* The next round of mainEvxaUserLoop: shutdownTester again ("be on the safe *)
(* side"), connect to the restarted tester, clear the restart flag.          *)
MainReconnect ==
  /\ MainGoto("down", "loop")
  /\ goAway' = (goAway \/ currentState # "MAX_EVX_STATE")
  /\ testerRestart' = FALSE
  /\ up' = TRUE /\ program' = FALSE /\ pending' = "none" /\ events' = <<>>
  /\ UNCHANGED <<cmdVars, stateVars, currentState, programStateArray,
                 taskComplete, condMutex, recipeParseResult>>

--------------------------------------------------------------------------------
(* The tester.  It answers a call with the events loadProgram and            *)
(* unloadProgram wait for; an aborted load is announced, then unloaded.      *)

TesterAnswers(o, loaded, notifications) ==
  /\ up /\ pending = o
  /\ pending' = "none" /\ program' = loaded
  /\ events' = events \o notifications
  /\ up' = up
  /\ UNCHANGED <<cmdVars, stateVars, pcMain, waitVars, condMutex,
                 recipeParseResult, testerRestart>>

TesterUnloaded == TesterAnswers("unload", FALSE, <<"UNLOADED">>)
TesterLoaded == TesterAnswers("load", TRUE, <<"LOADED">>)
TesterLoadFailed == TesterAnswers("load", FALSE, <<"LOAD_FAILED">>)
TesterLoadAborted == TesterAnswers("load", FALSE, <<"ABORT_LOAD", "UNLOADED">>)
TesterAnswer == TesterUnloaded \/ TesterLoaded \/ TesterLoadFailed
                  \/ TesterLoadAborted

(* Somebody loads or unloads a program at the Unison screen. *)
OperatorActs(o, loaded, notification) ==
  /\ o \in OperatorOps
  /\ up /\ pending = "none" /\ Len(events) < MaxEvents
  /\ program' = loaded
  /\ events' = Append(events, notification)
  /\ UNCHANGED <<cmdVars, stateVars, pcMain, waitVars, condMutex,
                 recipeParseResult, testerRestart, up, pending>>

OperatorUnloads == program /\ OperatorActs("unload", FALSE, "UNLOADED")
OperatorLoads == ~program /\ OperatorActs("load", TRUE, "LOADED")
OperatorLoadFails == ~program /\ OperatorActs("load", FALSE, "LOAD_FAILED")

(* The tester restarts: the notification is its last, calls are dropped. *)
TesterRestarts ==
  /\ MayRestart /\ up
  /\ up' = FALSE /\ program' = FALSE /\ pending' = "none"
  /\ events' = Append(events, "RESTART")
  /\ UNCHANGED <<cmdVars, stateVars, pcMain, waitVars, condMutex,
                 recipeParseResult, testerRestart>>

--------------------------------------------------------------------------------
CmdStep == CmdQueryProgram \/ CmdSetup \/ CmdCall \/ CmdTest \/ CmdTestGoAway
             \/ CmdWait \/ CmdCheckUnload \/ CmdCheck \/ CmdSend
StateStep == StateRespond \/ StateHandle \/ StateGuard \/ StateMatch
               \/ StateReset \/ StateComplete \/ StateSignal \/ StateUnlock
MainStep == MainSeeRestart \/ MainReadState \/ MainSetGoAway \/ MainSignal
              \/ MainJoinCmd \/ MainJoinState \/ MainReconnect
Environment == CmdRecipeDecodeAvailable \/ CmdRecipeDecode \/ CmdSpuriousWakeup
                 \/ OperatorUnloads \/ OperatorLoads \/ OperatorLoadFails
                 \/ TesterRestarts

Next == CmdStep \/ CmdLock \/ StateStep \/ StateLock \/ MainStep \/ TesterAnswer
          \/ Environment

Spec == Init /\ [][Next]_vars

(* Threads are scheduled and a contended mutex is not withheld for ever; the *)
(* tester answers what it accepted.  Nothing makes a recipe, a wakeup, an    *)
(* operator or a restart happen.                                             *)
Fairness == /\ WF_vars(CmdStep) /\ SF_vars(CmdLock)
            /\ WF_vars(StateStep) /\ SF_vars(StateLock)
            /\ WF_vars(MainStep) /\ WF_vars(TesterAnswer)
FairSpec == Spec /\ Fairness

--------------------------------------------------------------------------------
(* Properties.                                                               *)

(* The command thread and the state thread are never both inside             *)
(* m_condMutex: setupProgramNotification re-initialises a mutex it does not   *)
(* hold (userInterface.cpp:2426), which is only sound if nobody else does.    *)
MutexExclusive == ~(pcCmd \in CmdHoldsPcs /\ pcState \in StateHoldsPcs)

(* A completion is not lost between the test of m_taskComplete and the sleep  *)
(* (userInterface.cpp:2440-2447): a thread asleep with its task complete is   *)
(* one the state thread is just about to signal.                              *)
NoLostCompletion == pcCmd = "asleep" /\ taskComplete => pcState = "signal"

(* A recipe that names a program sends its parameters to a tester that runs   *)
(* a loaded program: a failed or aborted load reaches m_recipeParseResult     *)
(* before the wait it ends (userInterface.cpp:261-307, 421).                  *)
ParamsOnlyWithProgram ==
  pcCmd \in StagePcs /\ recipe = "program" /\ up => program

(* loadProgram and unloadProgram return from a wait on a live tester only     *)
(* when the tester has dealt with their own call, "so we can serialize        *)
(* events" (userInterface.cpp:2390-2395).                                     *)
WaitReturns == pcCmd \in WaitPcs /\ pcCmd' \notin WaitPcs
WaitReturnsAfterAnswer == [][WaitReturns /\ up => pending = "none"]_vars

(* Once a handler has recorded a failure, the recipe in flight cannot be seen *)
(* as successful again (userInterface.cpp:421, 1775-1802).                    *)
FailureSticks ==
  [][pcCmd # "idle" /\ ~recipeParseResult => ~recipeParseResult']_vars

(* Whatever the operator does meanwhile, the state thread gets back to its    *)
(* socket: it never stays in sendNotificationComplete (userInterface.cpp:2476).*)
StateHandlerReturns == (pcState # "poll") ~> (pcState = "poll")

(* A recipe in flight comes to an end unless the tester restarts under it:    *)
(* each wait is answered by an event it was armed for (userInterface.cpp:2029,*)
(* 2062).                                                                     *)
RecipeReturns == (pcCmd # "idle") ~> (pcCmd = "idle" \/ ~up)

(* shutdownTester gets to the end of its delete: a waiting thread is told to  *)
(* go away "in case we're waiting for a thread to complete"                   *)
(* (userInterface.cpp:132).                                                   *)
ShutdownCompletes == (pcMain = "readState") ~> (pcMain = "down")

--------------------------------------------------------------------------------
(* What a recipe sees of all this.                                           *)

InCall == pcCmd \in WaitPcs
Answered ==
  CASE ~InCall -> "none"
    [] InCall /\ ~up -> "lost"
    [] InCall /\ up /\ pending # "none" -> "none"
    [] InCall /\ up /\ pending = "none" ->
         IF op = "load" /\ ~program THEN "failed" ELSE "done"

Calls == INSTANCE ProgramCalls
           WITH call <- IF InCall THEN op ELSE "none",
                answer <- Answered,
                result <- recipeParseResult

(* A load or an unload that waits is a call as ProgramCalls promises it:      *)
(* nobody returns before the tester's answer to this very call, and a failed  *)
(* load is recorded before the recipe goes on (userInterface.cpp:2019-2081).  *)
ImplementsProgramCalls == Calls!Spec

--------------------------------------------------------------------------------
(* Why a session without operator is safe, as an inductive invariant.        *)

(* What the tester may have sent: one answer, at most, then its restart. *)
Answers == {<<"LOADED">>, <<"LOAD_FAILED">>, <<"UNLOADED">>,
            <<"ABORT_LOAD", "UNLOADED">>}
Sent == Answers \union {<<>>}
Queues == Sent \union {Append(q, "RESTART") : q \in Sent}
Silent == {<<>>, <<"RESTART">>}
Failures == {"LOAD_FAILED", "ABORT_LOAD"}

HasAnswer == events \notin Silent
Answering == pcState # "poll" /\ ev \in ProgramEvents

(* A recipe that waits for a live tester is going to be woken: the tester is  *)
(* working on its call, the answer is on its way, or the state thread is     *)
(* about to complete the wait (userInterface.cpp:2413-2450, 2456-2494).       *)
WakeUpIsDue ==
  pcCmd \in WaitPcs /\ up =>
    \/ pending = op \/ HasAnswer
    \/ Answering /\ pcState \notin {"signal", "unlock"}
    \/ taskComplete

(* Each thread holds the mutex exactly where its code says so. *)
MutexInv ==
  /\ condMutex = "cmd" <=> pcCmd \in CmdHoldsPcs
  /\ condMutex = "state" <=> pcState \in StateHoldsPcs

QueueInv ==
  /\ events \in Queues /\ (up => events \in Sent)
  /\ ev = "RESTART" /\ pcState = "handle" => events = <<>> /\ ~up
  /\ ev = "RESTART" => pcState \in {"poll", "handle"}

(* One call, one answer: it is with the tester, in the queue or with the      *)
(* state thread, and the recipe waits until the state thread is done with it. *)
AnswerInv ==
  /\ pending # "none" => pending = op /\ up /\ ~HasAnswer /\ ~Answering
  /\ HasAnswer => \/ pcState = "poll"
                  \/ ev = "ABORT_LOAD" /\ Head(events) = "UNLOADED"
  /\ Answering /\ ev = "ABORT_LOAD" => pcState \in {"handle", "guard", "match"}
  /\ pending # "none" \/ HasAnswer \/ Answering => pcCmd \in WaitPcs

(* m_taskComplete says that this wait, and no earlier one, was completed. *)
CompleteInv ==
  /\ taskComplete => pending = "none" /\ ~HasAnswer
  /\ taskComplete /\ Answering => pcState \in {"signal", "unlock"}
  /\ Answering /\ pcState \in {"signal", "unlock"} => taskComplete
  /\ pcCmd \in {"resetGoAway", "initSync", "call"} => ~taskComplete
  /\ taskComplete => pcCmd \notin {"testGoAway", "wait"}
  /\ NoLostCompletion

(* The shutdown starts behind the last event of the session. *)
ShutdownInv ==
  /\ testerRestart => ~up /\ events = <<>> /\ pcState = "poll"
  /\ pcMain # "loop" => testerRestart
  /\ ~up => pending = "none"
  /\ goAway /\ pcCmd \in WaitPcs \union {"initSync", "call"}
        => pcMain \in {"signal", "joinCmd"}
  /\ pcMain \in {"joinState", "down"} => pcCmd = "idle"

(* How a load that did not work out is known to the recipe. *)
OutcomeInv ==
  /\ pcCmd \in StagePcs \union {"checkLoad"} /\ recipe = "program" /\ up
        => program \/ (pcCmd = "checkLoad" /\ ~recipeParseResult)
  /\ op = "load" /\ pcCmd \in WaitPcs /\ up
        => \/ pending = "load" \/ program \/ ~recipeParseResult
           \/ HasAnswer /\ Head(events) \in Failures
           \/ pcState = "handle" /\ ev \in Failures
  /\ pcCmd \in {"query", "checkUnload"} \union SetupPcs \union WaitPcs
        => recipe = "program"

(* A wait stays armed until its answer has completed it, and the answer to an *)
(* unload is UNLOADED.                                                       *)
Armed == currentState = "EVX_PROGRAM_CHANGE" /\ programStateArray = WaitStates(op)

WakeInv ==
  /\ pcCmd = "arm" => programStateArray = WaitStates(op)
  /\ pcCmd \in {"resetComplete", "resetGoAway", "initSync", "call"} => Armed
  /\ pcCmd \in WaitPcs /\ ~taskComplete /\ pcState # "complete" => Armed
  /\ op = "unload" => /\ HasAnswer => Head(events) = "UNLOADED"
                      /\ Answering => ev = "UNLOADED"
  /\ Answering /\ ev = "ABORT_LOAD" => HasAnswer
  /\ WakeUpIsDue

ProtocolInv == /\ MutexInv /\ QueueInv /\ AnswerInv
               /\ CompleteInv /\ ShutdownInv /\ OutcomeInv
QuietInv == TypeOK /\ ProtocolInv /\ WakeInv
================================================================================
