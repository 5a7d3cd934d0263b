------------------------------ MODULE HostAndRobot ------------------------------
(***************************************************************************)
(* What the handler does on Unison's events besides waking a recipe: it     *)
(* tells the host which program was loaded or unloaded (S10F1 messages) and  *)
(* stops and frees the robot.  The session starts once the configuration     *)
(* file has been read (ConfigFile) and uses its switches.                    *)
(*                                                                           *)
(* All events come through one socket in order, so the state thread handles  *)
(* them one after the other; the command thread runs recipes beside it, and  *)
(* both use m_recipeParse, m_recipeParseResult and m_TPArgs.TPName.  Arming  *)
(* a wait and making the call are one step here, as are the steps inside     *)
(* sendNotificationComplete: ProgramNotification has them, and a restart of   *)
(* the tester, which TesterSession takes apart, is one step as well.         *)
(*                                                                           *)
(* What strategy a recipe uses is ReloadStrategy's subject.  Messages about  *)
(* a recipe's text and files (001, 002, 006 to 013) change no state here and  *)
(* are left out, as is the status gemSendMsgToHost, BlockRobot and            *)
(* UnblockRobot return: the code at most logs it.                             *)
(***************************************************************************)
EXTENDS ConfigFile

CONSTANTS
  Programs,       \* test program names; the host learns them without folders
  OperatorLoads,  \* may programs be loaded and unloaded by hand?
  MayRestart,     \* may the tester restart?
  MaxEvents,      \* bound: pauses and tests begin below this backlog of events
  MaxHandEvents   \* bound: the same for loads and unloads by hand

None == "none"

ASSUME ProgramsAssumption == Programs \cap {None, "unknown"} = {}
ASSUME SwitchesAssumption == {"EVID003", "EVID004"} \subseteq Keys
ASSUME OperatorAssumption == OperatorLoads \in BOOLEAN /\ MayRestart \in BOOLEAN
ASSUME MaxEventsAssumption == MaxEvents \in Nat /\ MaxHandEvents \in Nat

VARIABLES
  cmd,               \* the command thread, inside RecipeDecode or idle
  TPName,            \* m_TPArgs.TPName
  recipeParse,       \* m_recipeParse
  recipeParseResult, \* m_recipeParseResult
  waitFor,           \* m_currentProgramStateArray
  handler,           \* the state thread
  ev,                \* the event it is handling
  disableRobot,      \* m_bDisableRobot
  currProgram,       \* m_strCurrProgramLoaded
  program, pending,  \* the tester: program loaded, call it works on
  asked,             \* the program that call is to load
  running, paused,   \* a device is being tested; auto testing is paused
  robot,             \* "free" or "blocked"
  events,            \* notifications sent and not yet read
  heard,             \* history: the last word on pausing the handler has heard
  hostView,          \* history: the program the host believes to be loaded
  cutShort,          \* history: a hand's event ended the wait for a call, and
                     \* something the recipe called for is still on its way
  unannounced,       \* history: a program went without an UNLOADED, and no
                     \* LOADED or UNLOADED has been handled since
  misled             \* history: the last 003 was for a load by hand, or for
                     \* one of a recipe that was cut short

cmdVars == <<cmd, TPName, recipeParse, recipeParseResult>>
robotVars == <<disableRobot, robot, heard>>
testerVars == <<program, pending, asked, running, paused>>
hostVars == <<currProgram, hostView, cutShort, unannounced, misled>>
vars == <<configVars, cmdVars, waitFor, handler, ev, robotVars, testerVars,
          hostVars, events>>

--------------------------------------------------------------------------------
ProgramKinds == {"LOADED", "LOAD_FAILED", "UNLOADED", "ABORT_LOAD"}
RobotKinds == {"PAUSED", "RESUMED", "RUN_DONE"}
AnyProgram == Programs \union {None}
Event == [kind : ProgramKinds \union RobotKinds, program : AnyProgram,
          byHand : BOOLEAN]
Notice(k, p, h) == [kind |-> k, program |-> p, byHand |-> h]
RobotNotice(k) == Notice(k, None, FALSE)
NoEvent == Notice("none", None, FALSE)

Calls == {"unload", "load"}
Waiting == [unload |-> "unloading", load |-> "loading"]

WaitStates(o) == IF o = "load" THEN {"LOADED", "LOAD_FAILED", "UNLOADED"}
                               ELSE {"UNLOADED"}

On(switch) == config[switch] = "true"

TypeOK ==
  /\ ConfigTypeOK
  /\ cmd \in {"idle", "parse", "unload", "load", "unloading", "loading"}
  /\ TPName \in AnyProgram /\ recipeParse \in BOOLEAN
  /\ recipeParseResult \in BOOLEAN /\ waitFor \subseteq WaitStates("load")
  /\ handler \in {"poll", "handle", "block"} /\ ev \in Event \union {NoEvent}
  /\ disableRobot \in BOOLEAN /\ robot \in {"free", "blocked"}
  /\ heard \in {"nothing", "paused", "pausedBefore"}
  /\ program \in AnyProgram /\ pending \in Calls \union {None}
  /\ running \in BOOLEAN /\ paused \in BOOLEAN
  /\ currProgram \in AnyProgram
  /\ hostView \in AnyProgram \union {"unknown"}
  /\ asked \in AnyProgram /\ cutShort \in BOOLEAN
  /\ unannounced \in BOOLEAN /\ misled \in BOOLEAN
  /\ events \in Seq(Event)

Init ==
  /\ ConfigInit
  /\ cmd = "idle" /\ TPName = None
  /\ recipeParse = FALSE /\ recipeParseResult = TRUE /\ waitFor = {}
  /\ handler = "poll" /\ ev = NoEvent
  /\ disableRobot = FALSE /\ robot = "free" /\ heard = "nothing"
  /\ program \in AnyProgram /\ pending = None /\ asked = None
  /\ running = FALSE /\ paused = FALSE
  /\ currProgram = None /\ hostView = "unknown"
  /\ cutShort = FALSE /\ unannounced = FALSE /\ misled = FALSE
  /\ events = <<>>

ReadConfiguration ==
  /\ ConfigNext
  /\ UNCHANGED <<cmdVars, waitFor, handler, ev, robotVars, testerVars, hostVars,
                 events>>

(* main() has returned. *)
Exited == stage = "exited" /\ UNCHANGED vars

Serving == stage = "serving" /\ UNCHANGED configVars

--------------------------------------------------------------------------------
(* The command thread.                                                       *)

ResetRecipeVars == recipeParse' = FALSE /\ recipeParseResult' = TRUE /\ TPName' = None

CmdRecipeDecodeAvailable ==
  /\ Serving /\ cmd = "idle"
  /\ ResetRecipeVars
  /\ UNCHANGED <<cmd, waitFor, handler, ev, robotVars, testerVars, hostVars, events>>

CmdRecipeDecode ==
  /\ Serving /\ cmd = "idle"
  /\ ResetRecipeVars
  /\ cmd' = "parse"
  /\ UNCHANGED <<waitFor, handler, ev, robotVars, testerVars, hostVars, events>>

(* parseXML and executeRecipeReload.  An empty text is not a recipe; one that *)
(* fails to parse, names no program, or whose strategy leaves it at what is   *)
(* loaded ends here; else what is loaded is unloaded first.                   *)
CmdParse ==
  /\ Serving /\ cmd = "parse"
  /\ \/ cmd' = "idle" /\ UNCHANGED <<TPName, recipeParse>>
     \/ cmd' = "idle" /\ recipeParse' = TRUE /\ TPName' \in AnyProgram
     \/ /\ cmd' = IF program = None THEN "load" ELSE "unload"
        /\ recipeParse' = TRUE /\ TPName' \in Programs
  /\ UNCHANGED <<recipeParseResult, waitFor, handler, ev, robotVars, testerVars,
                 hostVars, events>>

(* Seeded fault: the wait for a load is armed for the abort as well. *)
CmdCallArmedForAbort ==
  /\ Serving /\ cmd \in Calls
  /\ waitFor' = WaitStates(cmd) \union {"ABORT_LOAD"}
  /\ \/ /\ pending = None /\ (cmd = "unload" => program # None)
        /\ pending' = cmd /\ cmd' = Waiting[cmd]
        /\ asked' = IF cmd = "load" THEN TPName ELSE None
     \/ UNCHANGED <<pending, asked>> /\ cmd' = "idle"
  /\ UNCHANGED <<TPName, recipeParse, recipeParseResult, handler, ev, robotVars,
                 program, running, paused, hostVars, events>>

(* setupProgramNotification and ProgramControl::load/unload(NO_WAIT), which   *)
(* may return an error and then leave the wait armed.                         *)
CmdCall ==
  /\ Serving /\ cmd \in Calls
  /\ waitFor' = WaitStates(cmd)
  /\ \/ /\ pending = None /\ (cmd = "unload" => program # None)
        /\ pending' = cmd /\ cmd' = Waiting[cmd]
        /\ asked' = IF cmd = "load" THEN TPName ELSE None
     \/ UNCHANGED <<pending, asked>> /\ cmd' = "idle"
  /\ UNCHANGED <<TPName, recipeParse, recipeParseResult, handler, ev, robotVars,
                 program, running, paused, hostVars, events>>

--------------------------------------------------------------------------------
(* The state thread.                                                         *)

StateRespond ==
  /\ Serving /\ handler = "poll" /\ events # <<>>
  /\ ev' = Head(events) /\ events' = Tail(events)
  /\ handler' = "handle"
  /\ UNCHANGED <<cmdVars, waitFor, robotVars, testerVars, hostVars>>

Handles(k) == Serving /\ handler = "handle" /\ ev.kind = k
Done == handler' = "poll" /\ ev' = NoEvent

(* sendNotificationComplete, and what the recipe it wakes does next: after an *)
(* unload it loads unless a failure was recorded, after a load it is done.    *)
AfterWait(ok) == IF cmd = "unloading" /\ ok THEN "load" ELSE "idle"
Complete(ok) ==
  IF ev.kind \in waitFor
    THEN /\ waitFor' = {}
         /\ cmd' = IF cmd \in {"unloading", "loading"} THEN AfterWait(ok) ELSE cmd
    ELSE UNCHANGED <<waitFor, cmd>>

(* History: does the event in hand end the wait for a call it does not         *)
(* answer, and has all the recipe called for been answered and handled?       *)
Ours(e) == e.kind \in ProgramKinds /\ ~e.byHand
EndsForeignWait == ev.byHand /\ ev.kind \in waitFor /\ cmd \in {"unloading", "loading"}
CallsOver == pending = None /\ \A i \in 1..Len(events) : ~Ours(events[i])
NoteCut == cutShort' = ((cutShort \/ EndsForeignWait) /\ ~CallsOver)

(* onProgramLoadedEvent: remember what Unison says is loaded now; tell the    *)
(* host, if it wants to know, the name the recipe gave.                       *)
HandleLoaded ==
  /\ Handles("LOADED")
  /\ currProgram' = program
  /\ hostView' = IF On("EVID003") THEN TPName ELSE hostView
  /\ Complete(recipeParseResult)
  /\ NoteCut /\ unannounced' = FALSE /\ misled' = (ev.byHand \/ cutShort)
  /\ Done
  /\ UNCHANGED <<TPName, recipeParse, recipeParseResult, robotVars, testerVars, events>>

(* Seeded fault: the case of LOAD_FAILED goes on into that of LOADED. *)
HandleLoadFailureFallsThrough ==
  /\ Handles("LOAD_FAILED") \/ Handles("ABORT_LOAD")
  /\ recipeParseResult' = FALSE
  /\ IF ev.kind = "LOAD_FAILED"
       THEN /\ currProgram' = program
            /\ hostView' = IF On("EVID003") THEN TPName ELSE hostView
       ELSE UNCHANGED <<currProgram, hostView>>
  /\ Complete(FALSE)
  /\ NoteCut
  /\ Done
  /\ UNCHANGED <<TPName, recipeParse, robotVars, testerVars, unannounced, misled, events>>

HandleLoadFailure ==
  /\ Handles("LOAD_FAILED") \/ Handles("ABORT_LOAD")
  /\ recipeParseResult' = FALSE
  /\ Complete(FALSE)
  /\ NoteCut
  /\ Done
  /\ UNCHANGED <<TPName, recipeParse, robotVars, testerVars, currProgram, hostView,
                 unannounced, misled, events>>

(* Seeded fault: the name is not forgotten. *)
HandleUnloadedKeepsName ==
  /\ Handles("UNLOADED")
  /\ currProgram' = currProgram
  /\ hostView' = None
  /\ robot' = IF recipeParse THEN robot ELSE "free"
  /\ Complete(recipeParseResult)
  /\ NoteCut /\ unannounced' = FALSE /\ misled' = FALSE
  /\ Done
  /\ UNCHANGED <<TPName, recipeParse, recipeParseResult, disableRobot, heard,
                 testerVars, events>>

(* onProgramUnloadedEvent sends 004 whatever EVID004 says; then the robot is  *)
(* freed "if the program was unloaded and not by xtrf".                       *)
HandleUnloaded ==
  /\ Handles("UNLOADED")
  /\ currProgram' = None
  /\ hostView' = None
  /\ robot' = IF recipeParse THEN robot ELSE "free"
  /\ Complete(recipeParseResult)
  /\ NoteCut /\ unannounced' = FALSE /\ misled' = FALSE
  /\ Done
  /\ UNCHANGED <<TPName, recipeParse, recipeParseResult, disableRobot, heard,
                 testerVars, events>>

(* testerStateChange(EVX_TESTER_PAUSED): stop the robot now, or at the end of *)
(* the test that runs when Unison is asked.                                   *)
HandlePaused ==
  /\ Handles("PAUSED")
  /\ disableRobot' = TRUE /\ heard' = "paused"
  /\ IF running THEN Done ELSE handler' = "block" /\ ev' = ev
  /\ UNCHANGED <<cmdVars, waitFor, robot, testerVars, hostVars, events>>

BlockRobot ==
  /\ Serving /\ handler = "block"
  /\ robot' = "blocked" /\ disableRobot' = FALSE
  /\ Done
  /\ UNCHANGED <<cmdVars, waitFor, heard, testerVars, hostVars, events>>

(* Seeded fault: a stop that is still due is not called off. *)
HandleResumedLeavesFlag ==
  /\ Handles("RESUMED")
  /\ robot' = "free" /\ disableRobot' = disableRobot /\ heard' = "nothing"
  /\ Done
  /\ UNCHANGED <<cmdVars, waitFor, testerVars, hostVars, events>>

HandleResumed ==
  /\ Handles("RESUMED")
  /\ robot' = "free" /\ disableRobot' = FALSE /\ heard' = "nothing"
  /\ Done
  /\ UNCHANGED <<cmdVars, waitFor, testerVars, hostVars, events>>

(* Seeded fault: the end of a test is not looked at. *)
ProgramRunDoneIgnored ==
  /\ Handles("RUN_DONE")
  /\ Done
  /\ UNCHANGED <<cmdVars, waitFor, robotVars, testerVars, hostVars, events>>

ProgramRunDone ==
  /\ Handles("RUN_DONE")
  /\ robot' = IF disableRobot THEN "blocked" ELSE robot
  /\ disableRobot' = FALSE
  /\ Done
  /\ UNCHANGED <<cmdVars, waitFor, heard, testerVars, hostVars, events>>

--------------------------------------------------------------------------------
(* Unison, the tester and the people at them.                                *)

Quiet == UNCHANGED <<cmdVars, waitFor, handler, ev, robotVars, currProgram, hostView,
                     cutShort, misled>>

(* A call is answered between two tests.  Only a load can fail.  A program     *)
(* loaded by hand before the load begins is replaced without an UNLOADED.      *)
Answers(o, loaded, notices) ==
  /\ Serving /\ pending = o /\ ~running
  /\ pending' = None /\ asked' = None /\ program' = loaded
  /\ unannounced' = (unannounced \/ (o = "load" /\ program # None))
  /\ events' = events \o notices
  /\ Quiet /\ UNCHANGED <<running, paused>>

TesterUnloads == Answers("unload", None, <<Notice("UNLOADED", program, FALSE)>>)
TesterLoads == Answers("load", asked, <<Notice("LOADED", asked, FALSE)>>)
TesterFails == Answers("load", None, <<Notice("LOAD_FAILED", asked, FALSE)>>)
TesterAborts == Answers("load", None, <<Notice("ABORT_LOAD", asked, FALSE),
                                        Notice("UNLOADED", asked, FALSE)>>)
TesterAnswers == TesterUnloads \/ TesterLoads \/ TesterFails \/ TesterAborts

OperatorLoad(p) ==
  /\ Serving /\ OperatorLoads /\ pending = None /\ program = None
  /\ Len(events) < MaxHandEvents
  /\ program' = p
  /\ events' = Append(events, Notice("LOADED", p, TRUE))
  /\ Quiet /\ UNCHANGED <<pending, asked, running, paused, unannounced>>

OperatorUnload ==
  /\ Serving /\ OperatorLoads /\ pending = None /\ program # None /\ ~running
  /\ Len(events) < MaxHandEvents
  /\ program' = None
  /\ events' = Append(events, Notice("UNLOADED", program, TRUE))
  /\ Quiet /\ UNCHANGED <<pending, asked, running, paused, unannounced>>

PauseOrResume ==
  /\ Serving /\ Len(events) < MaxEvents
  /\ paused' = ~paused
  /\ events' = Append(events, RobotNotice(IF paused THEN "RESUMED" ELSE "PAUSED"))
  /\ Quiet /\ UNCHANGED <<program, pending, asked, running, unannounced>>

TestStarts ==
  /\ Serving /\ ~running /\ robot = "free" /\ program # None /\ pending = None
  /\ Len(events) < MaxEvents
  /\ running' = TRUE
  /\ Quiet /\ UNCHANGED <<program, pending, asked, paused, unannounced, events>>

TestEnds ==
  /\ Serving /\ running
  /\ running' = FALSE
  /\ events' = Append(events, RobotNotice("RUN_DONE"))
  /\ Quiet /\ UNCHANGED <<program, pending, asked, paused, unannounced>>

(* The tester comes back empty, not paused, with its robot free; the recipe   *)
(* is given up and the session rebuilt.  commonInit is not run again, so what *)
(* the handler remembers of the old tester stays.                             *)
TesterRestarts ==
  /\ Serving /\ MayRestart /\ handler = "poll"
  /\ program' = None /\ pending' = None /\ asked' = None
  /\ running' = FALSE /\ paused' = FALSE
  /\ robot' = "free" /\ events' = <<>> /\ cmd' = "idle"
  /\ cutShort' = FALSE /\ unannounced' = TRUE
  /\ heard' = IF heard = "paused" THEN "pausedBefore" ELSE heard
  /\ UNCHANGED <<TPName, recipeParse, recipeParseResult, waitFor, handler, ev,
                 disableRobot, currProgram, hostView, misled>>

--------------------------------------------------------------------------------
CmdStep == CmdParse \/ CmdCall
StateStep == \/ StateRespond \/ HandleLoaded \/ HandleLoadFailure \/ HandleUnloaded
             \/ HandlePaused \/ BlockRobot \/ HandleResumed \/ ProgramRunDone
Environment == \/ CmdRecipeDecodeAvailable \/ CmdRecipeDecode
               \/ \E p \in Programs : OperatorLoad(p)
               \/ OperatorUnload \/ PauseOrResume \/ TestStarts \/ TesterRestarts

Next == ReadConfiguration \/ Exited \/ CmdStep \/ StateStep \/ TesterAnswers
          \/ TestEnds \/ Environment

Spec == Init /\ [][Next]_vars

(* The state thread is scheduled and a test comes to its end; nobody need     *)
(* pause, start a test or send a recipe.                                      *)
FairSpec == Spec /\ WF_vars(StateStep) /\ WF_vars(TestEnds)

--------------------------------------------------------------------------------
(* Properties.                                                               *)

(* With messages 003 and 004 switched on and no event on its way, the last     *)
(* name the host was given is the program in the tester, and none after an    *)
(* unload (userInterface.cpp:436-467).  Not promised, because the code does    *)
(* not keep it: if the last load was one by hand, or of a recipe a hand had    *)
(* cut short, 003 gave a recipe's name for it, which :456-458 calls "fine"     *)
(* (misled); and a program that goes without an event, in a restart or under   *)
(* another load, is believed to be there until the next event (unannounced).  *)
(* Nor is anything said of EVID004 switched off, when the code sends 004 all   *)
(* the same, against :477 and recipeSupport.cpp:122.                          *)
HostKnowsProgram ==
  /\ stage = "serving" /\ On("EVID003") /\ On("EVID004")
  /\ events = <<>> /\ handler = "poll" /\ hostView # "unknown"
  /\ ~misled /\ ~unannounced
  => hostView = program

(* Message 004 names the program that was unloaded, or none (after an aborted  *)
(* load, or if it was loaded before the session), whatever recipes and hands   *)
(* do.  The comment at userInterface.cpp:433-434 has no exception; the code    *)
(* needs two.  The name of a program that went without an event, in a restart  *)
(* or under another load, is remembered until the next LOADED or UNLOADED has  *)
(* been handled, and a 004 in between has it (unannounced).  And if another     *)
(* program has been loaded before an earlier LOADED was handled, the name is    *)
(* that one's (:436-452, 463).                                                *)
LoadedSince(p) ==
  \E i \in 1..Len(events) : events[i].kind = "LOADED" /\ events[i].program = p
UnloadNamesProgram ==
  handler = "handle" /\ ev.kind = "UNLOADED"
    => \/ currProgram \in {None, ev.program}
       \/ unannounced \/ LoadedSince(currProgram)

(* The robot is stopped, or due to be stopped at the end of a test, only if   *)
(* the last word on it was a pause; a tester's restart does not end that word *)
(* for m_bDisableRobot (userInterface.cpp:316, 358-370).                       *)
StopNeedsPause == disableRobot \/ robot = "blocked" => heard # "nothing"

(* The UNLOADED of a recipe's own call leaves the robot as it is: it is         *)
(* unblocked "if the program was unloaded and not by xtrf", and m_recipeParse   *)
(* stays set until the recipe's last event was handled.  The code needs one     *)
(* exception from that comment: after a hand's event has ended the recipe's     *)
(* wait, m_recipeParse can be reset before the recipe's own UNLOADED comes,     *)
(* which then unblocks the robot (userInterface.cpp:283-284, 526).  The other    *)
(* half of the comment, that an unload by hand does unblock it, fails after     *)
(* every recipe, because m_recipeParse stays set, and is not claimed.          *)
HandlesOwnUnload == /\ handler = "handle" /\ handler' = "poll"
                    /\ ev.kind = "UNLOADED" /\ ~ev.byHand
RecipeKeepsRobot == [][HandlesOwnUnload /\ ~cutShort => robot' = robot]_vars

(* A pause stops the robot, at once or at the end of the test that runs: no   *)
(* order of the pause, the query and the end of the test loses it, unless a   *)
(* resume or a restart follows (userInterface.cpp:312-320, 358-365).          *)
PauseHandled == handler = "handle" /\ ev.kind = "PAUSED"
ResumeHandled == handler = "handle" /\ ev.kind = "RESUMED"
PauseStops == PauseHandled ~> \/ robot = "blocked" \/ ResumeHandled
                              \/ heard = "pausedBefore"

--------------------------------------------------------------------------------
(* Why the ones with exceptions hold, as an inductive invariant.  It speaks of *)
(* the events nobody has handled yet, the one in hand first.                   *)

Unhandled == IF ev = NoEvent THEN events ELSE <<ev>> \o events
Here == 1..Len(Unhandled)
Own(i) == Ours(Unhandled[i])
News(i) == Unhandled[i].kind \in {"LOADED", "UNLOADED"}
NoNews == \A i \in Here : ~News(i)
Load(i, p) == Unhandled[i].kind = "LOADED" /\ Unhandled[i].program = p

(* The handler has an event in hand exactly while it handles one; the wait is  *)
(* armed for the call; m_recipeParse is set while a recipe loads and unloads.  *)
HandlerInv ==
  /\ handler = "poll" <=> ev = NoEvent
  /\ handler = "block" => ev.kind = "PAUSED" /\ heard # "nothing"
  /\ cmd \notin {"idle", "parse"} => recipeParse
  /\ cmd = "loading" => waitFor = WaitStates("load")
  /\ cmd = "unloading" => waitFor = WaitStates("unload")

(* A program in the tester is the one the last news is about, if there is any. *)
Last(i) == News(i) /\ \A j \in Here : News(j) => j <= i
NewsInv == program # None => NoNews \/ \E i \in Here : Last(i) /\ Load(i, program)

(* Unless a hand has cut the recipe short, its call is with the tester or      *)
(* answered, and it waits until the answer has been handled.  Only an aborted   *)
(* load is two events; a LOADED is for the program the recipe named, which is   *)
(* in the tester unless there is news since.                                   *)
AtTester ==
  pending # None => /\ cmd = Waiting[pending] /\ \A i \in Here : ~Own(i)
                    /\ pending = "load" => asked = TPName
Awaited(i) == /\ cmd \in {"unloading", "loading"}
              /\ Unhandled[i].kind # "UNLOADED" => cmd = "loading"
              /\ Unhandled[i].kind = "LOADED" => /\ Unhandled[i].program = TPName
                                                 /\ Last(i) => program = TPName
Aborted(i, j) == Unhandled[i].kind = "ABORT_LOAD" /\ Unhandled[j].kind = "UNLOADED"
CallInv == ~cutShort => /\ AtTester
                        /\ \A i \in Here : Own(i) => Awaited(i)
                        /\ \A i, j \in Here : Own(i) /\ Own(j) /\ i < j => Aborted(i, j)

(* What m_strCurrProgramLoaded holds, and what the host believes.             *)
First(i) == News(i) /\ \A j \in Here : News(j) => i <= j
NameInv ==
  \/ unannounced \/ currProgram = None
  \/ \E i \in Here : Load(i, currProgram)
  \/ NoNews /\ currProgram = program
  \/ \E i \in Here : /\ First(i) /\ Unhandled[i].kind = "UNLOADED"
                      /\ Unhandled[i].program = currProgram
ViewInv == On("EVID003") /\ ~unannounced /\ ~misled /\ NoNews
             => hostView \in {"unknown", program}

(* Nothing is sent while the configuration is being read. *)
SilentBefore == stage # "serving" => hostView = "unknown"

UnisonInv == /\ TypeOK /\ PrefixRules /\ HandlerInv /\ StopNeedsPause /\ SilentBefore
             /\ CallInv /\ NewsInv /\ NameInv /\ ViewInv
================================================================================
