# recipeHandler: models, checks and proofs

recipeHandler runs beside a tester. It listens to the tester's Unison software,
receives a recipe (an XML text, "XTRF"), fetches the test program the recipe
names, unloads the running program and loads the new one, and then writes the
recipe's STDF fields into the tester's lot information. It is about 5000 lines
of C++ in three threads, and what is hard about it is mostly not the parsing: it
is that one thread sleeps until another tells it that the tester has done what it
was asked, that both share structures without a common lock, that a human may
load and unload programs at the same time, and that no shell command's result
is looked at.

`src/` below is the repository. `ProgramNotification.tla` and its neighbours
are this directory.

## 1. The system

| Part | State it keeps | Operations | Talks to |
|---|---|---|---|
| Main loop (`recipeHandler.cpp:104`) | none of its own; polls `m_testerRestart` | connect, wait until ready, register, watch, shut down | session, notification |
| Tester session (`evxaTester.cpp`) | `m_states`, `m_cmdNotify`, `m_evxioStreams` and their threads, `m_internTHC`, `m_programCtrl` | `connect`, `startListener`, `stopListener`, `disconnect`, three `run` loops | calls the handlers below from its threads |
| Program notification (`userInterface.cpp:2396-2490`) | `m_currentState`, `m_currentProgramStateArray`, `m_taskComplete`, `m_goAway`, `m_wakeUp`, `m_condMutex` | `setupProgramNotification`, `waitForNotification`, `sendNotificationComplete`, `shutdownTester` | shared by the command, the state and the main thread |
| Program events (`programChange`, :248) | `m_recipeParseResult`, `m_recipeParse` | one case per event | state thread; ends in `sendNotificationComplete` |
| Reload strategies (:1742-2388) | `m_TPArgs`, files on server and tester PC, the loaded program | `executeRecipeReload`, six strategy functions, download, copy, unpack, unload, load | command thread; waits with program notification |
| Recipe parameters (:502-1502, `recipeSupport.cpp`) | `m_MIRArgs`, `m_SDRArgs`, `m_GDR` | parse, clear, `sendMIRParams`, `sendSDRParams`, `updateSTDFAfterProgLoad` | written by the command *and* the state thread |
| Robot control (:312-377) | `m_bDisableRobot` | pause, resume, end of a test, unload | state thread |
| Host messages (:436-496) | `m_strCurrProgramLoaded`, the EVID switches | S10F1 texts | both listener threads |
| Configuration (:2496-2662, `recipeSupport.cpp:1-126`) | `m_ConfigArgs` | read once at start-up | all |
| XML reader (`xmlInterface.cpp`) | none between two files | `readbasicxmlnode`, `deletebasicxmlnode`, `XML_Node` | recipes and configuration are read with it |
| Command line, logging, build files, `def.uic` | - | - | - |

Who calls whom: the tester sends notifications; a listener thread's `respond`
calls a handler. The *command thread* runs a whole recipe inside one handler
(`RecipeDecode`) and, for each load or unload, arms a wait, calls
`ProgramControl` with `NO_WAIT` and sleeps. The *state thread* handles
`programChange` and wakes it. The *main thread* sees the restart flag the state
thread sets and deletes the session, which waits for both threads.

What is hard, and where (PROJECT.json, "hazards", has every line):

- a wait armed without the lock, a mutex re-initialised in every call, a
  completion matched by kind only, a shutdown that signals without the lock;
- failures that travel from the state thread to the command thread by a flag;
- a truth table with fallbacks, over files that `cp` and `tar` may or may not
  have written;
- structures cleared by one thread, filled in by another, sent by the first;
- flags about the robot and the loaded program that one event sets and another
  uses, with tests ending, people pausing and testers restarting in between;
- a configuration whose tags mean what the tags before them make them mean;
- an XML reader that calls itself on a file which may be cut off anywhere;
- threads that start, die silently and must be gone before what they use is.

What makes each part correct is stated as the properties of its module, below.

## 2. The modules

Every module follows one component and abstracts the others to what it sees of
them.

| Module | Models | Abstracts from |
|---|---|---|
| `ProgramNotification` | the command, state and main thread around the condition variable; the tester answering calls, restarting; an operator | which strategy is used; the fields sent |
| `ReloadStrategy` | one recipe's way through strategy, files, unload and load | how a call waits (one step each) |
| `RecipeParams` | where every field's value comes from, and when which thread touches it | the wait protocol (one step) |
| `TesterSession` | building, watching and taking down a session | what a handler does |
| `ProgramCalls` | abstract specification: a load or unload is called, answered, recorded, returned, or lost to a restart | threads, mutexes, events |
| `ConfigFile` | reading the configuration, one child tag per step, and `main()`'s decision to serve | attributes that are only logged |
| `HostAndRobot` | extends `ConfigFile`: the session it configures, with host messages and robot control | the steps inside a wait; the strategies |
| `XmlReader` | the reader, one character per step, and its recursion | buffers' sizes |
| `XmlWriter` | no code: what it means that a text was written from a tree, which the reader is compared with | |
| `MCHostAndRobot`, `MCXmlReader` | configurations, trees and the texts of them for TLC | |
| `*Proofs` | theorems about the module of the same name (`XmlRoundTripProofs`: about `XmlReader` and `XmlWriter` together) | |

`TesterSession` supplies what the others rely on: a handler only runs while its
session exists. `ProgramCalls` says what a load or unload is to a recipe:
`ReloadStrategy` and `RecipeParams` take it as one action. ProgramNotification
implements it (`ImplementsProgramCalls`, checked by TLC and proved) as long as
nobody loads by hand; its violation runs are cases where there is no such
licence. `XmlReader` supplies the tags that `ConfigFile` reads and the recipes
that `ReloadStrategy` and `RecipeParams` start from.

### ProgramNotification

`pcCmd`, `pcState` and `pcMain` are the three threads' program counters. Every
access to a shared location that the code makes outside `m_condMutex` is a step:
the six of `setupProgramNotification` (`CmdSetup`), the two reads of
`sendNotificationComplete` (`StateGuard`, `StateMatch`), the read, write and
signal of `shutdownTester`. Inside the mutex the two loop tests stay separate,
because `m_goAway` is written outside it. `pthread_cond_wait` releases and
sleeps at once and may wake spuriously. `pthread_mutex_init` on a mutex that is
held is undefined; it is modelled as freeing it, and a later unlock by the old
holder frees it under the new one. `m_currentProgramStateArray` is a set.
`m_currentMinorState` never changes (only dead code sets it), so the second
branch of the match cannot succeed, and wafer and lot events, which reach the
same function, complete nothing; both are left out.

The tester is modelled from how the code uses it: a call is accepted or returns
an error; an unload is answered with UNLOADED, a load with LOADED, with
LOAD_FAILED, or with ABORT_LOAD followed by UNLOADED, which is why
`loadProgram` waits for UNLOADED too. A restart is its last notification.

### ProgramCalls and the refinement

Five variables: `call`, its `answer`, whether no failure is recorded
(`result`), whether the tester is `up` and has a `program`. A call returns only
after its answer; if the answer is a failed load, only after the failure is in
`m_recipeParseResult`, which is what keeps parameters from being sent to a
tester without a program. In `ProgramNotification`, `InCall` says from which
program counters a call is in progress (from the accepted `ProgramControl` call
to the return from the wait), and `Answered` where its answer is: with the
tester, in the queue, with the state thread, or gone with a restart. Setting up,
taking the mutex, sleeping, waking for no reason and shutting down are stutters.

### ReloadStrategy

One package and one program name are followed through the server (`remote`),
`LocalLocation` (`local`), `ProgLocation` (`prog`) and the tester (`loaded`).
`pc` names the step inside the strategy function; `FirstStep`, `AfterDownload`
and `AfterUnpack` are the six functions' control flow as tables. `cp` may fail
leaving the old package or a damaged one, `tar` may fail leaving the old
program or none. `mishaps` and `start` are history variables that let the
properties say "when nothing went wrong" and "what was there".
The shape of TPPath is fixed per behaviour.
Assumed: a package contains the program its name promises.

### RecipeParams

A value is its origin: this recipe, made up by the handler, an earlier recipe,
or there before. `Cleared` is `clearAllParams` with the field it forgets. The
state thread's test and write of the serial number are two steps. `LotId`,
`HandTyp` and `GuiNam` stand for the fields that have no code of their own. An
access to a `std::string` is one step: what a torn string looks like is not
followed. TRF-XTRF is kept whenever the recipe has a value, as at :983: the code
looks at `required` nowhere, so `strict` (is it given with required="strict"?)
is history. `FaFollowsRecipe` asks for this recipe's value where it is strict, for
lotid_flowid where there is none, and for either of the two where the comment at
:982 and the code disagree. `customs` are `m_GDR`'s lists, one for each name of a
custom GDR; `AddCustom` is `addCustom` with its search for the first list of a name, and
`Arranges` says independently of it how fields and names should end up. A GDR
keeps its name only if `customName` is its last attribute (:1177): any other is
one without a name here, and `given` and `named` tell of the name the code
keeps. `Walk` is any part of the lists when `parseGDR` makes them longer
meanwhile, which takes an operator who loads.

### TesterSession

`pc` is the main thread: `connect`, the three starts, the wait for the tester,
registration, the reset of the restart flag, the watching loop, the three stops
and the release. A listener is none, unstarted (the object exists, its thread
does not), polling, handling or dead (`respond` failed and `run` returned).
Deleting a listener waits for its handler (`CThread::stop` joins; modelled from
its use). A tester may restart, announcing it, or die without a word,
anywhere. `connect` succeeds exactly when a tester is there.

### ConfigFile and HostAndRobot

`ConfigFile` reads `file`, a sequence of child tags: a choice
(`<CurrentSiteConfiguration>`) or a site with its parameters as a function. A
site is compared with the choice read so far. `HostAndRobot` adds the session:
`handler` and `ev` are the state thread and its event, `cmd` the recipe,
`waitFor` the armed states, `events` the notifications Unison has sent. One
handler is one action, except a pause, where Unison is asked whether a test
runs and may be answered before the test ends (`HandlePaused`, `BlockRobot`).
What is told or done without a guard is kept that way: message 004 is sent
whatever EVID004 says (it does not go through `SendMessageToHost`), 003 has the
name in `m_TPArgs.TPName` although `m_strCurrProgramLoaded` is asked of Unison
at the same moment, UNLOADED frees the robot unless `m_recipeParse` is set, which
only the next recipe or `RecipeDecodeAvailable` resets, and `commonInit` is not
run after a tester restart.

Five variables are history. `heard` is the last word on pausing, `hostView` the
program the host believes in. The other three name exactly what goes wrong
between recipes, hands and restarts, and each property below excepts only the
one it cannot do without:

- `cutShort`: an event of a hand ended the wait for a recipe's call, and what
  the recipe has called for is not all answered and handled yet;
- `unannounced`: a program went without an UNLOADED (in a restart, or because a
  load replaced a program a hand had loaded just before), and no LOADED or
  UNLOADED has been handled since;
- `misled`: the last 003 was for a load by hand, or for one of a recipe that was
  cut short, so its name is that of another recipe.

Assumed of Unison: a load that begins over a program replaces it without an
UNLOADED of its own. The code never asks for one (it unloads first), so only a
load by hand between the recipe's look and its call gets there.

### XmlReader

`Rules(phase)` is the switch of `readbasicxmlnode` as a table: on which
characters to go where and what to store. The tag is then taken apart with the
same searches as in the code (`FindSpace`, `FindPair`): `TakeName`, then one
`TakeAttribute` for each round of the attribute loop, until a search for `="`
and `='` finds neither. `spans` is history: where the phases saw each name, its
equal sign and the end of its value, against which the searches are compared
(`AttributesAsScanned`). The recursion is kept
without a stack: `nodes` is the tree in the order of the start tags, each with
its parent, and the calls under way are `open` and its ancestors. At any
character the file may end (`cut`). Failures unwind through the callers, which
delete what they have. What the code leaves unset is a choice (`EndInText`: the
entry after the last child). Characters are classes: two letters, a digit, one
other, and every character the switch names.

`XmlWriter` models no code. It is the reference definition the reader is held
against: a writer goes through a tree in the order of the start tags and puts
down one character after the other. `After(t, w, c)` is the set of states it may
be in after the character `c`, so blanks, either quote, `<a/>` or `<a></a>`, and
instructions, declarations and comments before a tag are its choice.
`Written(doc)` says that the document's text is one it may have put down, from a
tree whose texts, blank ones left out as `initNode` does, are `doc.nodes`. It
covers what a writer may put without the reader seeing something else: a tag is
begun right behind its `<`, and a value holds neither `<` nor a tab (the reader
refuses the one and makes a space of the other).
`MCXmlReader` has TLC's texts made by a different, deterministic writer; its
assumption `GoodIsWritten` has TLC check that each of its undamaged texts is
`Written`, so the hypothesis of the theorem about it holds of all of them.

## 3. What is checked

`tlc -workers 2 -config X.cfg M`. Constants are in the cfg files.

| Run | Module | Shows | Distinct states |
|---|---|---|---|
| `NotifyQuiet` | ProgramNotification | no operator, failing calls, restarts: mutual exclusion, no lost completion, a wait returns only for its own call, parameters only go to a loaded program, every recipe returns; `ProgramCalls` is implemented; the inductive invariant | 1 959 |
| `NotifyOperator` | ProgramNotification | operator loads and unloads at any time: recorded failures stand, the state thread never hangs | 278 697 |
| `ReloadStrategy` | ReloadStrategy | the truth table at :1812-1897 for all attributes and situations; mishaps of all four kinds; every recipe ends | 434 106 |
| `RecipeParams` | RecipeParams | forced, onEmpty and absent fields after a recipe; what the FAmodule is told first, custom GDRs arranged by name included; what survives from the recipe before | 3 248 976 |
| `TesterSession` | TesterSession | order of building and taking down; an announced restart is acted on | 2 567 |
| `HostAndRobot` | MCHostAndRobot | configuration to session: the chosen site rules; the robot stops for pauses only, and for every pause; what the host knows, which name an unload is told under, that a recipe's unload leaves the robot alone, each up to the exceptions of section 2; the inductive invariant | 669 401 |
| `XmlReader` | MCXmlReader | 2616 texts, each cut anywhere: read exactly if whole and undamaged, as the tree they were written from; the searches find the attributes the phases saw, in arrays long enough; nothing is left after a failure; every step is progress and the end is always reached | 683 835 |

Each property of these runs has a seeded fault in its module (a definition
named after the one it replaces, introduced by "Seeded fault" in a comment) that
makes TLC find the property violated; PROJECT.json, "mutants", pairs them.

Runs that TLC refutes, each checking a sentence of the repository against the
code (PROJECT.json, "findings", quotes them):

| Run | Property | What happens |
|---|---|---|
| `NotifyShutdown` | `ShutdownCompletes` | the shutdown's signal falls between a waiter's test of `m_goAway` and its sleep; main thread and command thread wait for each other |
| `NotifyEarlyReturn` | `WaitReturnsAfterAnswer` | an unload by hand ends the wait for the recipe's own call |
| `ReloadNested` | `TruthTable` | a package in a subfolder is copied to one place and looked for in another |
| `RecipeSerialRace` | `HostNameFillsGap` | the host name replaces the serial number a recipe just gave |
| `XmlTruncated` | `NullMarksEnd` | the file ends inside an element with children: the entry after the last child is not set |

Six more sentences of the repository that the code does not keep have no run of
their own. The property that comes nearest says in its comment what it leaves
out, and the part named here, dropped from it, makes TLC show the case:

- "make the value always taken from lotid_flowid, unless TRF_XTRF field in XTRF
  is \"strict\"" (:982): any TRF-XTRF of the recipe is kept (:983). In
  `FaFollowsRecipe`, ask for lotid_flowid unless `strict`.
- 004 is sent "with the right test program name" (:433-434): nothing clears
  `m_strCurrProgramLoaded` when the tester restarts (`commonInit`, :208-222, runs
  once), so the UNLOADED of the next load that is aborted is told under the old
  tester's program. In `UnloadNamesProgram`, drop `unannounced`.
- 003's name "is expected to match the actual loaded program" (:456-458): a load
  by hand is told under the name of the last recipe, or of none (:482). In
  `HostKnowsProgram`, drop `~misled`.
- "Enable TP-UNLOADED messaging to host" (`recipeSupport.cpp:122`, tested at
  :477): 004 does not go through `SendMessageToHost` and is sent with EVID004 off
  (:451). `HostKnowsProgram` is stated for both switches on; that the host is
  told nothing with EVID004 off is false.
- "If the program was unloaded and not by xtrf then unblock the robots" (:283),
  that is, not for a recipe's unload: when a hand has ended the recipe's wait,
  `RecipeDecodeAvailable` may reset `m_recipeParse` before the recipe's own
  UNLOADED comes, which then frees the robot. In `RecipeKeepsRobot`, drop
  `~cutShort`.
- The same sentence the other way round: an unload by hand after a recipe leaves
  the robot blocked, because nobody resets `m_recipeParse` when a recipe ends.
  `RecipeKeepsRobot` claims nothing of it.

Also visible in the models:

- an unload by hand can disarm a wait that `setupProgramNotification` is arming
  (:2413-2427), and the recipe then sleeps for ever (`RecipeReturns` fails with
  an operator);
- `cp`'s failure is not looked at (:2124), so that a forced download may load an
  older package;
- `CMIRArgs::clear` forgets FLOW_ID, which is why `OnlyFlowIdSurvives` excepts it;
- the choice of a site has to come first in the configuration file (:2536-2537
  say "we find that first"), which is `ChosenSiteRules`'s premise;
- a pause that was due at the end of a test outlives a restart of the tester,
  because `m_bDisableRobot` is not reset (`StopNeedsPause` allows it, as
  "pausedBefore": no sentence of the repository says otherwise);
- `setLotInformation` ignores `required` (comment at :1360-1365, test commented
  out at :1377);
- a failed `respond` ends a listener without anybody noticing;
- `setTesterRestart(false)` (`recipeHandler.cpp:133`) can erase a restart
  announced since `connect`;
- a GDR whose `recordName` comes after its `customName` loses the name (:1177),
  so that an AUTOMATION record written that way goes into a nameless custom GDR;
- a record without `<STDFfields>` is read through a NULL pointer (:1184, :1243,
  :1316).

### Bounds, and why they are enough

- `ProgramNotification`: `MaxEvents` bounds how many notifications may be
  queued before the operator acts again (1 with an operator: one foreign event
  in the queue and one in the state thread already overlap every step of a
  wait). Recipes, restarts and sessions are unbounded; the state is finite.
- `ReloadStrategy`: two versions, enough to tell the server's from the local
  one; three spellings for each strategy attribute, which are all the classes
  the code distinguishes. The passing run has no subfolders in TPPath, because
  with them the table does not hold (`ReloadNested`).
- `RecipeParams`: `MaxFields = 2` fields per recipe; fields only interact in
  pairs (FLOW_ID with TRF-XTRF, SERL_NUM with the reload). A recipe of custom
  GDRs only may have `MaxCustoms = 3` fields under two names, so that a name
  comes back after another. The theorems have no such bound.
- `TesterSession`: restarts and deaths anywhere; nothing is bounded.
- `HostAndRobot`: two programs, so that a name can be the wrong one; files of up
  to three child tags, so that a site of another name can stand before and
  after the chosen one; pauses and tests begin while fewer than `MaxEvents`
  notifications are queued, hands act while fewer than `MaxHandEvents` are. With
  one of each a pause, a resume and an end of test meet, a hand's event ends a
  recipe's wait, a load replaces what a hand has loaded, and a restart falls
  into either. That a program goes and another comes before the first LOADED is
  handled (`LoadedSince`) takes `MaxHandEvents = 2`; with it and two child tags
  the invariants hold in 2 517 090 states, which takes too long with the liveness
  property. The theorems have none of these bounds.
- `XmlReader`: trees of up to four nodes and depth three with up to two
  attributes, in 64 styles (quotes, white space, comments and other skipped
  tags, `<a/>` or `<a></a>`, text before or after the children), and twenty
  damaged texts, one for each way a phase of the switch refuses. Values hold
  what the searches look for. For undamaged files none of these bounds is in the
  theorems; that a damaged one is refused is checked on these twenty.

No symmetry is used.

### Fairness, and why the code justifies it

- Threads are scheduled: weak fairness of each thread's own steps.
- `m_condMutex` is a pthread mutex held for a few instructions: strong fairness
  of taking it (`CmdLock`, `StateLock`), because a contended mutex is enabled
  again and again rather than continuously.
- The tester answers a call it accepted (weak fairness of `TesterAnswer`); it
  need not restart, and an operator need not act.
- In `HostAndRobot` the state thread is scheduled and a test that runs comes to
  its end; nobody need pause, resume, start a test or send a recipe.
- `XmlReader` is a loop in one thread: it goes on while it can. The choice
  between reading on and the end of the file is left open.
- In `TesterSession` a handler comes to an end. That is `RecipeReturns`'s
  subject, and `NotifyShutdown` shows when it fails.

`CHECK_DEADLOCK` is on everywhere.

## 4. What is proved

All theorems are checked by TLAPS, for every value of the constants that the
named assumptions allow.

| Module | Theorem | Assumption |
|---|---|---|
| ProgramNotificationProofs | `TypeCorrect`, `FailureStands` | none |
| | `QuietInvariant`, `MutexExcludes`, `CompletionSeen`, `ParamsAfterLoad`, `WaitsForOwnAnswer`, `NobodyWaitsInVain` | `OperatorOps = {}` |
| ReloadStrategyProofs | `TypeCorrect`, `TruthTableFollowed`, `RunningProgramSurvives`, `RequestedProgramRuns`, `RecipeAdvances` | none |
| | `ReloadInvariant` | `"nested" \notin Paths` |
| RecipeParamsProofs | `TypeCorrect`, `OnlyFlowIdIsStale` | none |
| | `ParamsInvariant`, `RecipeDelivered`, `FaToldFirst`, `CustomsToldFirst` | `OperatorLoads = FALSE` |
| TesterSessionProofs | `SessionInvariant`, `TypeCorrect`, `HandlersSafe`, `CommandsHaveStates`, `RestartStaysAnnounced` | none |
| ProgramCallsProofs | `CallsImplemented` | `OperatorOps = {}` |
| HostAndRobotProofs | `TypeCorrect`, `ConfigAsChosen`, `UnisonCorrect`, `HostIsTold`, `UnloadIsNamed`, `StopsOnlyForPause`, `RecipeLeavesRobot` | none |
| XmlReaderProofs | `TypeCorrect`, `ReaderCorrect`, `TagsHaveForm`, `PassesAgree`, `DeleteTakesSubtree`, `CutIsNeverRead`, `NullLeavesNothing`, `Progress`, `MeasureIsNatural` | none |
| XmlRoundTripProofs | `WrittenIsRead` | `Written(doc)`: the file was written from a tree |

None of these assumptions is about sizes. Those on constants each exclude a
behaviour for which a violation run shows that the property fails; `Written` is
inside `WrittenIsRead` because the property compares the result with the tree. (The modules' own
ASSUMEs only say what kind of value a constant is.)

How the arguments go:

- **The wait protocol.** Mutual exclusion alone is not inductive, because
  `pthread_mutex_init` can free a mutex the state thread holds. The invariant
  `QuietInv` says why it does not: a call has one answer, and the answer is in
  exactly one place - with the tester, in the queue, or with the state thread
  (`AnswerInv`); while it is in any of them the command thread is in its wait,
  so it is not in setup. `CompleteInv` ties `m_taskComplete` to the end of that
  journey, `ShutdownInv` keeps the main thread behind the last event,
  `OutcomeInv` carries a failed load to `m_recipeParseResult`. `WakeInv` says
  that a wait stays armed for its own kind of answer until that answer has
  completed it. So while a recipe sleeps and the tester is up, the tester works
  on the call, the answer is queued, or the state thread is about to complete
  the wait (`NobodyWaitsInVain`): what `RecipeReturns` needs besides fairness.
  The operator breaks `AnswerInv`, hence everything.
- **The truth table.** `FallbackInv` says, for each step of a strategy
  function, which places of the table's row have been tried in vain;
  `MemoryInv` says what the recipe remembers and has not touched;
  `ControlInv` says which functions get where. What they say of the table's row
  holds only of a recipe whose `TPPath` has no subfolders (`TableInv`, and so
  the hypothesis inside `TruthTableFollowed`; ReloadNested shows that it is
  needed). What they say of the running program holds of every recipe
  (`SafeInv`).
- **The fallbacks end.** `Rank` counts the steps a recipe can still take. Whether
  unpacking comes before or behind the download depends on the function, hence
  `ControlInv`, which excludes that a fallback leads back (`RecipeAdvances`).
- **Parameters.** `TurnInv` says the state thread is at work only while the
  recipe waits; then `ArgsInv` describes the structures before and after it,
  `LotInv` lot information field by field in the order of sending.
- **Custom GDRs.** `Arranges` is itself inductive: as lists start with ever later
  fields and each holds all of its name, no two have the same name, so the
  first list `addCustom` finds is the only one (`NamesDiffer`), and appending to
  it or behind it keeps the arrangement (`AddCustomArranges`).
- **The session.** `StageInv` says what exists at each line of the main loop,
  `OrderInv` that a command listener has a state listener before it.
  `RestartStaysAnnounced` follows a restart from the notification through the
  state listener to the flag: while the session is watched, nobody clears the
  flag, and no other listener's fate touches the thread that is to read the
  notification.
- **The refinement.** `QuietInv` carries it: each step of the threads maps to
  one action of `ProgramCalls` or to a stutter, case by case. That the abstract
  `Return` waits for a recorded failure is `OutcomeInv`; that a `Restart` in the
  middle of a call leaves it "lost" rather than unanswered is `AnswerInv` once
  more.
- **Host and robot.** The invariant speaks of the events nobody has handled, the
  one in hand first (`Unhandled`). `NewsInv`: a program in the tester is the one
  the last LOADED or UNLOADED among them is about, if there is one. `CallInv`:
  while no hand has cut the recipe short, its call is with the tester or
  answered by the only events of its own (an aborted load's are two, in order),
  it waits until they are handled, and its LOADED names what it asked for.
  `NameInv` and `ViewInv` say what `m_strCurrProgramLoaded` and the host's
  belief are worth in terms of that queue: the remembered name is that of a
  LOADED still to come, of the program there, or of the first UNLOADED to come.
  None of the three properties is inductive without them, since each speaks only
  of a moment when an event is handled or none is left. A step that sends puts
  its events behind, a step that handles takes one away (`Grows`, `Shrinks`), and
  `Follows` and `KeepsNews` say once what such a step leaves as it was. The
  exceptions are conditions of the properties, not of the steps: the invariant is
  kept by every step of hands and restarts, and becomes fully informative again
  by itself once the events in question have been handled. `HostIsTold`,
  `UnloadIsNamed` and `RecipeLeavesRobot` are the statements with exactly the
  exceptions of the runs.
- **The configuration.** `PrefixRules` is `ChosenSiteRules` for the part of the
  file that has been read.
- **The reader.** `ScanInv` says what the buffer looks like in each phase, above
  all that a phase entered after a blank knows it. `SpansInv` follows the
  attributes: each stands right behind the one before it, no name holds an equal
  sign, no value the quote it stands in (`Placed`), and each phase says how far
  the one under way has got. So the nearest `="` or `='` behind an attribute is
  that of the next one, and the nearest quote and space behind its opening quote
  is its end, whatever its value holds: `SearchAgrees`, from which `TakingInv`
  is inductive and `PassesAgree` follows. Attributes end further and further on
  (`EndsGrow`), each at a quote with a space behind it, so there are never more
  of them than the estimate counts (`EnoughPlaces`). `TreeInv` says that parents
  stand before their children and only the root has none; `NestInv`, that what
  comes behind a node stands below it or no deeper than beside it. So the nodes
  behind the open one are its subtree (`DeleteTakesSubtree`): deleting a node
  with its children is cutting the tree off there, as the model has it, and
  deleting the last open one leaves nothing (`NullLeavesNothing`).
- **Reading what was written.** The reader looks at its text through a buffer
  it searches, the writer knows its tree; `Follows(t, w)` (in `XmlWriter`) says
  how the two keep step: in each phase where the writer then is, how many
  characters of which name or value are in the buffer (`StartRead`, `EndRead`),
  that a complete tag spells the node it was written from (`Pends`), and that
  the nodes built so far are those of the tree, with as much of their text as
  has been written (`TreeRead`). The invariant `InStep` is `Follows` for every
  tree and every sequence of writer's states that may have produced the file:
  blanks may be written in several ways, and which one it was is not in the
  text. A character takes both on by one (`CharFollows`); taking the tag apart
  takes only the reader on, and finds the attributes where `AttributesAsScanned`
  says the phases saw them, so their characters are the tree's
  (`AttributeOf`, `SameNode`). The property alone is not inductive, because it
  says nothing before the reading ends.
- **The reader's end.** `Progress` shows that every step lowers a measure
  (`Stage`, then `Unread`, then `Work`), `MeasureIsNatural` that it consists of
  natural numbers. That a reading therefore ends is the usual argument by
  well-founded descent; with the fairness in it, it is the run that checks it
  (`Ends`).

Where an argument is an induction over positions (`SpaceFound`, `EndsGrow`), it
is done with a first place where the claim fails: `Least` proves that a set of
numbers has a least one, from the well-foundedness of strict inclusion on
finite sets, which needs no operator parameter.

Only model-checked: that a damaged file is refused (what `ReadsWhatWasWritten`
says of files that are not `good`; it is about the twenty texts, each wrong in
its own way), and the liveness properties (`RecipeReturns`,
`StateHandlerReturns`, `RecipeEnds`, `RestartIsSeen`, `PauseStops`, `Ends`),
which are out of the prover's reach, as is ENABLED. For four of them the part
that is safety is proved: `NobodyWaitsInVain` for `RecipeReturns`,
`RecipeAdvances` for `RecipeEnds`, `RestartStaysAnnounced` for `RestartIsSeen`,
`Progress` for `Ends`.

## 5. Not modelled, and why

The command line (`argSwitches.cpp`, `cmdLineSwitches.h`), logging
(`utility.cpp`) and build files: used once at start-up or without effect on
anything else. Of the configuration, `checkConfigParams` (never called) and
`CRecipeConfig`'s assignment, which takes `PackageType` from `ProgLocation`
(`recipeSupport.cpp:30`) and which nothing uses. Of the XML reader, growing
buffers and failing allocations, and the accessors of `XML_Node`. Of the host
messages, those that change no state (001, 002, 006 to 013), and the status of
`BlockRobot`, `UnblockRobot` and `gemSendMsgToHost`, which the code at most
logs. Of the recipe's fields, those that have no code of their own, and what the
FAmodule gets whatever the recipe says (GEM status, CGEM name and revision). Dead
code:
`sendRecipeResultStatus` (commented out at :429), `sendStartOf*`/`sendEndOf*`,
`setupWaitForNotification`, `handleBackToIdleStrategy`, `getUnisonVersion`.
Construction and destruction of C++ objects are single steps, so the window in
`~Cmonitor` between the derived and the base destructor is not seen.

## 6. Plan

Done, in this order of importance: ProgramNotification, ReloadStrategy,
RecipeParams, TesterSession; then ProgramCalls and the refinement, ConfigFile
and HostAndRobot, XmlReader; each with its proofs.

Next:

1. ReloadStrategy composed with ProgramCalls, so that a strategy's unload and
   load are the calls themselves and a restart can fall into a strategy.
2. TesterSession with the window before the watching loop, where
   `setTesterRestart(false)` erases a restart.
