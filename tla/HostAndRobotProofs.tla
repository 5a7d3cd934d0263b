--------------------------- MODULE HostAndRobotProofs ---------------------------
(***************************************************************************)
(* Proofs about HostAndRobot and the configuration file it starts with.     *)
(*                                                                           *)
(* Four parts: types, the configuration file, the robot, and what the host   *)
(* is told.  Only the last one knows about the recipe's calls and the news    *)
(* that is on its way.                                                       *)
(***************************************************************************)
EXTENDS HostAndRobot, TLAPS

USE DEF configVars, cmdVars, robotVars, testerVars, hostVars

(* Events appended to the queue and taken from it. *)
LEMMA QueueAppend ==
  ASSUME NEW q \in Seq(Event), NEW e \in Event
  PROVE  /\ Append(q, e) \in Seq(Event)
         /\ Len(Append(q, e)) = Len(q) + 1
         /\ \A i \in 1..Len(q) : Append(q, e)[i] = q[i]
         /\ Append(q, e)[Len(q) + 1] = e
  OBVIOUS

LEMMA QueueTail ==
  ASSUME NEW q \in Seq(Event), q # <<>>
  PROVE  /\ Head(q) \in Event /\ Tail(q) \in Seq(Event)
         /\ Len(q) > 0 /\ Len(Tail(q)) = Len(q) - 1
         /\ Head(q) = q[1]
         /\ \A i \in 1..(Len(q) - 1) : Tail(q)[i] = q[i + 1]
  OBVIOUS

LEMMA QueueConcat ==
  ASSUME NEW q \in Seq(Event), NEW r \in Seq(Event)
  PROVE  /\ q \o r \in Seq(Event)
         /\ Len(q \o r) = Len(q) + Len(r)
         /\ \A i \in 1..Len(q) : (q \o r)[i] = q[i]
         /\ \A i \in (Len(q) + 1)..(Len(q) + Len(r)) : (q \o r)[i] = r[i - Len(q)]
  OBVIOUS

LEMMA QueueFirst ==
  ASSUME NEW e \in Event, NEW q \in Seq(Event)
  PROVE  /\ <<e>> \o q \in Seq(Event)
         /\ Len(<<e>> \o q) = Len(q) + 1 /\ Len(q) \in Nat
         /\ (<<e>> \o q)[1] = e
         /\ \A i \in 1..Len(q) : (<<e>> \o q)[i + 1] = q[i]
  OBVIOUS

LEMMA ShortQueues ==
  ASSUME NEW e \in Event, NEW f \in Event
  PROVE  <<e>> \in Seq(Event) /\ <<e, f>> \in Seq(Event)
  OBVIOUS

LEMMA Notices ==
  /\ \A k \in ProgramKinds \union RobotKinds, p \in AnyProgram, h \in BOOLEAN :
       Notice(k, p, h) \in Event
  /\ \A k \in RobotKinds : RobotNotice(k) \in Event
  BY DEF Notice, RobotNotice, Event, AnyProgram

--------------------------------------------------------------------------------
(* Types.                                                                    *)

(* The types of everything but the configuration. *)
SessionTypeOK ==
  /\ cmd \in {"idle", "parse", "unload", "load", "unloading", "loading"}
  /\ TPName \in AnyProgram /\ recipeParse \in BOOLEAN
  /\ recipeParseResult \in BOOLEAN /\ waitFor \subseteq WaitStates("load")
  /\ handler \in {"poll", "handle", "block"} /\ ev \in Event \union {NoEvent}
  /\ disableRobot \in BOOLEAN /\ robot \in {"free", "blocked"}
  /\ heard \in {"nothing", "paused", "pausedBefore"}
  /\ program \in AnyProgram /\ pending \in Calls \union {None}
  /\ running \in BOOLEAN /\ paused \in BOOLEAN
  /\ currProgram \in AnyProgram
  /\ hostView \in AnyProgram \union {"unknown"}
  /\ asked \in AnyProgram /\ cutShort \in BOOLEAN
  /\ unannounced \in BOOLEAN /\ misled \in BOOLEAN
  /\ events \in Seq(Event)

LEMMA TypeInit == Init => TypeOK
<1> SUFFICES ASSUME Init PROVE TypeOK
  OBVIOUS
<1>1. file \in Seq(Tags) /\ tagNo \in 1..(Len(file) + 1)
  <2>1. PICK len \in 0..MaxTags : file \in [1..len -> Tags]
    BY DEF Init, ConfigInit, Files
  <2>2. file \in Seq(Tags) /\ Len(file) = len
    BY <2>1, MaxTagsAssumption
  <2> QED
    BY <2>2 DEF Init, ConfigInit
<1>2. ConfigTypeOK
  BY <1>1, ValuesAssumption DEF Init, ConfigInit, ConfigTypeOK
<1>3. /\ cmd = "idle" /\ TPName = None /\ waitFor = {} /\ handler = "poll"
      /\ ev = NoEvent /\ robot = "free" /\ heard = "nothing" /\ events = <<>>
      /\ program \in AnyProgram /\ pending = None /\ currProgram = None
      /\ hostView = "unknown" /\ asked = None
  BY DEF Init
<1>4. /\ recipeParse = FALSE /\ recipeParseResult = TRUE /\ disableRobot = FALSE
      /\ running = FALSE /\ paused = FALSE
      /\ cutShort = FALSE /\ unannounced = FALSE /\ misled = FALSE
  BY DEF Init
<1>5. SessionTypeOK
  <2>1. events \in Seq(Event)
    BY <1>3
  <2> QED
    BY <1>3, <1>4, <2>1 DEF SessionTypeOK, AnyProgram
<1> QED
  BY <1>2, <1>5 DEF TypeOK, SessionTypeOK

LEMMA ConfigTypeStep == ConfigTypeOK /\ ConfigNext => ConfigTypeOK'
<1> SUFFICES ASSUME ConfigTypeOK, ConfigNext PROVE ConfigTypeOK'
  OBVIOUS
<1> USE DEF ConfigTypeOK
<1>1. CASE ReadChoice
  <2>1. /\ file[tagNo] \in Tags /\ IsChoice(file[tagNo])
        /\ tagNo' \in 1..(Len(file) + 1)
    BY <1>1 DEF ReadChoice, Reading
  <2>2. file[tagNo].name \in SiteNames
    BY <2>1 DEF Tags, Choice, Site, IsChoice
  <2> QED
    BY <1>1, <2>1, <2>2 DEF ReadChoice
<1>2. CASE ReadSite
  <2>1. /\ file[tagNo] \in Tags /\ IsSite(file[tagNo])
        /\ tagNo' \in 1..(Len(file) + 1)
    BY <1>2 DEF ReadSite, Reading
  <2>2. file[tagNo].params \in SiteParams
    BY <2>1 DEF Tags, Choice, Site, IsSite
  <2>3. Overridden(file[tagNo].params) \in [Keys -> Values]
    BY <2>2, SiteParamsAssumption DEF Overridden
  <2> QED
    BY <1>2, <2>1, <2>3 DEF ReadSite
<1>3. CASE CheckProgLocation
  BY <1>3 DEF CheckProgLocation
<1> QED
  BY <1>1, <1>2, <1>3 DEF ConfigNext

(* Who moves: the configuration stands still once the session runs. *)
LEMMA Movers ==
  ASSUME [Next]_vars
  PROVE  \/ ReadConfiguration
         \/ UNCHANGED vars
         \/ CmdRecipeDecodeAvailable \/ CmdRecipeDecode \/ CmdParse \/ CmdCall
         \/ StateRespond \/ HandleLoaded \/ HandleLoadFailure \/ HandleUnloaded
         \/ HandlePaused \/ BlockRobot \/ HandleResumed \/ ProgramRunDone
         \/ TesterAnswers \/ (\E p \in Programs : OperatorLoad(p)) \/ OperatorUnload
         \/ PauseOrResume \/ TestStarts \/ TestEnds \/ TesterRestarts
  BY DEF Next, CmdStep, StateStep, Environment, Exited

LEMMA ConfigReadOnce ==
  ASSUME [Next]_vars
  PROVE  ConfigNext \/ UNCHANGED configVars
  BY Movers DEF ReadConfiguration, vars, CmdRecipeDecodeAvailable, CmdRecipeDecode,
     CmdParse, CmdCall, StateRespond, Handles, HandleLoaded, HandleLoadFailure,
     HandleUnloaded, HandlePaused, BlockRobot, HandleResumed, ProgramRunDone,
     TesterAnswers, TesterUnloads, TesterLoads, TesterFails, TesterAborts, Answers,
     OperatorLoad, OperatorUnload, PauseOrResume, TestStarts, TestEnds,
     TesterRestarts, Serving

LEMMA CmdTypeStep ==
  ASSUME SessionTypeOK,
         CmdRecipeDecodeAvailable \/ CmdRecipeDecode \/ CmdParse \/ CmdCall
  PROVE  SessionTypeOK'
<1> USE DEF SessionTypeOK, AnyProgram, Calls
<1>1. CASE CmdRecipeDecodeAvailable
  <2>1. TPName' \in AnyProgram /\ recipeParse' \in BOOLEAN /\ recipeParseResult' \in BOOLEAN
    BY <1>1 DEF CmdRecipeDecodeAvailable, ResetRecipeVars
  <2>2. UNCHANGED <<cmd, waitFor, handler, ev, robotVars, testerVars, hostVars, events>>
    BY <1>1 DEF CmdRecipeDecodeAvailable
  <2> QED
    BY <2>1, <2>2
<1>2. CASE CmdRecipeDecode
  <2>1. TPName' \in AnyProgram /\ recipeParse' \in BOOLEAN /\ recipeParseResult' \in BOOLEAN
    BY <1>2 DEF CmdRecipeDecode, ResetRecipeVars
  <2>2. cmd' = "parse"
    BY <1>2 DEF CmdRecipeDecode
  <2>3. UNCHANGED <<waitFor, handler, ev, robotVars, testerVars, hostVars, events>>
    BY <1>2 DEF CmdRecipeDecode
  <2> QED
    BY <2>1, <2>2, <2>3
<1>3. CASE CmdParse
  <2>1. TPName' \in AnyProgram
    BY <1>3 DEF CmdParse
  <2>2. recipeParse' \in BOOLEAN
    BY <1>3 DEF CmdParse
  <2>3. cmd' \in {"idle", "load", "unload"}
    BY <1>3 DEF CmdParse
  <2>4. UNCHANGED <<recipeParseResult, waitFor, handler, ev, robotVars, testerVars,
                    hostVars, events>>
    BY <1>3 DEF CmdParse
  <2> QED
    BY <2>1, <2>2, <2>3, <2>4
<1>4. CASE CmdCall
  BY <1>4 DEF CmdCall, Waiting, WaitStates
<1> QED
  BY <1>1, <1>2, <1>3, <1>4

LEMMA StateTypeStep ==
  ASSUME SessionTypeOK,
         \/ StateRespond \/ HandleLoaded \/ HandleLoadFailure \/ HandleUnloaded
         \/ HandlePaused \/ BlockRobot \/ HandleResumed \/ ProgramRunDone
  PROVE  SessionTypeOK'
<1> USE DEF SessionTypeOK, Done, WaitStates
<1>0. AnyProgram \subseteq AnyProgram \union {"unknown"} /\ None \in AnyProgram
  BY DEF AnyProgram
<1>a. \A ok \in BOOLEAN : Complete(ok) =>
        /\ waitFor' \subseteq WaitStates("load")
        /\ cmd' \in {"idle", "parse", "unload", "load", "unloading", "loading"}
  BY DEF Complete, AfterWait
<1>b. NoteCut => cutShort' \in BOOLEAN
  BY DEF NoteCut
<1>c. UNCHANGED hostVars => /\ currProgram' \in AnyProgram
                            /\ hostView' \in AnyProgram \union {"unknown"}
                            /\ cutShort' \in BOOLEAN /\ unannounced' \in BOOLEAN
                            /\ misled' \in BOOLEAN
  OBVIOUS
<1>1. CASE StateRespond
  BY <1>1, QueueTail DEF StateRespond
<1>2. CASE HandleLoaded
  <2>1. misled' \in BOOLEAN /\ unannounced' \in BOOLEAN /\ cutShort' \in BOOLEAN
    BY <1>b, <1>2 DEF HandleLoaded
  <2> QED
    BY <1>0, <1>a, <1>2, <2>1 DEF HandleLoaded
<1>3. CASE HandleLoadFailure
  <2>1. cutShort' \in BOOLEAN
    BY <1>b, <1>3 DEF HandleLoadFailure
  <2> QED
    BY <1>a, <1>3, <2>1 DEF HandleLoadFailure
<1>4. CASE HandleUnloaded
  <2>1. robot' \in {"free", "blocked"}
    BY <1>4 DEF HandleUnloaded
  <2>2. misled' \in BOOLEAN /\ unannounced' \in BOOLEAN /\ cutShort' \in BOOLEAN
    BY <1>b, <1>4 DEF HandleUnloaded
  <2> QED
    BY <1>0, <1>a, <1>4, <2>1, <2>2 DEF HandleUnloaded
<1>5. CASE HandlePaused
  BY <1>5 DEF HandlePaused
<1>6. CASE BlockRobot
  BY <1>c, <1>6 DEF BlockRobot
<1>7. CASE HandleResumed
  BY <1>c, <1>7 DEF HandleResumed
<1>8. CASE ProgramRunDone
  <2>1. robot' \in {"free", "blocked"} /\ disableRobot' = FALSE
    BY <1>8 DEF ProgramRunDone
  <2>2. handler' = "poll" /\ ev' = NoEvent
    BY <1>8 DEF ProgramRunDone
  <2>3. UNCHANGED <<cmdVars, waitFor, heard, testerVars, hostVars, events>>
    BY <1>8 DEF ProgramRunDone
  <2> QED
    BY <1>c, <2>1, <2>2, <2>3
<1> QED
  BY <1>1, <1>2, <1>3, <1>4, <1>5, <1>6, <1>7, <1>8

LEMMA AnswerTypeStep ==
  ASSUME SessionTypeOK, TesterAnswers
  PROVE  SessionTypeOK'
<1>1. ASSUME NEW o \in Calls, NEW loaded \in AnyProgram, NEW n \in Seq(Event),
             Answers(o, loaded, n)
      PROVE  SessionTypeOK'
  <2>1. /\ pending' = None /\ program' = loaded /\ events' \in Seq(Event)
        /\ asked' \in AnyProgram
    BY <1>1, QueueConcat DEF Answers, SessionTypeOK, AnyProgram
  <2>2. unannounced' \in BOOLEAN
    BY <1>1 DEF Answers
  <2>3. UNCHANGED <<cmdVars, waitFor, handler, ev, robotVars, currProgram, hostView,
                    running, paused, cutShort, misled>>
    BY <1>1 DEF Answers, Quiet
  <2> QED
    BY <1>1, <2>1, <2>2, <2>3 DEF SessionTypeOK
<1>2. asked \in AnyProgram /\ program \in AnyProgram /\ None \in AnyProgram
  BY DEF SessionTypeOK, AnyProgram
<1>a. \A k \in ProgramKinds, p \in AnyProgram : <<Notice(k, p, FALSE)>> \in Seq(Event)
  <2> TAKE k \in ProgramKinds, p \in AnyProgram
  <2>1. Notice(k, p, FALSE) \in Event
    BY Notices
  <2> QED
    BY <2>1, ShortQueues
<1>b. \A k, l \in ProgramKinds, p, q \in AnyProgram :
        <<Notice(k, p, FALSE), Notice(l, q, FALSE)>> \in Seq(Event)
  <2> TAKE k, l \in ProgramKinds, p, q \in AnyProgram
  <2>1. Notice(k, p, FALSE) \in Event /\ Notice(l, q, FALSE) \in Event
    BY Notices
  <2> QED
    BY <2>1, ShortQueues
<1>c. {"LOADED", "LOAD_FAILED", "UNLOADED", "ABORT_LOAD"} \subseteq ProgramKinds
        /\ {"unload", "load"} \subseteq Calls
  BY DEF ProgramKinds, Calls
<1>3. CASE TesterUnloads
  <2>1. <<Notice("UNLOADED", program, FALSE)>> \in Seq(Event)
    BY <1>2, <1>a, <1>c
  <2> QED
    BY <1>1, <1>2, <1>3, <1>c, <2>1 DEF TesterUnloads
<1>4. CASE TesterLoads
  <2>1. <<Notice("LOADED", asked, FALSE)>> \in Seq(Event)
    BY <1>2, <1>a, <1>c
  <2> QED
    BY <1>1, <1>2, <1>4, <1>c, <2>1 DEF TesterLoads
<1>5. CASE TesterFails
  <2>1. <<Notice("LOAD_FAILED", asked, FALSE)>> \in Seq(Event)
    BY <1>2, <1>a, <1>c
  <2> QED
    BY <1>1, <1>2, <1>5, <1>c, <2>1 DEF TesterFails
<1>6. CASE TesterAborts
  <2>1. <<Notice("ABORT_LOAD", asked, FALSE), Notice("UNLOADED", asked, FALSE)>>
          \in Seq(Event)
    BY <1>2, <1>b, <1>c
  <2> QED
    BY <1>1, <1>2, <1>6, <1>c, <2>1 DEF TesterAborts
<1> QED
  BY <1>3, <1>4, <1>5, <1>6 DEF TesterAnswers

LEMMA HandTypeStep ==
  ASSUME SessionTypeOK,
         (\E p \in Programs : OperatorLoad(p)) \/ OperatorUnload
  PROVE  SessionTypeOK'
<1>1. /\ program' \in AnyProgram
      /\ \E e \in Event : events' = Append(events, e)
  BY Notices DEF OperatorLoad, OperatorUnload, SessionTypeOK, AnyProgram, ProgramKinds
<1>2. events' \in Seq(Event)
  BY <1>1, QueueAppend DEF SessionTypeOK
<1>3. UNCHANGED <<cmdVars, waitFor, handler, ev, robotVars, currProgram, hostView,
                  pending, asked, running, paused, cutShort, unannounced, misled>>
  BY DEF OperatorLoad, OperatorUnload, Quiet
<1> QED
  BY <1>1, <1>2, <1>3 DEF SessionTypeOK

LEMMA RobotTypeStep ==
  ASSUME SessionTypeOK, PauseOrResume \/ TestStarts \/ TestEnds
  PROVE  SessionTypeOK'
<1>1. events' = events \/ \E e \in Event : events' = Append(events, e)
  BY Notices DEF PauseOrResume, TestStarts, TestEnds, RobotKinds
<1>2. events' \in Seq(Event)
  BY <1>1, QueueAppend DEF SessionTypeOK
<1>3. running' \in BOOLEAN
  BY DEF PauseOrResume, TestStarts, TestEnds, SessionTypeOK
<1>4. paused' \in BOOLEAN
  BY DEF PauseOrResume, TestStarts, TestEnds, SessionTypeOK
<1>5. UNCHANGED <<cmdVars, waitFor, handler, ev, robotVars, currProgram, hostView,
                  program, pending, asked, cutShort, unannounced, misled>>
  BY DEF PauseOrResume, TestStarts, TestEnds, Quiet
<1> QED
  BY <1>2, <1>3, <1>4, <1>5 DEF SessionTypeOK

LEMMA RestartTypeStep ==
  ASSUME SessionTypeOK, TesterRestarts
  PROVE  SessionTypeOK'
<1>1. heard' \in {"nothing", "paused", "pausedBefore"}
  BY DEF TesterRestarts, SessionTypeOK
<1>2. /\ program' = None /\ pending' = None /\ robot' = "free" /\ events' = <<>>
      /\ cmd' = "idle"
  BY DEF TesterRestarts
<1>3. /\ running' = FALSE /\ paused' = FALSE /\ asked' = None
      /\ cutShort' = FALSE /\ unannounced' = TRUE
  BY DEF TesterRestarts
<1>4. UNCHANGED <<TPName, recipeParse, recipeParseResult, waitFor, handler, ev,
                  disableRobot, currProgram, hostView, misled>>
  BY DEF TesterRestarts
<1>5. /\ program' \in AnyProgram /\ asked' \in AnyProgram
      /\ pending' \in Calls \union {None} /\ events' \in Seq(Event)
  BY <1>2, <1>3 DEF AnyProgram
<1> QED
  BY <1>1, <1>2, <1>3, <1>4, <1>5 DEF SessionTypeOK

LEMMA TypeStep == TypeOK /\ [Next]_vars => TypeOK'
<1> SUFFICES ASSUME TypeOK, [Next]_vars PROVE TypeOK'
  OBVIOUS
<1>0. ConfigTypeOK /\ SessionTypeOK
  BY DEF TypeOK, SessionTypeOK
<1>1. ConfigTypeOK'
  <2>1. CASE ConfigNext
    BY <1>0, <2>1, ConfigTypeStep
  <2>2. CASE UNCHANGED configVars
    BY <1>0, <2>2 DEF ConfigTypeOK
  <2> QED
    BY <2>1, <2>2, ConfigReadOnce
<1>2. SessionTypeOK'
  <2>1. CASE ReadConfiguration \/ UNCHANGED vars
    BY <1>0, <2>1 DEF ReadConfiguration, vars, SessionTypeOK
  <2> QED
    BY <1>0, <2>1, Movers, CmdTypeStep, StateTypeStep, AnswerTypeStep, HandTypeStep,
       RobotTypeStep, RestartTypeStep
<1> QED
  BY <1>1, <1>2 DEF TypeOK, SessionTypeOK

(* Every variable stays in its type, whatever the files, the operator and the *)
(* tester do.                                                                 *)
THEOREM TypeCorrect == Spec => []TypeOK
  BY TypeInit, TypeStep, PTL DEF Spec

--------------------------------------------------------------------------------
(* The configuration file.                                                   *)

LEMMA PrefixInit == Init => PrefixRules
  BY DEF Init, ConfigInit, PrefixRules, LastWord

(* One more tag that says nothing about k changes nothing for it. *)
LEMMA SilentTag ==
  ASSUME NEW k, TypeOK, LastWord(tagNo, k), ~Sets(tagNo, k),
         file' = file, configName' = configName, config'[k] = config[k],
         tagNo' = tagNo + 1
  PROVE  LastWord(tagNo, k)'
<1>0. tagNo \in Nat
  BY DEF TypeOK, ConfigTypeOK
<1>1. \A i : Sets(i, k)' <=> Sets(i, k)
  BY DEF Sets
<1>2. CASE config[k] = Blank /\ \A i \in 1..(tagNo - 1) : ~Sets(i, k)
  BY <1>0, <1>1, <1>2 DEF LastWord
<1>3. CASE \E i \in 1..(tagNo - 1) : /\ Sets(i, k) /\ config[k] = file[i].params[k]
                                     /\ \A j \in (i + 1)..(tagNo - 1) : ~Sets(j, k)
  <2>1. PICK i \in 1..(tagNo - 1) : /\ Sets(i, k) /\ config[k] = file[i].params[k]
                                     /\ \A j \in (i + 1)..(tagNo - 1) : ~Sets(j, k)
    BY <1>3
  <2>2. /\ i \in 1..(tagNo' - 1) /\ Sets(i, k)' /\ config'[k] = file'[i].params[k]
        /\ \A j \in (i + 1)..(tagNo' - 1) : ~Sets(j, k)'
    BY <1>0, <1>1, <2>1
  <2> QED
    BY <2>2 DEF LastWord
<1> QED
  BY <1>2, <1>3 DEF LastWord

LEMMA ReadChoicePrefix ==
  ASSUME TypeOK, PrefixRules, ReadChoice
  PROVE  PrefixRules'
<1> SUFFICES ASSUME ChoiceFirst PROVE PrefixRules'
  BY DEF PrefixRules, ChoiceFirst, ReadChoice
<1>1. tagNo = 1 /\ IsChoice(file[1])
  BY DEF ChoiceFirst, ReadChoice, Reading, IsChoice, IsSite, TypeOK, ConfigTypeOK
<1>2. /\ tagNo' = 2 /\ config' = [k \in Keys |-> Blank] /\ file' = file
      /\ configName' = file[1].name
  BY <1>1 DEF ReadChoice, Reading, PrefixRules
<1>3. \A k \in Keys : LastWord(tagNo, k)'
  BY <1>1, <1>2 DEF LastWord, Sets, IsSite, IsChoice
<1> QED
  BY <1>2, <1>3 DEF PrefixRules

LEMMA ReadSitePrefix ==
  ASSUME TypeOK, PrefixRules, ReadSite
  PROVE  PrefixRules'
<1> SUFFICES ASSUME ChoiceFirst PROVE PrefixRules'
  BY DEF PrefixRules, ChoiceFirst, ReadSite
<1>0. tagNo \in Nat /\ config \in [Keys -> Values]
  BY DEF TypeOK, ConfigTypeOK
<1>1. tagNo > 1 /\ tagNo <= Len(file) /\ IsSite(file[tagNo])
  BY <1>0 DEF ChoiceFirst, ReadSite, Reading, IsChoice, IsSite, TypeOK, ConfigTypeOK
<1>2. /\ tagNo' = tagNo + 1 /\ file' = file /\ configName' = configName
      /\ configName = file[1].name
  BY <1>1 DEF ReadSite, Reading, PrefixRules
<1>3. ASSUME NEW k \in Keys PROVE LastWord(tagNo, k)'
  <2>1. LastWord(tagNo, k)
    BY DEF PrefixRules, ReadSite, Reading
  <2>2. CASE Sets(tagNo, k)
    <3>1. config'[k] = file[tagNo].params[k]
      BY <2>2 DEF ReadSite, Sets, Overridden
    <3>2. \E i \in 1..(tagNo' - 1) :
             /\ IsSite(file'[i]) /\ file'[i].name = configName'
             /\ k \in DOMAIN file'[i].params
             /\ config'[k] = file'[i].params[k]
             /\ (i + 1)..(tagNo' - 1) = {}
      BY <1>0, <1>1, <1>2, <2>2, <3>1 DEF Sets
    <3> QED
      BY <3>2 DEF LastWord, Sets
  <2>3. CASE ~Sets(tagNo, k)
    <3>1. config'[k] = config[k]
      BY <1>0, <1>1, <2>3 DEF ReadSite, Sets, Overridden
    <3> QED
      BY <1>2, <2>1, <2>3, <3>1, SilentTag
  <2> QED
    BY <2>2, <2>3
<1> QED
  BY <1>0, <1>1, <1>2, <1>3 DEF PrefixRules

LEMMA PrefixStep == TypeOK /\ PrefixRules /\ [Next]_vars => PrefixRules'
<1> SUFFICES ASSUME TypeOK, PrefixRules, [Next]_vars PROVE PrefixRules'
  OBVIOUS
<1>1. CASE CheckProgLocation
  BY <1>1 DEF CheckProgLocation, PrefixRules
<1>2. CASE UNCHANGED configVars
  BY <1>2 DEF PrefixRules, ChoiceFirst, LastWord, Sets
<1> QED
  BY <1>1, <1>2, ReadChoicePrefix, ReadSitePrefix, ConfigReadOnce DEF ConfigNext

(* Whatever the file, a configuration read from one whose choice comes first  *)
(* is the chosen site's (userInterface.cpp:2536-2590).                        *)
THEOREM ConfigAsChosen == Spec => []ChosenSiteRules
<1>1. PrefixRules => ChosenSiteRules
  BY DEF PrefixRules, ChosenSiteRules
<1> QED
  BY <1>1, TypeInit, TypeStep, PrefixInit, PrefixStep, PTL DEF Spec

--------------------------------------------------------------------------------
(* The robot.                                                                *)

RobotInv == HandlerInv /\ StopNeedsPause

LEMMA KindsApart ==
  /\ NoEvent \notin Event
  /\ \A e \in Event : e.kind # "none"
  /\ NoEvent.kind = "none"
  BY DEF Event, NoEvent, Notice, ProgramKinds, RobotKinds

LEMMA RobotInit == Init => RobotInv
  BY DEF Init, RobotInv, HandlerInv, StopNeedsPause

LEMMA CompleteRobot ==
  ASSUME NEW ok, Complete(ok), HandlerInv, recipeParse' = recipeParse
  PROVE  /\ cmd' \notin {"idle", "parse"} => recipeParse'
         /\ cmd' = "loading" => waitFor' = WaitStates("load")
         /\ cmd' = "unloading" => waitFor' = WaitStates("unload")
  BY DEF Complete, AfterWait, HandlerInv

LEMMA RobotStep == TypeOK /\ RobotInv /\ [Next]_vars => RobotInv'
<1> SUFFICES ASSUME TypeOK, RobotInv, [Next]_vars PROVE RobotInv'
  OBVIOUS
<1> USE DEF RobotInv, HandlerInv, StopNeedsPause
<1>0. CASE ReadConfiguration \/ UNCHANGED vars
  BY <1>0 DEF ReadConfiguration, vars
<1>1. CASE CmdRecipeDecodeAvailable
  BY <1>1 DEF CmdRecipeDecodeAvailable
<1>2. CASE CmdRecipeDecode
  BY <1>2 DEF CmdRecipeDecode
<1>3. CASE CmdParse
  BY <1>3 DEF CmdParse
<1>4. CASE CmdCall
  BY <1>4 DEF CmdCall, Calls, Waiting, WaitStates
<1>5. CASE StateRespond
  <2>1. Head(events) \in Event
    BY <1>5, QueueTail DEF StateRespond, TypeOK
  <2> QED
    BY <1>5, <2>1, KindsApart DEF StateRespond
<1>6. CASE HandleLoaded
  BY <1>6, CompleteRobot DEF HandleLoaded, Done
<1>7. CASE HandleLoadFailure
  BY <1>7, CompleteRobot DEF HandleLoadFailure, Done
<1>8. CASE HandleUnloaded
  BY <1>8, CompleteRobot DEF HandleUnloaded, Done
<1>9. CASE HandlePaused
  BY <1>9 DEF HandlePaused, Handles, Done
<1>10. CASE BlockRobot
  BY <1>10 DEF BlockRobot, Done
<1>11. CASE HandleResumed
  BY <1>11 DEF HandleResumed, Done
<1>12. CASE ProgramRunDone
  BY <1>12 DEF ProgramRunDone, Done
<1>13. CASE TesterAnswers
  BY <1>13 DEF TesterAnswers, TesterUnloads, TesterLoads, TesterFails, TesterAborts,
     Answers, Quiet
<1>14. CASE (\E p \in Programs : OperatorLoad(p)) \/ OperatorUnload
  <2>1. UNCHANGED <<cmdVars, waitFor, handler, ev, robotVars>>
    BY <1>14 DEF OperatorLoad, OperatorUnload, Quiet
  <2> QED
    BY <2>1
<1>15. CASE PauseOrResume \/ TestStarts \/ TestEnds
  BY <1>15 DEF PauseOrResume, TestStarts, TestEnds, Quiet
<1>16. CASE TesterRestarts
  BY <1>16 DEF TesterRestarts
<1> QED
  BY Movers, <1>0, <1>1, <1>2, <1>3, <1>4, <1>5, <1>6, <1>7, <1>8, <1>9, <1>10, <1>11,
     <1>12, <1>13, <1>14, <1>15, <1>16

LEMMA RobotCorrect == Spec => []RobotInv
  BY TypeInit, TypeStep, RobotInit, RobotStep, PTL DEF Spec

(* The robot is never stopped, or due to be, without a pause it was told of   *)
(* and not called off since; a restart of the tester included.                *)
THEOREM StopsOnlyForPause == Spec => []StopNeedsPause
  BY RobotCorrect, PTL DEF RobotInv

--------------------------------------------------------------------------------
(* What the host is told.                                                    *)

LEMMA SilentInit == Init => SilentBefore
  BY DEF Init, SilentBefore

LEMMA SilentStep == SilentBefore /\ [Next]_vars => SilentBefore'
<1> SUFFICES ASSUME SilentBefore, [Next]_vars PROVE SilentBefore'
  OBVIOUS
<1>1. hostView' = hostView \/ stage' = "serving"
  BY Movers DEF ReadConfiguration, vars, CmdRecipeDecodeAvailable, CmdRecipeDecode,
     CmdParse, CmdCall, StateRespond, Handles, HandleLoaded, HandleLoadFailure,
     HandleUnloaded, HandlePaused, BlockRobot, HandleResumed, ProgramRunDone, Quiet,
     TesterAnswers, TesterUnloads, TesterLoads, TesterFails, TesterAborts, Answers,
     OperatorLoad, OperatorUnload, PauseOrResume, TestStarts, TestEnds,
     TesterRestarts, Serving
<1>2. stage = "serving" => stage' = "serving"
  BY ConfigReadOnce DEF ConfigNext, ReadChoice, ReadSite, CheckProgLocation, Reading
<1> QED
  BY <1>1, <1>2 DEF SilentBefore

HostInv == CallInv /\ NewsInv /\ NameInv /\ ViewInv

(* How a step changes the events nobody has handled: the news that lies behind *)
(* the first d stays, and there is no other.                                  *)
KeepsNews(d) ==
  /\ \A i \in Here : News(i) => i - d \in Here' /\ Unhandled'[i - d] = Unhandled[i]
  /\ \A i \in Here' : News(i)' => i + d \in Here /\ Unhandled'[i] = Unhandled[i + d]

Stays == Unhandled' = Unhandled
Grows(n) == /\ Len(Unhandled') = Len(Unhandled) + Len(n)
            /\ \A i \in Here : Unhandled'[i] = Unhandled[i]
            /\ \A i \in 1..Len(n) : Unhandled'[Len(Unhandled) + i] = n[i]
Shrinks == /\ Len(Unhandled) > 0 /\ Unhandled[1] = ev
           /\ Len(Unhandled') = Len(Unhandled) - 1
           /\ \A i \in Here' : Unhandled'[i] = Unhandled[i + 1]

LEMMA UnhandledType ==
  ASSUME TypeOK
  PROVE  Unhandled \in Seq(Event) /\ Len(Unhandled) \in Nat
<1>1. CASE ev = NoEvent
  BY <1>1 DEF TypeOK, Unhandled
<1>2. CASE ev # NoEvent
  <2>1. ev \in Event /\ events \in Seq(Event)
    BY <1>2 DEF TypeOK
  <2>2. <<ev>> \o events \in Seq(Event)
    BY <2>1
  <2> QED
    BY <1>2, <2>2 DEF Unhandled
<1> QED
  BY <1>1, <1>2

(* With an event in hand, the others follow it. *)
LEMMA UnhandledInHand ==
  ASSUME TypeOK, ev # NoEvent
  PROVE  /\ Len(Unhandled) = Len(events) + 1 /\ Len(events) \in Nat
         /\ Unhandled[1] = ev
         /\ \A i \in 1..Len(events) : Unhandled[i + 1] = events[i]
<1>1. ev \in Event /\ events \in Seq(Event)
  BY DEF TypeOK
<1>2. Unhandled = <<ev>> \o events
  BY DEF Unhandled
<1> QED
  BY <1>1, <1>2, QueueFirst

(* The next event is taken in hand; nothing is handled by that. *)
LEMMA RespondStays ==
  ASSUME TypeOK, TypeOK', HandlerInv, StateRespond
  PROVE  Stays
<1>1. /\ events # <<>> /\ ev' = Head(events) /\ events' = Tail(events)
      /\ ev = NoEvent
  BY DEF StateRespond, HandlerInv
<1>2. ev' \in Event /\ events' \in Seq(Event)
  BY <1>1, QueueTail DEF TypeOK
<1>3. Unhandled' = <<ev'>> \o events'
  BY <1>2, KindsApart DEF Unhandled
<1>4. events = <<Head(events)>> \o Tail(events)
  BY <1>1 DEF TypeOK
<1> QED
  BY <1>1, <1>3, <1>4 DEF Stays, Unhandled

LEMMA HandleShrinks ==
  ASSUME TypeOK, ev # NoEvent, ev' = NoEvent, events' = events
  PROVE  Shrinks
<1>1. Unhandled' = events
  BY DEF Unhandled
<1> QED
  BY <1>1, UnhandledInHand DEF Shrinks, Here

LEMMA SendGrows ==
  ASSUME TypeOK, ev' = ev, NEW n \in Seq(Event), events' = events \o n
  PROVE  Grows(n)
<1>1. events \in Seq(Event) /\ Len(events) \in Nat /\ Len(n) \in Nat
  BY DEF TypeOK
<1>2. /\ Len(events') = Len(events) + Len(n)
      /\ \A i \in 1..Len(events) : events'[i] = events[i]
      /\ \A i \in 1..Len(n) : events'[Len(events) + i] = n[i]
  <2>1. \A i \in 1..Len(n) : /\ Len(events) + i \in (Len(events) + 1)..(Len(events) + Len(n))
                             /\ (Len(events) + i) - Len(events) = i
    BY <1>1
  <2> QED
    BY <1>1, <2>1, QueueConcat
<1>3. CASE ev = NoEvent
  BY <1>2, <1>3 DEF Grows, Here, Unhandled
<1>4. CASE ev # NoEvent
  <2>1. /\ Len(Unhandled) = Len(events) + 1 /\ Unhandled[1] = ev
        /\ \A i \in 1..Len(events) : Unhandled[i + 1] = events[i]
    BY <1>4, UnhandledInHand
  <2>2. Unhandled' = <<ev>> \o events' /\ events' \in Seq(Event) /\ ev \in Event
    BY <1>1, <1>4, QueueConcat DEF Unhandled, TypeOK
  <2>4. /\ Len(Unhandled') = Len(events') + 1 /\ Unhandled'[1] = ev
        /\ \A i \in 1..Len(events') : Unhandled'[i + 1] = events'[i]
    BY <2>2, QueueFirst
  <2>5. \A i \in Here : Unhandled'[i] = Unhandled[i]
    <3> SUFFICES ASSUME NEW i \in Here, i # 1 PROVE Unhandled'[i] = Unhandled[i]
      BY <2>1, <2>4
    <3>1. i - 1 \in 1..Len(events) /\ i - 1 \in 1..Len(events') /\ (i - 1) + 1 = i
      BY <1>1, <1>2, <2>1 DEF Here
    <3> QED
      BY <1>2, <2>1, <2>4, <3>1
  <2>6. \A i \in 1..Len(n) : Unhandled'[Len(Unhandled) + i] = n[i]
    <3> TAKE i \in 1..Len(n)
    <3>1. /\ Len(events) + i \in 1..Len(events')
          /\ (Len(events) + i) + 1 = Len(Unhandled) + i
      BY <1>1, <1>2, <2>1
    <3> QED
      BY <1>2, <2>4, <3>1
  <2>7. Len(Unhandled') = Len(Unhandled) + Len(n)
    BY <1>1, <1>2, <2>1, <2>4
  <2> QED
    BY <2>5, <2>6, <2>7 DEF Grows
<1> QED
  BY <1>3, <1>4

LEMMA AppendGrows ==
  ASSUME TypeOK, ev' = ev, NEW e \in Event, events' = Append(events, e)
  PROVE  Grows(<<e>>)
<1>1. Append(events, e) = events \o <<e>> /\ <<e>> \in Seq(Event)
  BY DEF TypeOK
<1> QED
  BY <1>1, SendGrows

(* A step that neither brings nor uses news keeps what is known of the tester. *)
LEMMA NewsKept ==
  ASSUME NEW d \in Nat, KeepsNews(d), TypeOK, TypeOK',
         UNCHANGED <<program, unannounced, currProgram>>
  PROVE  /\ NoNews' <=> NoNews
         /\ NewsInv => NewsInv'
         /\ NameInv => NameInv'
<1>0. Here \subseteq Nat /\ Here' \subseteq Nat
  BY DEF Here
<1>a. ASSUME NEW i \in Here, News(i) PROVE i - d \in Here' /\ News(i - d)'
  BY <1>a DEF KeepsNews, News
<1>b. ASSUME NEW i \in Here', News(i)' PROVE i + d \in Here /\ News(i + d)
  BY <1>b DEF KeepsNews, News
<1>1. NoNews' <=> NoNews
  BY <1>a, <1>b DEF NoNews
<1>2. ASSUME NEW i \in Here, News(i)
      PROVE  /\ i - d \in Here' /\ Unhandled'[i - d] = Unhandled[i] /\ News(i - d)'
             /\ Last(i) => Last(i - d)'
             /\ First(i) => First(i - d)'
  <2>1. /\ i - d \in Here' /\ Unhandled'[i - d] = Unhandled[i] /\ News(i - d)'
    BY <1>2 DEF KeepsNews, News
  <2>2. ASSUME NEW j \in Here', News(j)'
        PROVE  j + d \in Here /\ News(j + d)
    BY <2>2 DEF KeepsNews, News
  <2>3. Last(i) => Last(i - d)'
    <3> SUFFICES ASSUME Last(i), NEW j \in Here', News(j)' PROVE j <= i - d
      BY <2>1 DEF Last
    <3>1. j + d <= i
      BY <2>2 DEF Last
    <3> QED
      BY <1>0, <3>1
  <2>4. First(i) => First(i - d)'
    <3> SUFFICES ASSUME First(i), NEW j \in Here', News(j)' PROVE i - d <= j
      BY <2>1 DEF First
    <3>1. i <= j + d
      BY <2>2 DEF First
    <3> QED
      BY <1>0, <3>1
  <2> QED
    BY <2>1, <2>3, <2>4
<1>3. NewsInv => NewsInv'
  <2> SUFFICES ASSUME NewsInv, program' # None, ~NoNews'
               PROVE  \E i \in Here' : Last(i)' /\ Load(i, program)'
    BY DEF NewsInv
  <2>1. PICK i \in Here : Last(i) /\ Load(i, program)
    BY <1>1 DEF NewsInv
  <2>2. News(i)
    BY <2>1 DEF Last
  <2>3. i - d \in Here' /\ Unhandled'[i - d] = Unhandled[i] /\ Last(i - d)'
    BY <1>2, <2>1, <2>2
  <2>4. Load(i - d, program)'
    BY <2>1, <2>3 DEF Load
  <2> QED
    BY <2>3, <2>4
<1>4. NameInv => NameInv'
  <2>1. CASE unannounced \/ currProgram = None \/ (NoNews /\ currProgram = program)
    BY <1>1, <2>1 DEF NameInv
  <2>2. CASE \E i \in Here : Load(i, currProgram)
    <3>1. PICK i \in Here : Load(i, currProgram)
      BY <2>2
    <3>2. i - d \in Here' /\ Unhandled'[i - d] = Unhandled[i]
      BY <1>2, <3>1 DEF Load, News
    <3> QED
      BY <3>1, <3>2 DEF NameInv, Load
  <2>3. CASE \E i \in Here : /\ First(i) /\ Unhandled[i].kind = "UNLOADED"
                             /\ Unhandled[i].program = currProgram
    <3>1. PICK i \in Here : /\ First(i) /\ Unhandled[i].kind = "UNLOADED"
                            /\ Unhandled[i].program = currProgram
      BY <2>3
    <3>2. News(i)
      BY <3>1 DEF News
    <3>3. i - d \in Here' /\ Unhandled'[i - d] = Unhandled[i] /\ First(i - d)'
      BY <1>2, <3>1, <3>2
    <3> QED
      BY <3>1, <3>3 DEF NameInv
  <2> QED
    BY <2>1, <2>2, <2>3 DEF NameInv
<1> QED
  BY <1>1, <1>3, <1>4

(* What lies behind the first d stays in its order, and nothing is added to it. *)
Follows(d) ==
  /\ \A i \in Here : News(i) /\ i > d => i - d \in Here' /\ Unhandled'[i - d] = Unhandled[i]
  /\ \A i \in Here' : Own(i)' => i + d \in Here /\ Unhandled'[i] = Unhandled[i + d]

LEMMA CallKept ==
  ASSUME NEW d \in Nat, Follows(d), CallInv, ~cutShort' => ~cutShort,
         UNCHANGED <<pending, cmd, asked, TPName, program>>
  PROVE  CallInv'
<1> SUFFICES ASSUME ~cutShort PROVE CallInv'
  BY DEF CallInv
<1>0. Here \subseteq Nat /\ Here' \subseteq Nat
  BY DEF Here
<1>1. ASSUME NEW i \in Here', Own(i)'
      PROVE  i + d \in Here /\ Unhandled'[i] = Unhandled[i + d] /\ Own(i + d)
  BY <1>1 DEF Follows, Own, Ours
<1>2. ASSUME NEW i \in Here', Own(i)', Last(i)' PROVE Last(i + d)
  <2>1. i + d \in Here /\ News(i + d)
    BY <1>1, <1>2 DEF Last, News
  <2>2. ASSUME NEW j \in Here, News(j) PROVE j <= i + d
    <3>1. CASE j <= d
      BY <1>0, <3>1
    <3>2. CASE j > d
      <4>1. j - d \in Here' /\ News(j - d)'
        BY <2>2, <3>2 DEF Follows, News
      <4>2. j - d <= i
        BY <1>2, <4>1 DEF Last
      <4> QED
        BY <1>0, <3>2, <4>2
    <3> QED
      BY <1>0, <3>1, <3>2
  <2> QED
    BY <2>1, <2>2 DEF Last
<1>3. AtTester'
  BY <1>1 DEF CallInv, AtTester
<1>4. ASSUME NEW i \in Here', Own(i)' PROVE Awaited(i)'
  BY <1>1, <1>2, <1>4 DEF CallInv, Awaited
<1>5. ASSUME NEW i \in Here', NEW j \in Here', Own(i)', Own(j)', i < j
      PROVE  Aborted(i, j)'
  <2>1. i + d < j + d
    BY <1>0, <1>5
  <2> QED
    BY <1>1, <1>5, <2>1 DEF CallInv, Aborted
<1> QED
  BY <1>3, <1>4, <1>5 DEF CallInv

(* Nothing is asked of the tester and nothing is on its way. *)
LEMMA CallFree ==
  ASSUME ~cutShort' => pending' = None /\ \A i \in Here' : ~Own(i)'
  PROVE  CallInv'
  BY DEF CallInv, AtTester

LEMMA CallIdle ==
  ASSUME TypeOK, CallInv, ~cutShort, cmd \notin {"unloading", "loading"}
  PROVE  pending = None /\ \A i \in Here : ~Own(i)
<1>1. pending = None
  BY DEF TypeOK, CallInv, AtTester, Calls, Waiting
<1> QED
  BY <1>1 DEF CallInv, Awaited

(* Steps that leave the unhandled events alone, or what matters of them. *)
LEMMA StaysKeeps == Stays => KeepsNews(0) /\ Follows(0)
<1> SUFFICES ASSUME Stays PROVE KeepsNews(0) /\ Follows(0)
  OBVIOUS
<1>1. Here' = Here /\ \A i \in Here : i - 0 = i /\ i + 0 = i
  BY DEF Stays, Here
<1> QED
  BY <1>1 DEF Stays, KeepsNews, Follows, News, Own, Ours

LEMMA ShrinksFollows ==
  ASSUME TypeOK, TypeOK', Shrinks
  PROVE  Follows(1)
<1>1. Len(Unhandled) \in Nat /\ Len(Unhandled') = Len(Unhandled) - 1
  BY UnhandledType DEF Shrinks
<1>2. ASSUME NEW i \in Here, i > 1
      PROVE  i - 1 \in Here' /\ Unhandled'[i - 1] = Unhandled[i]
  <2>1. i - 1 \in Here' /\ (i - 1) + 1 = i
    BY <1>1, <1>2 DEF Here
  <2> QED
    BY <2>1 DEF Shrinks
<1>3. ASSUME NEW i \in Here'
      PROVE  i + 1 \in Here /\ Unhandled'[i] = Unhandled[i + 1]
  BY <1>1 DEF Here, Shrinks
<1> QED
  BY <1>2, <1>3 DEF Follows

LEMMA ShrinksKeeps ==
  ASSUME TypeOK, TypeOK', Shrinks, ~News(1)
  PROVE  KeepsNews(1)
<1>1. Len(Unhandled) \in Nat /\ Len(Unhandled') = Len(Unhandled) - 1
  BY UnhandledType DEF Shrinks
<1>2. ASSUME NEW i \in Here, News(i)
      PROVE  i - 1 \in Here' /\ Unhandled'[i - 1] = Unhandled[i]
  <2>1. i > 1
    BY <1>2 DEF Here
  <2> QED
    BY <1>2, <2>1, ShrinksFollows DEF Follows
<1>3. ASSUME NEW i \in Here'
      PROVE  i + 1 \in Here /\ Unhandled'[i] = Unhandled[i + 1]
  BY <1>1 DEF Here, Shrinks
<1> QED
  BY <1>2, <1>3 DEF KeepsNews

(* What is there after something was sent. *)
LEMMA Sent ==
  ASSUME TypeOK, TypeOK', NEW n \in Seq(Event), Grows(n)
  PROVE  /\ Len(Unhandled) \in Nat /\ Here \subseteq Here'
         /\ \A i \in Here : Unhandled'[i] = Unhandled[i] /\ i <= Len(Unhandled)
         /\ \A i \in Here' : \/ i \in Here
                             \/ \E k \in 1..Len(n) : /\ i = Len(Unhandled) + k
                                                     /\ Unhandled'[i] = n[k]
         /\ \A k \in 1..Len(n) : /\ Len(Unhandled) + k \in Here'
                                 /\ Unhandled'[Len(Unhandled) + k] = n[k]
<1>1. Len(Unhandled) \in Nat /\ Len(n) \in Nat
  BY UnhandledType
<1>2. Here' = 1..(Len(Unhandled) + Len(n)) /\ Here = 1..Len(Unhandled)
  BY DEF Here, Grows
<1>3. ASSUME NEW i \in Here', i \notin Here
      PROVE  \E k \in 1..Len(n) : i = Len(Unhandled) + k /\ Unhandled'[i] = n[k]
  <2> DEFINE k == i - Len(Unhandled)
  <2>1. k \in 1..Len(n) /\ i = Len(Unhandled) + k
    BY <1>1, <1>2, <1>3 DEF Here
  <2>2. Unhandled'[Len(Unhandled) + k] = n[k]
    BY <2>1 DEF Grows
  <2> QED
    BY <2>1, <2>2
<1>4. \A k \in 1..Len(n) : /\ Len(Unhandled) + k \in Here'
                          /\ Unhandled'[Len(Unhandled) + k] = n[k]
  BY <1>1, <1>2 DEF Grows
<1>5. \A i \in Here : /\ Unhandled'[i] = Unhandled[i] /\ i <= Len(Unhandled)
                     /\ i \in Here'
  BY <1>1, <1>2 DEF Grows
<1> QED
  BY <1>1, <1>3, <1>4, <1>5

(* Nobody is told anything new by a word on the robot. *)
LEMMA NoticeKeeps ==
  ASSUME TypeOK, TypeOK', NEW n \in Seq(Event), Grows(n),
         \A k \in 1..Len(n) : n[k].kind \in RobotKinds
  PROVE  KeepsNews(0) /\ Follows(0)
<1>1. ASSUME NEW i \in Here', i \notin Here PROVE ~News(i)' /\ ~Own(i)'
  <2>1. PICK k \in 1..Len(n) : Unhandled'[i] = n[k]
    BY <1>1, Sent
  <2> QED
    BY <2>1 DEF News, Own, Ours, RobotKinds, ProgramKinds
<1>2. \A i \in Here : i \in Here' /\ Unhandled'[i] = Unhandled[i]
  BY Sent
<1>3. (\A i \in Here : i - 0 = i) /\ (\A i \in Here' : i + 0 = i)
  BY DEF Here
<1> QED
  BY <1>1, <1>2, <1>3 DEF KeepsNews, Follows

(* Steps after which the tester holds, and the host believes, what they did. *)
LEMMA HostKept ==
  ASSUME NEW d \in Nat, KeepsNews(d), TypeOK, TypeOK', HostInv,
         UNCHANGED <<program, unannounced, misled, currProgram, hostView, config>>
  PROVE  NewsInv' /\ NameInv' /\ ViewInv'
<1>1. (NoNews' <=> NoNews) /\ NewsInv' /\ NameInv'
  BY NewsKept DEF HostInv
<1> QED
  BY <1>1 DEF HostInv, ViewInv, On

LEMMA Unconcerned ==
  ASSUME NEW d \in Nat, KeepsNews(d), Follows(d), TypeOK, TypeOK', HostInv,
         UNCHANGED <<program, unannounced, misled, currProgram, hostView, config,
                     cutShort, pending, cmd, asked, TPName>>
  PROVE  HostInv'
  BY HostKept, CallKept DEF HostInv

(* Handling one of the tester's program events. *)
LEMMA CallHandled ==
  ASSUME TypeOK, TypeOK', HandlerInv, CallInv, ev # NoEvent, ev.kind \in ProgramKinds,
         ev' = NoEvent, NEW ok, Complete(ok), NoteCut,
         UNCHANGED <<events, pending, asked, TPName, program>>
  PROVE  CallInv'
<1> SUFFICES ASSUME ~cutShort' PROVE CallInv'
  BY DEF CallInv
<1>1. /\ Shrinks /\ Follows(1) /\ 1 \in Here /\ Unhandled[1] = ev
      /\ Unhandled' = events
  BY HandleShrinks, ShrinksFollows, UnhandledInHand DEF Here, Unhandled
<1>2. CASE CallsOver
  BY <1>1, <1>2, CallFree DEF CallsOver, Here, Own
<1>3. CASE ~CallsOver
  <2>1. ~cutShort /\ ~EndsForeignWait
    BY <1>3 DEF NoteCut, TypeOK
  <2>2. CASE ev.byHand
    <3>1. cmd' = cmd
      BY <2>1, <2>2 DEF EndsForeignWait, Complete
    <3> QED
      BY <1>1, <2>1, <3>1, CallKept
  <2>3. CASE ~ev.byHand
    <3>1. Own(1)
      BY <1>1, <2>3 DEF Own, Ours
    <3>2. Awaited(1) /\ pending = None
      BY <1>1, <2>1, <3>1 DEF CallInv, AtTester
    <3>3. CASE ev.kind = "ABORT_LOAD"
      <4>1. cmd' = cmd
        BY <1>1, <3>2, <3>3 DEF Awaited, HandlerInv, WaitStates, Complete
      <4> QED
        BY <1>1, <2>1, <4>1, CallKept
    <3>4. CASE ev.kind # "ABORT_LOAD"
      <4>1. ASSUME NEW i \in Here', Own(i)' PROVE FALSE
        <5>1. i + 1 \in Here /\ Unhandled'[i] = Unhandled[i + 1]
          BY <1>1, <4>1 DEF Follows
        <5>2. Own(i + 1)
          BY <4>1, <5>1 DEF Own, Ours
        <5>3. 1 < i + 1
          BY DEF Here
        <5>4. Aborted(1, i + 1)
          BY <1>1, <2>1, <3>1, <5>1, <5>2, <5>3 DEF CallInv
        <5> QED
          BY <1>1, <3>4, <5>4 DEF Aborted
      <4> QED
        BY <3>2, <4>1, CallFree
    <3> QED
      BY <3>3, <3>4
  <2> QED
    BY <2>2, <2>3, <2>1
<1> QED
  BY <1>2, <1>3

(* What has been handled was not the last news if there is more. *)
LEMMA NewsHandled ==
  ASSUME TypeOK, TypeOK', NewsInv, Shrinks, program' = program
  PROVE  NewsInv'
<1> SUFFICES ASSUME program # None, ~NoNews'
             PROVE  \E i \in Here' : Last(i)' /\ Load(i, program)'
  BY DEF NewsInv
<1>0. Here \subseteq Nat /\ Here' \subseteq Nat
  BY DEF Here
<1>1. Follows(1) /\ \A i \in Here' : i + 1 \in Here /\ Unhandled'[i] = Unhandled[i + 1]
  <2>1. Len(Unhandled) \in Nat
    BY UnhandledType
  <2> QED
    BY <2>1, ShrinksFollows DEF Shrinks, Here
<1>2. \A i \in Here' : News(i)' => News(i + 1)
  BY <1>1 DEF News
<1>3. PICK j \in Here' : News(j)'
  BY DEF NoNews
<1>4. PICK i \in Here : Last(i) /\ Load(i, program)
  BY <1>1, <1>2, <1>3 DEF NewsInv, NoNews
<1>5. News(i) /\ j + 1 <= i
  BY <1>1, <1>2, <1>3, <1>4 DEF Last
<1>6. i - 1 \in Here' /\ Unhandled'[i - 1] = Unhandled[i] /\ News(i - 1)'
  BY <1>0, <1>1, <1>5 DEF Follows, News
<1>7. ASSUME NEW k \in Here', News(k)' PROVE k <= i - 1
  <2>1. k + 1 <= i
    BY <1>1, <1>2, <1>4, <1>7 DEF Last
  <2> QED
    BY <1>0, <2>1
<1>8. Last(i - 1)'
  BY <1>6, <1>7 DEF Last
<1>9. Load(i - 1, program)'
  BY <1>4, <1>6 DEF Load
<1> QED
  BY <1>6, <1>8, <1>9

(* Handling the last news there is. *)
LEMMA LastNews ==
  ASSUME TypeOK, TypeOK', Shrinks, NoNews'
  PROVE  \A i \in Here : News(i) => i = 1
<1>1. Follows(1) /\ Here \subseteq Nat
  BY ShrinksFollows DEF Here
<1> SUFFICES ASSUME NEW i \in Here, News(i), i # 1 PROVE FALSE
  OBVIOUS
<1>2. i > 1
  BY DEF Here
<1>3. i - 1 \in Here' /\ News(i - 1)'
  BY <1>1, <1>2 DEF Follows, News
<1> QED
  BY <1>3 DEF NoNews

LEMMA LoadedStep ==
  ASSUME TypeOK, TypeOK', HandlerInv, HostInv, HandleLoaded
  PROVE  HostInv'
<1>1. /\ handler = "handle" /\ ev.kind = "LOADED" /\ config' = config
      /\ ev # NoEvent /\ ev' = NoEvent
      /\ UNCHANGED <<events, pending, asked, TPName, program>>
      /\ Complete(recipeParseResult) /\ NoteCut
  BY DEF HandleLoaded, Handles, Serving, HandlerInv, Done
<1>2. currProgram' = program /\ unannounced' = FALSE /\ misled' = (ev.byHand \/ cutShort)
  BY DEF HandleLoaded
<1>3. hostView' = IF On("EVID003") THEN TPName ELSE hostView
  BY DEF HandleLoaded
<1>4. Shrinks /\ Unhandled[1] = ev /\ 1 \in Here
  BY <1>1, HandleShrinks, UnhandledInHand DEF Here
<1>5. CallInv'
  BY <1>1, CallHandled DEF HostInv, ProgramKinds
<1>6. NewsInv'
  BY <1>1, <1>4, NewsHandled DEF HostInv
<1>7. NameInv'
  <2>1. CASE program = None
    BY <1>2, <2>1 DEF NameInv
  <2>2. CASE program # None /\ NoNews'
    BY <1>1, <1>2, <2>2 DEF NameInv
  <2>3. CASE program # None /\ ~NoNews'
    <3>1. PICK i \in Here' : Load(i, program)'
      BY <1>1, <1>6, <2>3 DEF NewsInv
    <3>2. Load(i, currProgram)'
      BY <1>1, <1>2, <3>1 DEF Load
    <3> QED
      BY <3>2 DEF NameInv
  <2> QED
    BY <2>1, <2>2, <2>3
<1>8. ViewInv'
  <2> SUFFICES ASSUME On("EVID003")', ~misled', NoNews'
               PROVE  hostView' = program'
    BY DEF ViewInv
  <2>1. ~cutShort /\ Own(1) /\ hostView' = TPName
    BY <1>1, <1>2, <1>3, <1>4 DEF Own, Ours, ProgramKinds, On
  <2>2. Last(1)
    BY <1>1, <1>4, LastNews DEF Last, News, Here
  <2> QED
    BY <1>1, <1>4, <2>1, <2>2 DEF HostInv, CallInv, Awaited
<1> QED
  BY <1>5, <1>6, <1>7, <1>8 DEF HostInv

LEMMA LoadFailureStep ==
  ASSUME TypeOK, TypeOK', HandlerInv, HostInv, HandleLoadFailure
  PROVE  HostInv'
<1>1. /\ handler = "handle" /\ ev.kind \in {"LOAD_FAILED", "ABORT_LOAD"}
      /\ ev # NoEvent /\ ev' = NoEvent /\ config' = config
      /\ UNCHANGED <<events, pending, asked, TPName, program>>
      /\ Complete(FALSE) /\ NoteCut
  BY DEF HandleLoadFailure, Handles, Serving, HandlerInv, Done
<1>2. CallInv'
  BY <1>1, CallHandled DEF HostInv, ProgramKinds
<1>3. KeepsNews(1)
  BY <1>1, HandleShrinks, ShrinksKeeps DEF Shrinks, News
<1>4. UNCHANGED <<program, unannounced, misled, currProgram, hostView, config>>
  BY <1>1 DEF HandleLoadFailure
<1> QED
  BY <1>2, <1>3, <1>4, HostKept DEF HostInv

LEMMA UnloadedStep ==
  ASSUME TypeOK, TypeOK', HandlerInv, HostInv, HandleUnloaded
  PROVE  HostInv'
<1>1. /\ handler = "handle" /\ ev.kind = "UNLOADED" /\ ev # NoEvent /\ ev' = NoEvent
      /\ UNCHANGED <<events, pending, asked, TPName, program>>
      /\ Complete(recipeParseResult) /\ NoteCut
  BY DEF HandleUnloaded, Handles, HandlerInv, Done
<1>2. currProgram' = None /\ hostView' = None
  BY DEF HandleUnloaded
<1>3. Shrinks /\ Unhandled[1] = ev /\ 1 \in Here
  BY <1>1, HandleShrinks, UnhandledInHand DEF Here
<1>4. CallInv'
  BY <1>1, CallHandled DEF HostInv, ProgramKinds
<1>5. NewsInv'
  BY <1>1, <1>3, NewsHandled DEF HostInv
<1>6. ViewInv'
  <2> SUFFICES ASSUME NoNews', program # None PROVE FALSE
    BY <1>1, <1>2 DEF ViewInv
  <2>1. News(1) /\ ~Load(1, program)
    BY <1>1, <1>3 DEF News, Load
  <2>2. PICK i \in Here : Last(i) /\ Load(i, program)
    BY <1>3, <2>1 DEF HostInv, NewsInv, NoNews
  <2>3. i = 1
    BY <1>3, <2>2, LastNews DEF Last
  <2> QED
    BY <2>1, <2>2, <2>3
<1> QED
  BY <1>2, <1>4, <1>5, <1>6 DEF HostInv, NameInv

(* The configuration is read, or nothing happens. *)
LEMMA ReadingStep ==
  ASSUME TypeOK, TypeOK', SilentBefore, HostInv, ReadConfiguration \/ UNCHANGED vars
  PROVE  HostInv'
<1>1. UNCHANGED <<cmdVars, testerVars, hostVars, ev, events>>
  BY DEF ReadConfiguration, vars
<1>2. KeepsNews(0) /\ Follows(0)
  BY <1>1, StaysKeeps DEF Stays, Unhandled
<1>3. CallInv'
  BY <1>1, <1>2, CallKept DEF HostInv
<1>4. NoNews' <=> NoNews
  BY <1>1, <1>2, NewsKept
<1>5. NewsInv' /\ NameInv'
  BY <1>1, <1>2, NewsKept DEF HostInv
<1>6. ViewInv'
  <2>1. CASE UNCHANGED vars
    BY <1>4, <2>1 DEF HostInv, ViewInv, On, vars
  <2>2. CASE ReadConfiguration
    <3>1. stage # "serving"
      BY <2>2 DEF ReadConfiguration, ConfigNext, ReadChoice, ReadSite, Reading,
         CheckProgLocation
    <3> QED
      BY <1>1, <3>1 DEF SilentBefore, ViewInv
  <2> QED
    BY <2>1, <2>2
<1> QED
  BY <1>3, <1>5, <1>6 DEF HostInv

LEMMA CmdStepHost ==
  ASSUME TypeOK, TypeOK', HostInv,
         CmdRecipeDecodeAvailable \/ CmdRecipeDecode \/ CmdParse \/ CmdCall
  PROVE  HostInv'
<1>1. /\ cmd \notin {"unloading", "loading"}
      /\ UNCHANGED <<ev, events, program, hostVars, config>>
  BY DEF CmdRecipeDecodeAvailable, CmdRecipeDecode, CmdParse, CmdCall, Calls, Serving
<1>2. Stays /\ KeepsNews(0) /\ Follows(0)
  BY <1>1, StaysKeeps DEF Stays, Unhandled
<1>3. NewsInv' /\ NameInv' /\ ViewInv'
  BY <1>1, <1>2, HostKept
<1>4. CallInv'
  <2> SUFFICES ASSUME ~cutShort' PROVE CallInv'
    BY DEF CallInv
  <2>1. pending = None /\ \A i \in Here : ~Own(i)
    BY <1>1, CallIdle DEF HostInv
  <2>2. \A i \in Here' : ~Own(i)'
    BY <1>2, <2>1 DEF Stays, Here, Own
  <2>3. CASE pending' = pending
    BY <2>1, <2>2, <2>3, CallFree
  <2>4. CASE pending' # pending
    <3>1. CmdCall /\ pending' = cmd /\ cmd' = Waiting[cmd]
      BY <2>4 DEF CmdRecipeDecodeAvailable, CmdRecipeDecode, CmdParse, CmdCall
    <3>2. asked' = (IF cmd = "load" THEN TPName ELSE None) /\ TPName' = TPName
      BY <2>4, <3>1 DEF CmdCall
    <3>3. AtTester'
      BY <2>2, <3>1, <3>2 DEF AtTester
    <3> QED
      BY <2>2, <3>3 DEF CallInv
  <2> QED
    BY <2>3, <2>4
<1> QED
  BY <1>3, <1>4 DEF HostInv

(* The queue's head is taken in hand, or the event is one on the robot. *)
LEMMA RobotStepHost ==
  ASSUME TypeOK, TypeOK', HandlerInv, HostInv,
         StateRespond \/ HandlePaused \/ BlockRobot \/ HandleResumed \/ ProgramRunDone
  PROVE  HostInv'
<1>1. UNCHANGED <<cmdVars, testerVars, hostVars, config>>
  BY DEF StateRespond, HandlePaused, BlockRobot, HandleResumed, ProgramRunDone,
     Serving, Handles
<1>2. \E d \in Nat : KeepsNews(d) /\ Follows(d)
  <2>1. CASE StateRespond \/ (HandlePaused /\ ev' = ev)
    <3>1. Stays
      BY <2>1, RespondStays DEF HandlePaused, Stays, Unhandled
    <3> QED
      BY <3>1, StaysKeeps
  <2>2. CASE BlockRobot \/ HandleResumed \/ ProgramRunDone
               \/ (HandlePaused /\ ev' # ev)
    <3>1. ev # NoEvent /\ ev' = NoEvent /\ events' = events /\ ev.kind \in RobotKinds
      BY <2>2 DEF BlockRobot, HandlePaused, HandleResumed, ProgramRunDone, Done,
         Handles, HandlerInv, RobotKinds
    <3>2. Shrinks /\ ~News(1)
      BY <3>1, HandleShrinks DEF Shrinks, News, RobotKinds
    <3> QED
      BY <3>2, ShrinksKeeps, ShrinksFollows
  <2> QED
    BY <2>1, <2>2
<1> QED
  BY <1>1, <1>2, Unconcerned

LEMMA NoticeStepHost ==
  ASSUME TypeOK, TypeOK', HostInv, PauseOrResume \/ TestStarts \/ TestEnds
  PROVE  HostInv'
<1>1. /\ UNCHANGED <<cmdVars, program, pending, asked, hostVars, config>>
      /\ ev' = ev
  BY DEF PauseOrResume, TestStarts, TestEnds, Serving, Quiet
<1>2. KeepsNews(0) /\ Follows(0)
  <2>1. CASE events' = events
    BY <1>1, <2>1, StaysKeeps DEF Stays, Unhandled
  <2>2. CASE events' # events
    <3>1. PICK k \in RobotKinds : events' = Append(events, RobotNotice(k))
      BY <2>2 DEF PauseOrResume, TestStarts, TestEnds, RobotKinds
    <3>2. RobotNotice(k) \in Event /\ RobotNotice(k).kind \in RobotKinds
      BY Notices DEF RobotNotice, Notice
    <3>3. Grows(<<RobotNotice(k)>>)
      BY <1>1, <3>1, <3>2, AppendGrows
    <3> DEFINE n == <<RobotNotice(k)>>
    <3>4. n \in Seq(Event) /\ \A i \in 1..Len(n) : n[i].kind \in RobotKinds
      BY <3>2
    <3> HIDE DEF n
    <3> QED
      BY <3>3, <3>4, NoticeKeeps DEF n
  <2> QED
    BY <2>1, <2>2
<1> QED
  BY <1>1, <1>2, Unconcerned

LEMMA RestartStepHost ==
  ASSUME TypeOK, HandlerInv, TesterRestarts
  PROVE  HostInv'
<1>1. /\ ev' = NoEvent /\ events' = <<>> /\ pending' = None /\ program' = None
      /\ unannounced' = TRUE
  BY DEF TesterRestarts, HandlerInv
<1>2. Here' = {}
  BY <1>1 DEF Here, Unhandled
<1> QED
  BY <1>1, <1>2, CallFree DEF HostInv, NewsInv, NameInv, ViewInv

(* What the tester sends, and what it sends when a hand is at work. *)
LEMMA SentName ==
  ASSUME TypeOK, TypeOK', NameInv, currProgram' = currProgram,
         unannounced => unannounced', NEW n \in Seq(Event), Grows(n),
         NoNews /\ currProgram = program /\ program # None =>
           \/ unannounced'
           \/ Len(n) > 0 /\ n[1].kind = "UNLOADED" /\ n[1].program = program
  PROVE  NameInv'
<1>0. Here \subseteq Here' /\ \A i \in Here : Unhandled'[i] = Unhandled[i]
  BY Sent
<1>1. CASE unannounced \/ currProgram = None
  BY <1>1 DEF NameInv
<1>2. CASE \E i \in Here : Load(i, currProgram)
  BY <1>0, <1>2 DEF NameInv, Load
<1>3. ASSUME NEW i \in Here', Unhandled'[i].kind = "UNLOADED",
             Unhandled'[i].program = currProgram,
             \A j \in Here' : News(j)' => i <= j
      PROVE  NameInv'
  BY <1>3 DEF NameInv, First, News
<1>4. CASE \E i \in Here : /\ First(i) /\ Unhandled[i].kind = "UNLOADED"
                           /\ Unhandled[i].program = currProgram
  <2>1. PICK i \in Here : /\ First(i) /\ Unhandled[i].kind = "UNLOADED"
                          /\ Unhandled[i].program = currProgram
    BY <1>4
  <2>2. ASSUME NEW j \in Here', News(j)' PROVE i <= j
    <3>1. CASE j \in Here
      BY <1>0, <2>1, <2>2, <3>1 DEF First, News
    <3>2. CASE j \notin Here
      <4>1. Len(Unhandled) \in Nat /\ i <= Len(Unhandled)
        BY <2>1, Sent
      <4>2. PICK k \in 1..Len(n) : j = Len(Unhandled) + k
        BY <3>2, Sent
      <4> QED
        BY <2>1, <4>1, <4>2 DEF Here
    <3> QED
      BY <3>1, <3>2
  <2> QED
    BY <1>0, <1>3, <2>1, <2>2
<1>5. CASE NoNews /\ currProgram = program /\ program # None
  <2>1. CASE unannounced'
    BY <2>1 DEF NameInv
  <2>2. CASE Len(n) > 0 /\ n[1].kind = "UNLOADED" /\ n[1].program = program
    <3> DEFINE i == Len(Unhandled) + 1
    <3>1. 1 \in 1..Len(n)
      BY <2>2
    <3>2. /\ i \in Here' /\ Unhandled'[i].kind = "UNLOADED"
          /\ Unhandled'[i].program = currProgram
      BY <1>5, <2>2, <3>1, Sent
    <3>3. ASSUME NEW j \in Here', News(j)' PROVE i <= j
      <4>1. j \notin Here
        BY <1>0, <1>5, <3>3 DEF NoNews, News
      <4>2. PICK k \in 1..Len(n) : j = Len(Unhandled) + k /\ Len(Unhandled) \in Nat
        BY <4>1, Sent
      <4> QED
        BY <4>2
    <3> QED
      BY <1>3, <3>2, <3>3
  <2> QED
    BY <1>5, <2>1, <2>2
<1> QED
  BY <1>1, <1>2, <1>4, <1>5 DEF NameInv

(* A program that is loaded is the last news; none needs no news. *)
LEMMA SentNews ==
  ASSUME TypeOK, TypeOK', NEW n \in Seq(Event), Grows(n),
         \/ program' = None
         \/ Len(n) = 1 /\ n[1].kind = "LOADED" /\ n[1].program = program'
  PROVE  NewsInv'
<1>0. CASE program' = None
  BY <1>0 DEF NewsInv
<1>1. CASE Len(n) = 1 /\ n[1].kind = "LOADED" /\ n[1].program = program'
  <2>1. 1 \in 1..Len(n)
    BY <1>1
  <2>2. PICK l \in Here' : /\ l = Len(Unhandled) + 1 /\ Unhandled'[l] = n[1]
                           /\ Len(Unhandled) \in Nat
    BY <2>1, Sent
  <2>3. ASSUME NEW j \in Here' PROVE j <= l
    <3>1. CASE j \in Here
      BY <2>2, <3>1 DEF Here
    <3>2. CASE j \notin Here
      BY <1>1, <2>2, <3>2, Sent
    <3> QED
      BY <3>1, <3>2
  <2>4. Load(l, program)'
    BY <1>1, <2>2 DEF Load
  <2>5. Last(l)'
    BY <1>1, <2>2, <2>3 DEF Last, News
  <2> QED
    BY <2>2, <2>4, <2>5 DEF NewsInv
<1> QED
  BY <1>0, <1>1

LEMMA SentView ==
  ASSUME TypeOK, TypeOK', NEW n \in Seq(Event), Grows(n), NEW k \in 1..Len(n),
         n[k].kind \in {"LOADED", "UNLOADED"}
  PROVE  ~NoNews'
<1>1. /\ Len(Unhandled) + k \in Here'
      /\ Unhandled'[Len(Unhandled) + k] = n[k]
  BY Sent
<1> QED
  BY <1>1 DEF NoNews, News

(* An answer is all that is on its way to the recipe. *)
LEMMA AnswerCall ==
  ASSUME TypeOK, TypeOK', CallInv, NEW o \in Calls, NEW loaded, NEW n \in Seq(Event),
         Answers(o, loaded, n), Grows(n),
         \A k \in 1..Len(n) :
           /\ n[k].kind # "UNLOADED" => o = "load"
           /\ n[k].kind = "LOADED" => n[k].program = asked /\ loaded = asked,
         \A k, l \in 1..Len(n) :
           k < l => n[k].kind = "ABORT_LOAD" /\ n[l].kind = "UNLOADED"
  PROVE  CallInv'
<1> SUFFICES ASSUME ~cutShort' PROVE CallInv'
  BY DEF CallInv
<1>1. /\ pending = o /\ pending' = None /\ program' = loaded
      /\ UNCHANGED <<cmd, TPName, cutShort>>
  BY DEF Answers, Quiet
<1>2. /\ cmd = Waiting[o] /\ \A i \in Here : ~Own(i)
      /\ o = "load" => asked = TPName
  <2>1. ~cutShort
    BY <1>1
  <2>2. AtTester /\ pending # None
    BY <1>1, <2>1 DEF CallInv, Calls, None
  <2> QED
    BY <1>1, <2>2 DEF AtTester
<1>3. ASSUME NEW i \in Here', Own(i)'
      PROVE  \E k \in 1..Len(n) : i = Len(Unhandled) + k /\ Unhandled'[i] = n[k]
  <2>1. i \notin Here
    BY <1>2, <1>3, Sent DEF Own
  <2> QED
    BY <2>1, Sent
<1>4. AtTester'
  BY <1>1 DEF AtTester
<1>5. ASSUME NEW i \in Here', Own(i)' PROVE Awaited(i)'
  <2>1. PICK k \in 1..Len(n) : Unhandled'[i] = n[k]
    BY <1>3, <1>5
  <2>2. cmd' \in {"unloading", "loading"} /\ (o = "load" => cmd' = "loading")
    BY <1>1, <1>2 DEF Calls, Waiting
  <2>3. Unhandled'[i].kind # "UNLOADED" => cmd' = "loading"
    BY <2>1, <2>2
  <2>4. Unhandled'[i].kind = "LOADED" => /\ Unhandled'[i].program = TPName'
                                        /\ program' = TPName'
    BY <1>1, <1>2, <2>1
  <2> QED
    BY <2>2, <2>3, <2>4 DEF Awaited
<1>6. ASSUME NEW i \in Here', NEW j \in Here', Own(i)', Own(j)', i < j
      PROVE  Aborted(i, j)'
  <2>1. PICK k \in 1..Len(n) : i = Len(Unhandled) + k /\ Unhandled'[i] = n[k]
    BY <1>3, <1>6
  <2>2. PICK l \in 1..Len(n) : j = Len(Unhandled) + l /\ Unhandled'[j] = n[l]
    BY <1>3, <1>6
  <2>3. k < l
    BY <1>6, <2>1, <2>2, UnhandledType
  <2> QED
    BY <2>1, <2>2, <2>3 DEF Aborted
<1> QED
  BY <1>4, <1>5, <1>6 DEF CallInv

LEMMA AnswersStep ==
  ASSUME TypeOK, TypeOK', HostInv, TesterAnswers
  PROVE  HostInv'
<1>1. ASSUME NEW o \in Calls, NEW loaded, NEW n \in Seq(Event), Answers(o, loaded, n)
      PROVE  /\ Grows(n) /\ currProgram' = currProgram /\ program' = loaded
             /\ unannounced' = (unannounced \/ (o = "load" /\ program # None))
             /\ UNCHANGED <<hostView, misled, config>>
  <2>1. /\ ev' = ev /\ events' = events \o n /\ currProgram' = currProgram
        /\ program' = loaded
        /\ unannounced' = (unannounced \/ (o = "load" /\ program # None))
        /\ UNCHANGED <<hostView, misled, config>>
    BY <1>1 DEF Answers, Quiet, Serving
  <2> QED
    BY <2>1, SendGrows
<1>2. asked \in AnyProgram /\ program \in AnyProgram
  BY DEF TypeOK
<1>a. ASSUME NEW k \in ProgramKinds, NEW p \in AnyProgram
      PROVE  /\ Notice(k, p, FALSE) \in Event /\ Notice(k, p, FALSE).kind = k
             /\ Notice(k, p, FALSE).program = p
  BY Notices DEF Notice
<1>b. ASSUME NEW e \in Event
      PROVE  <<e>> \in Seq(Event) /\ Len(<<e>>) = 1 /\ <<e>>[1] = e
  OBVIOUS
<1>d. ASSUME NEW e \in Event, NEW f \in Event
      PROVE  <<e, f>> \in Seq(Event) /\ Len(<<e, f>>) = 2 /\ <<e, f>>[1] = e
             /\ <<e, f>>[2] = f
  OBVIOUS
<1>c. /\ "LOADED" \in ProgramKinds /\ "LOAD_FAILED" \in ProgramKinds
      /\ "UNLOADED" \in ProgramKinds /\ "ABORT_LOAD" \in ProgramKinds
  BY DEF ProgramKinds
<1>3. CASE TesterUnloads
  <2> DEFINE n == <<Notice("UNLOADED", program, FALSE)>>
  <2>1. /\ n \in Seq(Event) /\ Len(n) = 1 /\ n[1].kind = "UNLOADED"
        /\ n[1].program = program
    BY <1>2, <1>a, <1>b, <1>c
  <2>2. Answers("unload", None, n) /\ "unload" \in Calls
    BY <1>3 DEF TesterUnloads, Calls
  <2> HIDE DEF n
  <2>3. CallInv'
    BY <1>1, <2>1, <2>2, AnswerCall DEF HostInv
  <2>4. NewsInv' /\ NameInv'
    <3>1. unannounced => unannounced'
      BY <1>1, <2>1, <2>2
    <3>2. NewsInv'
      BY <1>1, <2>1, <2>2, SentNews
    <3> QED
      BY <1>1, <2>1, <2>2, <3>1, <3>2, SentName DEF HostInv
  <2>5. ViewInv'
    BY <1>1, <2>1, <2>2, SentView DEF ViewInv
  <2> QED
    BY <2>3, <2>4, <2>5 DEF HostInv
<1>4. CASE TesterLoads
  <2> DEFINE n == <<Notice("LOADED", asked, FALSE)>>
  <2>1. /\ n \in Seq(Event) /\ Len(n) = 1 /\ n[1].kind = "LOADED"
        /\ n[1].program = asked
    BY <1>2, <1>a, <1>b, <1>c
  <2>2. Answers("load", asked, n) /\ "load" \in Calls
    BY <1>4 DEF TesterLoads, Calls
  <2> HIDE DEF n
  <2>3. CallInv'
    BY <1>1, <2>1, <2>2, AnswerCall DEF HostInv
  <2>4. NewsInv' /\ NameInv'
    <3>1. unannounced => unannounced'
      BY <1>1, <2>1, <2>2
    <3>2. NewsInv'
      BY <1>1, <2>1, <2>2, SentNews
    <3> QED
      BY <1>1, <2>1, <2>2, <3>1, <3>2, SentName DEF HostInv
  <2>5. ViewInv'
    BY <1>1, <2>1, <2>2, SentView DEF ViewInv
  <2> QED
    BY <2>3, <2>4, <2>5 DEF HostInv
<1>5. CASE TesterFails
  <2> DEFINE n == <<Notice("LOAD_FAILED", asked, FALSE)>>
  <2>1. n \in Seq(Event) /\ Len(n) = 1 /\ n[1].kind = "LOAD_FAILED"
    BY <1>2, <1>a, <1>b, <1>c
  <2>2. Answers("load", None, n) /\ "load" \in Calls
    BY <1>5 DEF TesterFails, Calls
  <2> HIDE DEF n
  <2>3. CallInv'
    BY <1>1, <2>1, <2>2, AnswerCall DEF HostInv
  <2>4. NewsInv' /\ NameInv'
    <3>1. unannounced => unannounced'
      BY <1>1, <2>1, <2>2
    <3>2. NewsInv'
      BY <1>1, <2>1, <2>2, SentNews
    <3> QED
      BY <1>1, <2>1, <2>2, <3>1, <3>2, SentName DEF HostInv
  <2>5. ViewInv'
    <3> SUFFICES ASSUME On("EVID003")', ~unannounced', ~misled', NoNews'
                 PROVE  hostView' \in {"unknown", program'}
      BY DEF ViewInv
    <3>1. NoNews
      BY <1>1, <2>1, <2>2, Sent DEF NoNews, News
    <3>2. ~unannounced /\ program = None /\ program' = None
      BY <1>1, <2>1, <2>2
    <3> QED
      BY <1>1, <2>1, <2>2, <3>1, <3>2 DEF HostInv, ViewInv, On
  <2> QED
    BY <2>3, <2>4, <2>5 DEF HostInv
<1>6. CASE TesterAborts
  <2> DEFINE n == <<Notice("ABORT_LOAD", asked, FALSE), Notice("UNLOADED", asked, FALSE)>>
  <2>1. /\ n \in Seq(Event) /\ Len(n) = 2 /\ n[1].kind = "ABORT_LOAD"
        /\ n[2].kind = "UNLOADED"
    <3>1. /\ Notice("ABORT_LOAD", asked, FALSE) \in Event
          /\ Notice("ABORT_LOAD", asked, FALSE).kind = "ABORT_LOAD"
          /\ Notice("UNLOADED", asked, FALSE) \in Event
          /\ Notice("UNLOADED", asked, FALSE).kind = "UNLOADED"
      BY <1>2, <1>a, <1>c
    <3> QED
      BY <1>d, <3>1
  <2>2. Answers("load", None, n) /\ "load" \in Calls
    BY <1>6 DEF TesterAborts, Calls
  <2> HIDE DEF n
  <2>3. CallInv'
    <3>1. \A k \in 1..Len(n) : n[k].kind \in {"ABORT_LOAD", "UNLOADED"}
      BY <2>1
    <3>2. \A k, l \in 1..Len(n) : k < l => k = 1 /\ l = 2
      BY <2>1
    <3> QED
      BY <1>1, <2>1, <2>2, <3>1, <3>2, AnswerCall DEF HostInv
  <2>4. NewsInv' /\ NameInv'
    <3>1. unannounced => unannounced'
      BY <1>1, <2>1, <2>2
    <3>2. NewsInv'
      BY <1>1, <2>1, <2>2, SentNews
    <3> QED
      BY <1>1, <2>1, <2>2, <3>1, <3>2, SentName DEF HostInv
  <2>5. ViewInv'
    <3>1. 2 \in 1..Len(n)
      BY <2>1
    <3> QED
      BY <1>1, <2>1, <2>2, <3>1, SentView DEF ViewInv
  <2> QED
    BY <2>3, <2>4, <2>5 DEF HostInv
<1> QED
  BY <1>3, <1>4, <1>5, <1>6 DEF TesterAnswers

(* A hand moves only while the tester works on no call. *)
LEMMA HandCall ==
  ASSUME TypeOK, TypeOK', CallInv, NEW n \in Seq(Event), Grows(n), Len(n) = 1,
         n[1].byHand, n[1].kind \in {"LOADED", "UNLOADED"}, pending = None,
         UNCHANGED <<pending, cmd, TPName, cutShort>>
  PROVE  CallInv'
<1> SUFFICES ASSUME ~cutShort' PROVE CallInv'
  BY DEF CallInv
<1>0. 1 \in 1..Len(n) /\ Here \subseteq Nat
  BY DEF Here
<1>1. ASSUME NEW i \in Here', Own(i)'
      PROVE  i \in Here /\ Unhandled'[i] = Unhandled[i] /\ Own(i) /\ ~Last(i)'
  <2>1. i \in Here /\ Unhandled'[i] = Unhandled[i]
    BY <1>1, Sent DEF Own, Ours
  <2>2. PICK l \in Here' : /\ l = Len(Unhandled) + 1 /\ Unhandled'[l] = n[1]
                           /\ Len(Unhandled) \in Nat
    BY <1>0, Sent
  <2>3. News(l)' /\ ~(l <= i)
    BY <2>1, <2>2 DEF News, Here
  <2> QED
    BY <1>1, <2>1, <2>3 DEF Own, Last
<1>2. AtTester'
  BY DEF AtTester
<1>3. ASSUME NEW i \in Here', Own(i)' PROVE Awaited(i)'
  BY <1>1, <1>3 DEF CallInv, Awaited
<1>4. ASSUME NEW i \in Here', NEW j \in Here', Own(i)', Own(j)', i < j
      PROVE  Aborted(i, j)'
  BY <1>1, <1>4 DEF CallInv, Aborted
<1> QED
  BY <1>2, <1>3, <1>4 DEF CallInv

LEMMA HandStepHost ==
  ASSUME TypeOK, TypeOK', HostInv,
         (\E p \in Programs : OperatorLoad(p)) \/ OperatorUnload
  PROVE  HostInv'
<1>1. /\ ev' = ev /\ pending = None
      /\ UNCHANGED <<pending, cmd, TPName, cutShort, currProgram, unannounced>>
  BY DEF OperatorLoad, OperatorUnload, Quiet
<1>2. ASSUME NEW n \in Seq(Event), Grows(n), Len(n) = 1, n[1].byHand,
             n[1].kind \in {"LOADED", "UNLOADED"},
             \/ program = None /\ n[1].kind = "LOADED" /\ n[1].program = program'
             \/ program' = None /\ n[1].kind = "UNLOADED" /\ n[1].program = program
      PROVE  HostInv'
  <2>1. CallInv'
    BY <1>1, <1>2, HandCall DEF HostInv
  <2>2. NewsInv' /\ NameInv'
    BY <1>1, <1>2, SentNews, SentName DEF HostInv
  <2>3. ViewInv'
    <3>1. 1 \in 1..Len(n)
      BY <1>2
    <3> QED
      BY <1>2, <3>1, SentView DEF ViewInv
  <2> QED
    BY <2>1, <2>2, <2>3 DEF HostInv
<1>3. ASSUME NEW e \in Event, events' = Append(events, e), e.byHand,
             e.kind \in {"LOADED", "UNLOADED"},
             \/ program = None /\ e.kind = "LOADED" /\ e.program = program'
             \/ program' = None /\ e.kind = "UNLOADED" /\ e.program = program
      PROVE  HostInv'
  <2> DEFINE n == <<e>>
  <2>1. n \in Seq(Event) /\ Len(n) = 1 /\ n[1] = e
    OBVIOUS
  <2>2. Grows(n)
    BY <1>1, <1>3, AppendGrows
  <2> HIDE DEF n
  <2> QED
    BY <1>2, <1>3, <2>1, <2>2
<1>4. CASE \E p \in Programs : OperatorLoad(p)
  <2>1. PICK p \in Programs : OperatorLoad(p)
    BY <1>4
  <2> DEFINE e == Notice("LOADED", p, TRUE)
  <2>2. e \in Event /\ e.byHand /\ e.kind = "LOADED" /\ e.program = p
    BY Notices DEF Notice, ProgramKinds, AnyProgram
  <2>3. events' = Append(events, e) /\ program' = p /\ program = None
    BY <2>1 DEF OperatorLoad
  <2> HIDE DEF e
  <2> QED
    BY <1>3, <2>2, <2>3
<1>5. CASE OperatorUnload
  <2> DEFINE e == Notice("UNLOADED", program, TRUE)
  <2>1. e \in Event /\ e.byHand /\ e.kind = "UNLOADED" /\ e.program = program
    BY Notices DEF Notice, ProgramKinds, TypeOK
  <2>2. events' = Append(events, e) /\ program' = None
    BY <1>5 DEF OperatorUnload
  <2> HIDE DEF e
  <2> QED
    BY <1>3, <2>1, <2>2
<1> QED
  BY <1>4, <1>5

LEMMA HostInit == Init => HostInv
<1> SUFFICES ASSUME Init PROVE HostInv
  OBVIOUS
<1>1. /\ ev = NoEvent /\ events = <<>> /\ pending = None /\ currProgram = None
      /\ hostView = "unknown"
  BY DEF Init
<1>2. Here = {}
  BY <1>1 DEF Here, Unhandled
<1> QED
  BY <1>1, <1>2 DEF HostInv, CallInv, AtTester, NewsInv, NoNews, NameInv, ViewInv

LEMMA HostStep ==
  TypeOK /\ RobotInv /\ SilentBefore /\ HostInv /\ [Next]_vars => HostInv'
<1> SUFFICES ASSUME TypeOK, RobotInv, SilentBefore, HostInv, [Next]_vars
             PROVE  HostInv'
  OBVIOUS
<1>1. TypeOK' /\ HandlerInv
  BY TypeStep DEF RobotInv
<1> QED
  BY <1>1, Movers, ReadingStep, CmdStepHost, RobotStepHost, NoticeStepHost,
     RestartStepHost, LoadedStep, LoadFailureStep, UnloadedStep, AnswersStep,
     HandStepHost

LEMMA HostCorrect == Spec => [](TypeOK /\ RobotInv /\ SilentBefore /\ HostInv)
  BY TypeInit, TypeStep, RobotInit, RobotStep, SilentInit, SilentStep, HostInit,
     HostStep, PTL DEF Spec

(* The invariant that says why the properties below hold: what the events on  *)
(* their way are about, whose they are, and what the handler and the host make *)
(* of them (userInterface.cpp:272-320, 432-467).                              *)
THEOREM UnisonCorrect == Spec => []UnisonInv
<1>1. TypeOK /\ PrefixRules /\ RobotInv /\ SilentBefore /\ HostInv => UnisonInv
  BY DEF UnisonInv, RobotInv, HostInv
<1> QED
  BY <1>1, HostCorrect, TypeInit, TypeStep, PrefixInit, PrefixStep, PTL DEF Spec

(* With messages 003 and 004 switched on and nothing on its way, what the host *)
(* was last told is the program in the tester, except that (1) 003 gave a      *)
(* recipe's name for a program loaded by hand, or for one of a recipe a hand   *)
(* had cut short, and (2) the host is not told of a program that goes without  *)
(* an UNLOADED, until the next event (userInterface.cpp:436-467).              *)
THEOREM HostIsTold == Spec => []HostKnowsProgram
<1>1. TypeOK /\ RobotInv /\ HostInv => HostKnowsProgram
  <2> SUFFICES ASSUME TypeOK, RobotInv, HostInv, On("EVID003"), events = <<>>,
                      handler = "poll", hostView # "unknown", ~misled, ~unannounced
               PROVE  hostView = program
    BY DEF HostKnowsProgram
  <2>1. NoNews
    BY DEF RobotInv, HandlerInv, NoNews, Here, Unhandled
  <2> QED
    BY <2>1 DEF HostInv, ViewInv
<1> QED
  BY <1>1, HostCorrect, PTL

(* Message 004 names the program that was unloaded or none, except that (1)    *)
(* after a program has gone without an UNLOADED, in a restart of the tester or *)
(* replaced by another load, it may name that one until the next LOADED or     *)
(* UNLOADED has been handled, and (2) it names a program whose own LOADED is   *)
(* still on its way if that was in the tester when an earlier LOADED was        *)
(* handled (userInterface.cpp:436-452, 463).                                  *)
THEOREM UnloadIsNamed == Spec => []UnloadNamesProgram
<1>1. TypeOK /\ RobotInv /\ HostInv => UnloadNamesProgram
  <2> SUFFICES ASSUME TypeOK, RobotInv, HostInv, handler = "handle",
                      ev.kind = "UNLOADED", ~unannounced,
                      currProgram # None, currProgram # ev.program
               PROVE  LoadedSince(currProgram)
    BY DEF UnloadNamesProgram
  <2>1. /\ Unhandled[1] = ev /\ Len(Unhandled) = Len(events) + 1
        /\ Len(events) \in Nat
        /\ \A i \in 1..Len(events) : Unhandled[i + 1] = events[i]
    BY UnhandledInHand DEF RobotInv, HandlerInv
  <2>2. 1 \in Here /\ News(1)
    BY <2>1 DEF Here, News
  <2>3. ASSUME NEW i \in Here, First(i) PROVE i = 1
    BY <2>2, <2>3 DEF First, Here
  <2>4. PICK i \in Here : Load(i, currProgram)
    BY <2>1, <2>2, <2>3 DEF HostInv, NameInv, NoNews
  <2>5. i - 1 \in 1..Len(events) /\ (i - 1) + 1 = i
    BY <2>1, <2>4 DEF Load, Here
  <2>6. events[i - 1] = Unhandled[i]
    BY <2>1, <2>5
  <2> QED
    BY <2>4, <2>5, <2>6 DEF Load, LoadedSince
<1> QED
  BY <1>1, HostCorrect, PTL

(* The UNLOADED of a recipe's own call leaves the robot as it is, unless an    *)
(* event of a hand has ended the recipe's wait before: then the recipe may be   *)
(* over, and m_recipeParse reset, when it is handled (userInterface.cpp:283).   *)
THEOREM RecipeLeavesRobot == Spec => RecipeKeepsRobot
<1>1. TypeOK /\ RobotInv /\ HostInv /\ [Next]_vars
        => (HandlesOwnUnload /\ ~cutShort => robot' = robot)
  <2> SUFFICES ASSUME TypeOK, RobotInv, HostInv, [Next]_vars, HandlesOwnUnload,
                      ~cutShort
               PROVE  robot' = robot
    OBVIOUS
  <2>1. HandleUnloaded
    BY Movers DEF HandlesOwnUnload, ReadConfiguration, vars, CmdRecipeDecodeAvailable,
       CmdRecipeDecode, CmdParse, CmdCall, StateRespond, Handles, HandleLoaded,
       HandleLoadFailure, HandlePaused, BlockRobot, HandleResumed, ProgramRunDone,
       Quiet, TesterAnswers, TesterUnloads, TesterLoads, TesterFails, TesterAborts,
       Answers, OperatorLoad, OperatorUnload, PauseOrResume, TestStarts, TestEnds,
       TesterRestarts
  <2>2. Unhandled[1] = ev /\ 1 \in Here
    BY UnhandledInHand DEF RobotInv, HandlerInv, HandlesOwnUnload, Here
  <2>3. Own(1)
    BY <2>2 DEF HandlesOwnUnload, Own, Ours, ProgramKinds
  <2>4. recipeParse
    BY <2>2, <2>3 DEF HostInv, CallInv, Awaited, RobotInv, HandlerInv
  <2> QED
    BY <2>1, <2>4 DEF HandleUnloaded
<1>2. TypeOK /\ RobotInv /\ HostInv /\ [Next]_vars
        => [HandlesOwnUnload /\ ~cutShort => robot' = robot]_vars
  BY <1>1
<1> QED
  BY <1>2, HostCorrect, PTL DEF Spec, RecipeKeepsRobot
================================================================================
