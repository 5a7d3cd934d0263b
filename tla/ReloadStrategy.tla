---------------------------- MODULE ReloadStrategy ----------------------------
(***************************************************************************)
(* Which test program a recipe ends up with.  executeRecipeReload follows  *)
(* the recipe's download and reload strategies: it copies a package from   *)
(* the server to the tester PC, unpacks it, unloads the running program    *)
(* and loads the unpacked one.  No shell command's result is looked at;    *)
(* the only evidence is whether a file of the right name exists afterwards.*)
(*                                                                         *)
(* One package and one program are followed, those every recipe names; any *)
(* other loaded program is OtherProgram.  How the two calls wait for the   *)
(* tester is ProgramNotification's subject: here a call is one step.       *)
(***************************************************************************)
EXTENDS Naturals

CONSTANTS
  Versions,      \* what a package or program of the requested name can contain
  NoFile,        \* no such file; also: no program is loaded
  Damaged,       \* a package that cp cut short
  OtherProgram,  \* some other program is loaded
  Paths,         \* the shapes of TPPath: subset of PathShapes
  MayMisfire     \* the mishaps that may occur: subset of Mishaps

PathShapes == {"empty", "plain", "nested"}  \* nested: it has subfolders
Mishaps == {"fetch",     \* cp or tar fails
            "server",    \* the server changes while a recipe runs
            "tester",    \* a load or unload call fails
            "operator"}  \* somebody loads or unloads by hand meanwhile

ASSUME PathsAssumption == Paths \subseteq PathShapes
ASSUME MishapsAssumption == MayMisfire \subseteq Mishaps
ASSUME ValuesAssumption ==
  /\ {NoFile, Damaged, OtherProgram} \intersect Versions = {}
  /\ NoFile # Damaged /\ NoFile # OtherProgram /\ Damaged # OtherProgram

Files == Versions \union {NoFile}
Packages == Files \union {Damaged}
Programs == Files \union {OtherProgram}

VARIABLES
  pc,                 \* where executeRecipeReload is
  dload, rload,       \* DownloadStrategy, ReloadStrategy
  tpPath,             \* the shape of TPPath
  currentProgName,    \* CurrentProgName
  result,             \* what executeRecipeReload returns
  recipeParseResult,  \* m_recipeParseResult
  remote,             \* the package at RemoteLocation/TPPath
  local,              \* the package at LocalLocation/TPPath
  prog,               \* the unpacked program at ProgLocation/TPName
  loaded,             \* the program loaded at the tester
  start, mishaps      \* history: what there was when the recipe came; what has
                      \* gone wrong since

recipeVars == <<dload, rload, tpPath, currentProgName>>
resultVars == <<result, recipeParseResult>>
fileVars == <<remote, local, prog>>
vars == <<pc, recipeVars, resultVars, fileVars, loaded, start, mishaps>>

--------------------------------------------------------------------------------
(* What a strategy attribute says: "Force" or "force"; "Never" or "never"; or *)
(* anything else, which the code does not tell from a missing attribute.     *)
Spellings == {"force", "never", ""}
IsForce(s) == s = "force"
IsNever(s) == s = "never"

(* The function executeRecipeReload calls.  Seeded fault: the two functions  *)
(* for a download that is never wanted taken for each other.                 *)
StrategySwapped(d, r) ==
  IF IsForce(d) THEN "forceDownload"
  ELSE IF IsNever(d)
    THEN IF IsForce(r) THEN "neverForce"
         ELSE IF IsNever(r) THEN "neverAttempt" ELSE "neverNever"
    ELSE IF IsForce(r) THEN "attemptForce" ELSE "attemptAttempt"
Strategy(d, r) ==
  IF IsForce(d) THEN "forceDownload"
  ELSE IF IsNever(d)
    THEN IF IsForce(r) THEN "neverForce"
         ELSE IF IsNever(r) THEN "neverNever" ELSE "neverAttempt"
    ELSE IF IsForce(r) THEN "attemptForce" ELSE "attemptAttempt"

(* Where each function starts, and where it goes when a download, or an      *)
(* unpacking of what is there already, does not work out.  Seeded fault: the *)
(* two fall back on each other.                                              *)
FirstStep(s, requestedIsLoaded) ==
  IF s \in {"forceDownload", "attemptForce", "attemptAttempt"} THEN "download"
  ELSE IF s = "neverNever" /\ requestedIsLoaded THEN "keep" ELSE "unpackLocal"
AfterDownloadLocalAgain ==
  [forceDownload |-> "error", neverForce |-> "unpackLocal",
   neverAttempt |-> "keep", neverNever |-> "error",
   attemptForce |-> "unpackLocal", attemptAttempt |-> "unpackLocal"]
AfterDownload ==
  [forceDownload |-> "error", neverForce |-> "error", neverAttempt |-> "keep",
   neverNever |-> "error", attemptForce |-> "unpackLocal",
   attemptAttempt |-> "unpackLocal"]
AfterUnpack ==
  [neverForce |-> "download", neverAttempt |-> "download",
   neverNever |-> "download", attemptForce |-> "error", attemptAttempt |-> "keep"]

NameOf(p) == IF p = NoFile THEN "none"
             ELSE IF p = OtherProgram THEN "other" ELSE "requested"

Before == {"idle", "parse"}   \* executeRecipeReload is not called yet
Pcs == Before \union {"download", "copy", "unpackRemote", "unpackLocal", "keep",
                      "unload", "load", "error", "done"}

TypeOK ==
  /\ pc \in Pcs
  /\ dload \in Spellings /\ rload \in Spellings
  /\ tpPath \in Paths
  /\ currentProgName \in {"none", "requested", "other"}
  /\ result \in BOOLEAN /\ recipeParseResult \in BOOLEAN
  /\ remote \in Files /\ local \in Packages /\ prog \in Files
  /\ loaded \in Programs
  /\ start \in [remote : Files, local : Packages, loaded : Programs]
  /\ mishaps \subseteq MayMisfire

(* The server's package counts only if the recipe says which one it wants. *)
Situation == [remote |-> IF tpPath = "empty" THEN NoFile ELSE remote,
              local |-> local, loaded |-> loaded]
Nothing == [remote |-> NoFile, local |-> NoFile, loaded |-> NoFile]

Init ==
  /\ pc = "idle"
  /\ dload = "" /\ rload = "" /\ tpPath \in Paths
  /\ currentProgName = "none"
  /\ result = TRUE /\ recipeParseResult = TRUE
  /\ remote \in Files /\ local \in Files /\ prog = NoFile
  /\ tpPath = "empty" => local = NoFile
  /\ loaded \in {NoFile, OtherProgram}
  /\ start = Nothing
  /\ mishaps = {}

--------------------------------------------------------------------------------
Goto(step) == pc' = step
Misfires(kind) == kind \in MayMisfire /\ mishaps' = mishaps \union {kind}
Current == Strategy(dload, rload)

(* A <testerRecipe>.  Its tags are read in their order, as many as there are. *)
RecipeDecode ==
  /\ pc = "idle" /\ Goto("parse")
  /\ UNCHANGED <<recipeVars, resultVars, fileVars, loaded, start, mishaps>>

(* The attributes of a tag; one it does not have keeps its earlier value.    *)
ParseStrategies ==
  /\ pc = "parse" /\ pc' = pc
  /\ dload' \in Spellings /\ rload' \in Spellings
  /\ UNCHANGED <<tpPath, currentProgName, resultVars, fileVars, loaded, start,
                 mishaps>>

(* testPrgmURI: TPPath is its first folder.  TEST_PROGRAM_PATH: any path.     *)
ParseTestPrgmLoader == tpPath # "nested" /\ ParseStrategies
ParseTestPrgmCopierLoaderScript == ParseStrategies
ParseTestPrgm == ParseTestPrgmLoader \/ ParseTestPrgmCopierLoaderScript

(* updateProgramLoad has no program to load, or the recipe did not parse.    *)
NothingToLoad ==
  /\ pc = "parse" /\ Goto("idle")
  /\ dload' = "" /\ rload' = ""
  /\ UNCHANGED <<tpPath, currentProgName, resultVars, fileVars, loaded, start,
                 mishaps>>

(* executeRecipeReload: the program that is loaded now is remembered by name *)
(* and the strategy chosen.  A package damaged earlier is this recipe's      *)
(* mishap too.                                                               *)
ExecuteRecipeReload ==
  /\ pc = "parse"
  /\ currentProgName' = NameOf(loaded)
  /\ start' = Situation
  /\ mishaps' = (IF local = Damaged THEN {"fetch"} ELSE {})
  /\ Goto(FirstStep(Current, NameOf(loaded) = "requested"))
  /\ UNCHANGED <<dload, rload, tpPath, resultVars, fileVars, loaded>>

(* downloadProgramFromServerToLocal: is there a package on the server?       *)
(* Seeded fault: the running program is unloaded before that is known.       *)
DownloadUnloadingFirst ==
  /\ pc = "download"
  /\ Goto(IF tpPath # "empty" /\ remote # NoFile THEN "copy"
                                                 ELSE AfterDownload[Current])
  /\ loaded' = NoFile
  /\ UNCHANGED <<recipeVars, resultVars, fileVars, start, mishaps>>
Download ==
  /\ pc = "download"
  /\ Goto(IF tpPath # "empty" /\ remote # NoFile THEN "copy"
                                                 ELSE AfterDownload[Current])
  /\ UNCHANGED <<recipeVars, resultVars, fileVars, loaded, start, mishaps>>

(* copyFile: cp puts the package directly into LocalLocation, which is not   *)
(* where unpackProgramFromLocalToTest looks if TPPath has subfolders.        *)
CopyFile ==
  /\ pc = "copy"
  /\ \/ /\ remote # NoFile /\ mishaps' = mishaps
        /\ local' = (IF tpPath = "nested" THEN local ELSE remote)
     \/ remote = NoFile /\ mishaps' = mishaps /\ local' = local
     \/ /\ Misfires("fetch")
        /\ local' \in (IF tpPath = "nested" THEN {local} ELSE {local, Damaged})
  /\ Goto("unpackRemote")
  /\ UNCHANGED <<recipeVars, resultVars, remote, prog, loaded, start>>

(* unpackProgramFromLocalToTest: nothing to unpack; or tar and a look for    *)
(* the program, which an earlier package may have left there.  Seeded fault: *)
(* whatever tar gets to read is taken for the program.                       *)
UnpackDamaged(failed) ==
  \/ local = NoFile /\ Goto(failed) /\ prog' = prog /\ mishaps' = mishaps
  \/ local # NoFile /\ Goto("unload") /\ prog' = local /\ mishaps' = mishaps
Unpack(failed) ==
  \/ local = NoFile /\ Goto(failed) /\ prog' = prog /\ mishaps' = mishaps
  \/ local \in Versions /\ Goto("unload") /\ prog' = local /\ mishaps' = mishaps
  \/ /\ local # NoFile /\ Misfires("fetch") /\ prog' = prog
     /\ Goto(IF prog # NoFile THEN "unload" ELSE failed)
UnpackRemote ==
  /\ pc = "unpackRemote" /\ Unpack(AfterDownload[Current])
  /\ UNCHANGED <<recipeVars, resultVars, remote, local, loaded, start>>
UnpackLocal ==
  /\ pc = "unpackLocal" /\ Unpack(AfterUnpack[Current])
  /\ UNCHANGED <<recipeVars, resultVars, remote, local, loaded, start>>

(* isProgramToLoadAlreadyLoaded, on the name remembered at the start.        *)
(* Seeded fault: any loaded program will do.                                 *)
KeepWhateverIsLoaded ==
  /\ pc = "keep"
  /\ Goto(IF currentProgName # "none" THEN "done" ELSE "error")
  /\ UNCHANGED <<recipeVars, resultVars, fileVars, loaded, start, mishaps>>
Keep ==
  /\ pc = "keep"
  /\ Goto(IF currentProgName = "requested" THEN "done" ELSE "error")
  /\ UNCHANGED <<recipeVars, resultVars, fileVars, loaded, start, mishaps>>

(* unloadProgram(CurrentProgName), which does nothing if there was none. *)
Unload ==
  /\ pc = "unload"
  /\ \/ /\ currentProgName = "none"
        /\ Goto("load") /\ loaded' = loaded /\ mishaps' = mishaps
     \/ /\ currentProgName # "none" /\ loaded # NoFile
        /\ Goto("load") /\ loaded' = NoFile /\ mishaps' = mishaps
     \/ /\ currentProgName # "none"
        /\ (loaded = NoFile /\ mishaps' = mishaps) \/ Misfires("tester")
        /\ Goto("error") /\ loaded' = loaded
  /\ UNCHANGED <<recipeVars, resultVars, fileVars, start>>

(* loadProgram: LOADED; an error status; or LOAD_FAILED, which programChange *)
(* records and loadProgram, content with any event it waits for, cannot see. *)
(* Seeded fault: nobody records it.                                          *)
LoadFailureUnseen ==
  /\ pc = "load"
  /\ \/ loaded' = prog /\ mishaps' = mishaps
     \/ Misfires("tester") /\ loaded' = NoFile
  /\ Goto("done") /\ UNCHANGED <<recipeVars, resultVars, fileVars, start>>
Load ==
  /\ pc = "load"
  /\ \/ /\ loaded' = prog /\ mishaps' = mishaps
        /\ Goto("done") /\ UNCHANGED resultVars
     \/ /\ (loaded # NoFile /\ mishaps' = mishaps) \/ Misfires("tester")
        /\ Goto("error") /\ loaded' = loaded /\ UNCHANGED resultVars
     \/ /\ Misfires("tester") /\ loaded' = NoFile
        /\ Goto("done") /\ result' = result /\ recipeParseResult' = FALSE
  /\ UNCHANGED <<recipeVars, fileVars, start>>

(* "return false", all the way up to updateProgramLoad. *)
ReturnFalse ==
  /\ pc = "error" /\ Goto("done")
  /\ result' = FALSE /\ recipeParseResult' = recipeParseResult
  /\ UNCHANGED <<recipeVars, fileVars, loaded, start, mishaps>>

(* RecipeDecode is over.  What resetRecipeVars resets when the next one       *)
(* begins is reset here: nothing reads it in between.                        *)
Return ==
  /\ pc = "done" /\ Goto("idle")
  /\ dload' = "" /\ rload' = "" /\ tpPath' = tpPath /\ currentProgName' = "none"
  /\ result' = TRUE /\ recipeParseResult' = TRUE
  /\ start' = Nothing /\ mishaps' = {}
  /\ UNCHANGED <<fileVars, loaded>>

--------------------------------------------------------------------------------
(* The server gets another package, or loses the one it has. *)
Publish ==
  /\ remote' \in Files \ {remote}
  /\ IF pc \in Before THEN mishaps' = mishaps ELSE Misfires("server")
  /\ UNCHANGED <<pc, recipeVars, resultVars, local, prog, loaded, start>>

(* Between recipes somebody cleans up the tester PC. *)
CleanLocal ==
  /\ pc = "idle" /\ local' = NoFile
  /\ UNCHANGED <<pc, recipeVars, resultVars, remote, prog, loaded, start, mishaps>>

(* The operator loads or unloads a program at the Unison screen. *)
OperatorActs ==
  /\ loaded' \in {NoFile, OtherProgram, prog} \ {loaded}
  /\ IF pc \in Before THEN mishaps' = mishaps ELSE Misfires("operator")
  /\ UNCHANGED <<pc, recipeVars, resultVars, fileVars, start>>

Step == \/ ExecuteRecipeReload \/ NothingToLoad \/ Download \/ CopyFile \/ UnpackRemote \/ UnpackLocal \/ Keep
        \/ Unload \/ Load \/ ReturnFalse \/ Return
Next == \/ RecipeDecode \/ ParseTestPrgm \/ Step
        \/ Publish \/ CleanLocal \/ OperatorActs

Spec == Init /\ [][Next]_vars

(* The command thread runs on; nobody else has to do anything. *)
FairSpec == Spec /\ WF_vars(Step)

--------------------------------------------------------------------------------
(* Properties.                                                               *)

(* The truth table over executeRecipeReload (userInterface.cpp:1812-1897), as *)
(* the order in which a recipe is to try the places a program can come from.  *)
Preference(d, r) ==
  IF IsForce(d) THEN <<"remote">>
  ELSE IF IsNever(d)
    THEN IF IsForce(r) THEN <<"local", "remote">>
         ELSE IF IsNever(r) THEN <<"loaded", "local", "remote">>
         ELSE <<"local", "remote", "loaded">>
    ELSE IF IsForce(r) THEN <<"remote", "local">>
         ELSE <<"remote", "local", "loaded">>

Available(place) == start[place] \in Versions
Row == Preference(dload, rload)
Considering(place) ==
  \E i \in DOMAIN Row : /\ Row[i] = place
                       /\ \A j \in 1 .. (i - 1) : ~Available(Row[j])
Exhausted == \A i \in DOMAIN Row : ~Available(Row[i])

(* When nothing goes wrong a recipe ends with the program from the first      *)
(* place of the table's row that has one, or fails and leaves what is loaded  *)
(* (userInterface.cpp:1936-1959 and the six functions it calls).              *)
TruthTable ==
  pc = "done" /\ mishaps = {} =>
    \/ \E place \in {"remote", "local", "loaded"} :
         /\ Considering(place) /\ Available(place)
         /\ result /\ recipeParseResult /\ loaded = start[place]
    \/ Exhausted /\ ~result /\ loaded = start.loaded

(* A recipe that fails because nothing could be fetched leaves the running    *)
(* program alone: it is unloaded only once its replacement is on disk         *)
(* (userInterface.cpp:2218-2224).                                             *)
FailedFetchKeepsProgram ==
  pc = "done" /\ ~result /\ mishaps \subseteq {"fetch", "server"}
    => loaded = start.loaded

(* A recipe that goes on to send its parameters runs the program it named,    *)
(* whatever failed on the way, unless the operator interfered                 *)
(* (userInterface.cpp:421, 1767).                                             *)
SuccessMeansRequested ==
  pc = "done" /\ result /\ recipeParseResult /\ "operator" \notin mishaps
    => loaded \in Versions

(* The fallbacks never send a recipe round in circles (userInterface.cpp:     *)
(* 2213-2388).                                                                *)
RecipeEnds == (pc # "idle") ~> (pc = "idle")

--------------------------------------------------------------------------------
(* Why: an inductive invariant.                                              *)

DamageInv ==
  local = Damaged => /\ "fetch" \in MayMisfire
                     /\ pc \in Before \/ "fetch" \in mishaps

(* What a running recipe remembers, and what it has not touched yet. *)
MemoryInv ==
  /\ pc \in Before => result /\ recipeParseResult /\ mishaps = {}
  /\ pc \notin Before =>
    /\ currentProgName = NameOf(start.loaded)
    /\ mishaps = {} => start.remote = Situation.remote
    /\ pc # "done" => result /\ recipeParseResult
    /\ "operator" \notin mishaps =>
         /\ pc \notin {"load", "error", "done"} => loaded = start.loaded
         /\ pc = "load" => loaded = NoFile
    /\ pc = "error" /\ mishaps \subseteq {"fetch", "server"}
         => loaded = start.loaded
    /\ pc \in {"unload", "load"} => prog # NoFile

(* Which functions get where. *)
ControlInv ==
  /\ pc = "unpackLocal" => Current # "forceDownload"
  /\ pc = "keep" => Current \in {"neverAttempt", "neverNever", "attemptAttempt"}
  /\ pc = "keep" /\ Current = "neverNever" => currentProgName = "requested"

(* Which places a recipe without mishaps has tried in vain. *)
FallbackInv ==
  mishaps = {} =>
    /\ pc \in {"download", "copy", "unpackLocal"} => local = start.local
    /\ pc = "unpackRemote" => local = start.remote
    /\ pc \in {"download", "copy", "unpackRemote"} => Considering("remote")
    /\ pc \in {"copy", "unpackRemote"} => Available("remote")
    /\ pc = "unpackLocal" => Considering("local")
    /\ pc = "keep" => Considering("loaded")
    /\ pc \in {"unload", "load"} =>
         \E place \in {"remote", "local"} :
           Considering(place) /\ Available(place) /\ prog = start[place]
    /\ pc = "error" => Exhausted

ReloadInv == /\ TypeOK /\ DamageInv /\ ControlInv /\ MemoryInv /\ FallbackInv
             /\ TruthTable /\ FailedFetchKeepsProgram /\ SuccessMeansRequested
================================================================================
