------------------------- MODULE ReloadStrategyProofs -------------------------
(***************************************************************************)
(* Theorems about ReloadStrategy, for every set of package contents.       *)
(***************************************************************************)
EXTENDS ReloadStrategy, TLAPS

(* The rows of the table, and the function that stands for each. *)
LEMMA Rows ==
  \/ Current = "forceDownload" /\ Row = <<"remote">>
  \/ Current = "neverForce" /\ Row = <<"local", "remote">>
  \/ Current = "neverAttempt" /\ Row = <<"local", "remote", "loaded">>
  \/ Current = "neverNever" /\ Row = <<"loaded", "local", "remote">>
  \/ Current = "attemptForce" /\ Row = <<"remote", "local">>
  \/ Current = "attemptAttempt" /\ Row = <<"remote", "local", "loaded">>
  BY DEF Current, Strategy, Row, Preference

(* Considering and Exhausted, row by row. *)
PlacesByRow ==
  /\ Considering("remote") <=>
       \/ Current \in {"forceDownload", "attemptForce", "attemptAttempt"}
       \/ Current \in {"neverForce", "neverAttempt"} /\ ~Available("local")
       \/ /\ Current = "neverNever"
          /\ ~Available("loaded") /\ ~Available("local")
  /\ Considering("local") <=>
       \/ Current \in {"neverForce", "neverAttempt"}
       \/ Current = "neverNever" /\ ~Available("loaded")
       \/ Current \in {"attemptForce", "attemptAttempt"} /\ ~Available("remote")
  /\ Considering("loaded") <=>
       \/ Current = "neverNever"
       \/ /\ Current \in {"neverAttempt", "attemptAttempt"}
          /\ ~Available("remote") /\ ~Available("local")
  /\ Exhausted <=>
       /\ ~Available("remote")
       /\ Current # "forceDownload" => ~Available("local")
       /\ Current \in {"neverAttempt", "neverNever", "attemptAttempt"}
            => ~Available("loaded")
LEMMA Places == PlacesByRow
<1> USE DEF PlacesByRow, Considering, Exhausted
<1> HIDE DEF Row, Available, Current
<1>1. CASE Current = "forceDownload" /\ Row = <<"remote">>
  BY <1>1
<1>2. CASE Current = "neverForce" /\ Row = <<"local", "remote">>
  BY <1>2
<1>3. CASE Current = "neverAttempt" /\ Row = <<"local", "remote", "loaded">>
  BY <1>3
<1>4. CASE Current = "neverNever" /\ Row = <<"loaded", "local", "remote">>
  BY <1>4
<1>5. CASE Current = "attemptForce" /\ Row = <<"remote", "local">>
  BY <1>5
<1>6. CASE Current = "attemptAttempt" /\ Row = <<"remote", "local", "loaded">>
  BY <1>6
<1> QED
  BY <1>1, <1>2, <1>3, <1>4, <1>5, <1>6, Rows

Functions == {"forceDownload", "neverForce", "neverAttempt", "neverNever",
              "attemptForce", "attemptAttempt"}
CurrentIsFunction == Current \in Functions

LEMMA FunctionFacts == CurrentIsFunction /\ CurrentIsFunction'
<1>1. CurrentIsFunction
  BY DEF CurrentIsFunction, Current, Strategy, Functions
<1> QED
  BY <1>1, PTL

LEMMA PlacesNext == PlacesByRow'
  BY Places, PTL

(* Types are kept, whatever goes wrong. *)
LEMMA TypeStep ==
  ASSUME TypeOK, DamageInv, ControlInv, [Next]_vars
  PROVE  TypeOK' /\ DamageInv' /\ ControlInv'
<1> USE ValuesAssumption, MishapsAssumption, FunctionFacts
    DEF TypeOK, DamageInv, ControlInv, Goto, Misfires, recipeVars, resultVars,
        fileVars, Pcs, Before, Files, Packages, Programs, Functions, CurrentIsFunction
<1>1. CASE ExecuteRecipeReload
  <2>1. Current' = Current
    BY <1>1 DEF ExecuteRecipeReload, Current
  <2>2. pc' \in {"download", "keep", "unpackLocal"} /\ ControlInv'
    BY <1>1, <2>1 DEF ExecuteRecipeReload, FirstStep
  <2>3. currentProgName' \in {"none", "requested", "other"}
    BY <1>1 DEF ExecuteRecipeReload, NameOf
  <2>4. start' \in [remote : Files, local : Packages, loaded : Programs]
    BY <1>1 DEF ExecuteRecipeReload, Situation
  <2>5. UNCHANGED <<dload, rload, tpPath, resultVars, fileVars, loaded>>
    BY <1>1 DEF ExecuteRecipeReload
  <2>6. mishaps' \subseteq MayMisfire /\ DamageInv'
    BY <1>1 DEF ExecuteRecipeReload
  <2> QED
    BY <2>2, <2>3, <2>4, <2>5, <2>6
<1>2. CASE Download
  BY <1>2 DEF Download, AfterDownload, Current
<1>3. CASE CopyFile
  BY <1>3 DEF CopyFile, Current
<1>4. CASE UnpackRemote
  BY <1>4 DEF UnpackRemote, Unpack, AfterDownload, Current
<1>5. CASE UnpackLocal
  BY <1>5 DEF UnpackLocal, Unpack, AfterUnpack, Current
<1>6. CASE Keep
  BY <1>6 DEF Keep, Current
<1>7. CASE Unload
  BY <1>7 DEF Unload, Current
<1>8. CASE Load
  <2>1. result' \in BOOLEAN /\ recipeParseResult' \in BOOLEAN
    BY <1>8 DEF Load
  <2>2. /\ UNCHANGED <<recipeVars, fileVars, start>>
        /\ pc' \in {"done", "error"} /\ loaded' \in Programs
        /\ mishaps \subseteq mishaps' /\ mishaps' \subseteq MayMisfire
    BY <1>8 DEF Load
  <2> QED
    BY <1>8, <2>1, <2>2 DEF Load, Current
<1>9. CASE ReturnFalse
  <2>1. result' \in BOOLEAN /\ recipeParseResult' \in BOOLEAN
    BY <1>9 DEF ReturnFalse
  <2>2. /\ UNCHANGED <<recipeVars, fileVars, start>>
        /\ pc' \in {"done", "error"} /\ loaded' \in Programs
        /\ mishaps \subseteq mishaps' /\ mishaps' \subseteq MayMisfire
    BY <1>9 DEF ReturnFalse
  <2> QED
    BY <1>9, <2>1, <2>2 DEF ReturnFalse, Current
<1>10. CASE Return
  BY <1>10 DEF Return, Nothing, Spellings, Current
<1>11. CASE Publish
  BY <1>11 DEF Publish, Current
<1>12. CASE CleanLocal
  BY <1>12 DEF CleanLocal, Current
<1>13. CASE OperatorActs
  BY <1>13 DEF OperatorActs, Current
<1>14. CASE RecipeDecode \/ ParseTestPrgm \/ NothingToLoad
  <2>1. /\ pc \in Before /\ pc' \in {"idle", "parse"}
        /\ UNCHANGED <<tpPath, currentProgName, resultVars, fileVars, loaded,
                       start, mishaps>>
    BY <1>14 DEF RecipeDecode, ParseTestPrgm, ParseTestPrgmLoader,
       ParseTestPrgmCopierLoaderScript, ParseStrategies, NothingToLoad
  <2>2. dload' \in Spellings /\ rload' \in Spellings
    BY <1>14 DEF RecipeDecode, ParseTestPrgm, ParseTestPrgmLoader, Spellings,
       ParseTestPrgmCopierLoaderScript, ParseStrategies, NothingToLoad
  <2>3. ControlInv'
    BY <2>1
  <2>4. DamageInv'
    BY <2>1
  <2> QED
    BY <2>1, <2>2, <2>3, <2>4
<1>15. CASE UNCHANGED vars
  BY <1>15 DEF vars, Current
<1> QED
  BY <1>1, <1>2, <1>3, <1>4, <1>5, <1>6, <1>7, <1>8, <1>9, <1>10, <1>11, <1>12,
     <1>13, <1>14, <1>15 DEF Next, Step

LEMMA TypeInit == Init => TypeOK /\ DamageInv /\ ControlInv
<1> SUFFICES ASSUME Init PROVE TypeOK /\ DamageInv /\ ControlInv
  OBVIOUS
<1> USE ValuesAssumption DEF Init, Files, Packages, Programs
<1>1. start \in [remote : Files, local : Packages, loaded : Programs]
  BY DEF Nothing
<1>2. TypeOK
  BY <1>1 DEF TypeOK, Pcs, Before, Spellings
<1> QED
  BY <1>2 DEF Before, DamageInv, ControlInv

(* Every variable stays in its type, whatever goes wrong. *)
THEOREM TypeCorrect == Spec => []TypeOK
<1> DEFINE Inv == TypeOK /\ DamageInv /\ ControlInv
<1>1. Inv /\ [Next]_vars => Inv'
  BY TypeStep
<1> QED
  BY <1>1, TypeInit, PTL DEF Spec

--------------------------------------------------------------------------------
(* What holds of every recipe, packages in subfolders included. *)
KeptWhateverFails == FailedFetchKeepsProgram /\ SuccessMeansRequested
SafeInv == TypeOK /\ DamageInv /\ ControlInv /\ MemoryInv /\ KeptWhateverFails

(* Every step keeps it, one action at a time. *)
LEMMA SafeStep ==
  ASSUME SafeInv, [Next]_vars
  PROVE  SafeInv'
<1> USE ValuesAssumption
    DEF SafeInv, KeptWhateverFails, Goto, Before, Misfires, recipeVars, resultVars,
        fileVars
<1>0. /\ TypeOK' /\ DamageInv' /\ ControlInv'
      /\ CurrentIsFunction /\ CurrentIsFunction'
  BY TypeStep, FunctionFacts
<1> USE DEF TypeOK, DamageInv, ControlInv, MemoryInv, FailedFetchKeepsProgram,
        SuccessMeansRequested, Situation, NameOf, Files, Packages, Programs,
        CurrentIsFunction, Functions
<1>1. CASE ExecuteRecipeReload
  <2>0. /\ Current' = Current
        /\ start' = Situation /\ UNCHANGED <<fileVars, loaded, tpPath>>
        /\ pc' = FirstStep(Current', NameOf(loaded) = "requested")
        /\ mishaps' = {} => local # Damaged
    BY <1>1 DEF ExecuteRecipeReload, Current
  <2>1. MemoryInv'
    BY <1>0, <1>1 DEF ExecuteRecipeReload, FirstStep
  <2>2. KeptWhateverFails'
    BY <2>0 DEF FirstStep
  <2> QED
    BY <1>0, <2>1, <2>2
<1>2. CASE Download
  <2>0. /\ Current' = Current /\ start' = start
    BY <1>2 DEF Download, Current
  <2>1. MemoryInv'
    BY <1>0, <1>2, <2>0 DEF Download, AfterDownload
  <2>2. KeptWhateverFails'
    BY <1>0, <1>2, <2>0 DEF Download, AfterDownload
  <2> QED
    BY <1>0, <2>1, <2>2
<1>3. CASE CopyFile
  <2>0. /\ Current' = Current /\ start' = start
    BY <1>3 DEF CopyFile, Current
  <2>1. MemoryInv'
    BY <1>0, <1>3, <2>0 DEF CopyFile
  <2>2. KeptWhateverFails'
    BY <1>0, <1>3, <2>0 DEF CopyFile
  <2> QED
    BY <1>0, <2>1, <2>2
<1>4. CASE UnpackRemote
  <2>0. /\ Current' = Current /\ start' = start
    BY <1>4 DEF UnpackRemote, Current, Unpack
  <2>1. MemoryInv'
    BY <1>0, <1>4, <2>0 DEF UnpackRemote, Unpack, AfterDownload
  <2>2. KeptWhateverFails'
    BY <1>0, <1>4, <2>0 DEF UnpackRemote, Unpack, AfterDownload
  <2> QED
    BY <1>0, <2>1, <2>2
<1>5. CASE UnpackLocal
  <2>0. /\ Current' = Current /\ start' = start
    BY <1>5 DEF UnpackLocal, Current, Unpack
  <2>1. MemoryInv'
    BY <1>0, <1>5, <2>0 DEF UnpackLocal, Unpack, AfterUnpack
  <2>2. KeptWhateverFails'
    BY <1>0, <1>5, <2>0 DEF UnpackLocal, Unpack, AfterUnpack
  <2> QED
    BY <1>0, <2>1, <2>2
<1>6. CASE Keep
  <2>0. /\ Current' = Current /\ start' = start
    BY <1>6 DEF Keep, Current
  <2>1. MemoryInv'
    BY <1>0, <1>6, <2>0 DEF Keep
  <2>2. KeptWhateverFails'
    BY <1>0, <1>6, <2>0 DEF Keep
  <2> QED
    BY <1>0, <2>1, <2>2
<1>7. CASE Unload
  <2>0. /\ Current' = Current /\ start' = start
    BY <1>7 DEF Unload, Current
  <2>1. MemoryInv'
    BY <1>0, <1>7, <2>0 DEF Unload
  <2>2. KeptWhateverFails'
    BY <1>0, <1>7, <2>0 DEF Unload
  <2> QED
    BY <1>0, <2>1, <2>2
<1>8. CASE Load
  <2>0. /\ Current' = Current /\ start' = start
    BY <1>8 DEF Load, Current
  <2>4. /\ pc' \in {"done", "error"} /\ mishaps \subseteq mishaps'
        /\ UNCHANGED <<recipeVars, fileVars, start>>
        /\ pc' = "error" => result' /\ recipeParseResult'
        /\ pc' = "error" => "operator" \in mishaps' \/ "tester" \in mishaps'
    BY <1>0, <1>8 DEF Load
  <2>1. MemoryInv'
    BY <1>8, <2>4 DEF Load
  <2>2. KeptWhateverFails'
    BY <1>0, <1>8, <2>0 DEF Load
  <2> QED
    BY <1>0, <2>1, <2>2
<1>9. CASE ReturnFalse
  <2>0. /\ Current' = Current /\ start' = start
    BY <1>9 DEF ReturnFalse, Current
  <2>1. MemoryInv'
    BY <1>0, <1>9, <2>0 DEF ReturnFalse
  <2>2. KeptWhateverFails'
    BY <1>0, <1>9, <2>0 DEF ReturnFalse
  <2> QED
    BY <1>0, <2>1, <2>2
<1>10. CASE Return
  <2>1. MemoryInv'
    BY <1>0, <1>10 DEF Return, Nothing, Spellings
  <2>2. KeptWhateverFails'
    BY <1>0, <1>10 DEF Return, Nothing, Spellings
  <2> QED
    BY <1>0, <2>1, <2>2
<1>11. CASE Publish
  <2>0. /\ Current' = Current /\ start' = start
    BY <1>11 DEF Publish, Current
  <2>1. MemoryInv'
    BY <1>0, <1>11, <2>0 DEF Publish
  <2>2. KeptWhateverFails'
    BY <1>0, <1>11, <2>0 DEF Publish
  <2> QED
    BY <1>0, <2>1, <2>2
<1>12. CASE CleanLocal
  <2>0. /\ Current' = Current /\ start' = start
    BY <1>12 DEF CleanLocal, Current
  <2>1. MemoryInv'
    BY <1>0, <1>12, <2>0 DEF CleanLocal
  <2>2. KeptWhateverFails'
    BY <1>0, <1>12, <2>0 DEF CleanLocal
  <2> QED
    BY <1>0, <2>1, <2>2
<1>13. CASE OperatorActs
  <2>0. /\ Current' = Current /\ start' = start
    BY <1>13 DEF OperatorActs, Current
  <2>1. MemoryInv'
    BY <1>0, <1>13, <2>0 DEF OperatorActs
  <2>2. KeptWhateverFails'
    BY <1>0, <1>13, <2>0 DEF OperatorActs
  <2> QED
    BY <1>0, <2>1, <2>2
<1>14. CASE RecipeDecode \/ ParseTestPrgm \/ NothingToLoad
  <2>0. pc \in Before /\ pc' \in Before
    BY <1>14 DEF RecipeDecode, ParseTestPrgm, ParseTestPrgmLoader,
       ParseTestPrgmCopierLoaderScript, ParseStrategies, NothingToLoad
  <2>1. UNCHANGED <<resultVars, mishaps>>
    BY <1>14 DEF RecipeDecode, ParseTestPrgm, ParseTestPrgmLoader,
       ParseTestPrgmCopierLoaderScript, ParseStrategies, NothingToLoad
  <2> QED
    BY <1>0, <2>0, <2>1
<1>15. CASE UNCHANGED vars
  <2>1. Current' = Current
    BY <1>15 DEF vars, Current
  <2> QED
    BY <1>0, <1>15, <2>1 DEF vars
<1> QED
  BY <1>1, <1>2, <1>3, <1>4, <1>5, <1>6, <1>7, <1>8, <1>9, <1>10, <1>11, <1>12,
     <1>13, <1>14, <1>15 DEF Next, Step

LEMMA SafeStart == Init => SafeInv
  BY TypeInit DEF Init, Before, SafeInv, MemoryInv, KeptWhateverFails,
     FailedFetchKeepsProgram, SuccessMeansRequested

LEMMA AlwaysSafe == Spec => []SafeInv
<1>1. SafeInv /\ [Next]_vars => SafeInv'
  BY SafeStep
<1> QED
  BY <1>1, SafeStart, PTL DEF Spec

(* A failed fetch never costs the running program. *)
THEOREM RunningProgramSurvives == Spec => []FailedFetchKeepsProgram
<1>1. SafeInv => FailedFetchKeepsProgram
  BY DEF SafeInv, KeptWhateverFails
<1> QED
  BY <1>1, AlwaysSafe, PTL

(* A recipe that goes on runs the program it named. *)
THEOREM RequestedProgramRuns == Spec => []SuccessMeansRequested
<1>1. SafeInv => SuccessMeansRequested
  BY DEF SafeInv, KeptWhateverFails
<1> QED
  BY <1>1, AlwaysSafe, PTL

--------------------------------------------------------------------------------
(* Every step of a recipe whose package lies directly on the server keeps it. *)
LEMMA TableStep ==
  ASSUME tpPath # "nested", SafeInv, FallbackInv, TruthTable, [Next]_vars
  PROVE  FallbackInv' /\ TruthTable'
<1> USE ValuesAssumption
    DEF SafeInv, Goto, Before, Misfires, recipeVars, resultVars, fileVars
<1>0. /\ TypeOK' /\ DamageInv' /\ ControlInv'
      /\ CurrentIsFunction /\ CurrentIsFunction' /\ PlacesByRow /\ PlacesByRow'
  BY TypeStep, FunctionFacts, Places, PlacesNext
<1> USE DEF TypeOK, DamageInv, ControlInv, MemoryInv, FallbackInv, TruthTable,
        Situation, NameOf, Files, Packages, Programs, Available, PlacesByRow,
        CurrentIsFunction, Functions
<1>1. CASE ExecuteRecipeReload
  <2>0. /\ Current' = Current
        /\ start' = Situation /\ UNCHANGED <<fileVars, loaded, tpPath>>
        /\ pc' = FirstStep(Current', NameOf(loaded) = "requested")
        /\ mishaps' = {} => local # Damaged
    BY <1>1 DEF ExecuteRecipeReload, Current
  <2>1. FallbackInv'
    BY <1>0, <2>0 DEF FirstStep
  <2>2. TruthTable'
    BY <2>0 DEF FirstStep
  <2> QED
    BY <1>0, <2>1, <2>2
<1>2. CASE Download
  <2>0. /\ Current' = Current /\ start' = start
        /\ \A p \in {"remote", "local", "loaded"} : Available(p)' <=> Available(p)
    BY <1>2 DEF Download, Current
  <2>1. FallbackInv'
    BY <1>0, <1>2, <2>0 DEF Download, AfterDownload
  <2>2. TruthTable'
    BY <1>0, <1>2, <2>0 DEF Download, AfterDownload
  <2> QED
    BY <1>0, <2>1, <2>2
<1>3. CASE CopyFile
  <2>0. /\ Current' = Current /\ start' = start
        /\ \A p \in {"remote", "local", "loaded"} : Available(p)' <=> Available(p)
    BY <1>3 DEF CopyFile, Current
  <2>1. FallbackInv'
    BY <1>0, <1>3, <2>0 DEF CopyFile
  <2>2. TruthTable'
    BY <1>0, <1>3, <2>0 DEF CopyFile
  <2> QED
    BY <1>0, <2>1, <2>2
<1>4. CASE UnpackRemote
  <2>0. /\ Current' = Current /\ start' = start
        /\ \A p \in {"remote", "local", "loaded"} : Available(p)' <=> Available(p)
    BY <1>4 DEF UnpackRemote, Current, Unpack
  <2>1. FallbackInv'
    BY <1>0, <1>4, <2>0 DEF UnpackRemote, Unpack, AfterDownload
  <2>2. TruthTable'
    BY <1>0, <1>4, <2>0 DEF UnpackRemote, Unpack, AfterDownload
  <2> QED
    BY <1>0, <2>1, <2>2
<1>5. CASE UnpackLocal
  <2>0. /\ Current' = Current /\ start' = start
        /\ \A p \in {"remote", "local", "loaded"} : Available(p)' <=> Available(p)
    BY <1>5 DEF UnpackLocal, Current, Unpack
  <2>1. FallbackInv'
    BY <1>0, <1>5, <2>0 DEF UnpackLocal, Unpack, AfterUnpack
  <2>2. TruthTable'
    BY <1>0, <1>5, <2>0 DEF UnpackLocal, Unpack, AfterUnpack
  <2> QED
    BY <1>0, <2>1, <2>2
<1>6. CASE Keep
  <2>0. /\ Current' = Current /\ start' = start
        /\ \A p \in {"remote", "local", "loaded"} : Available(p)' <=> Available(p)
    BY <1>6 DEF Keep, Current
  <2>1. FallbackInv'
    BY <1>0, <1>6, <2>0 DEF Keep
  <2>2. TruthTable'
    BY <1>0, <1>6, <2>0 DEF Keep
  <2> QED
    BY <1>0, <2>1, <2>2
<1>7. CASE Unload
  <2>0. /\ Current' = Current /\ start' = start
        /\ \A p \in {"remote", "local", "loaded"} : Available(p)' <=> Available(p)
    BY <1>7 DEF Unload, Current
  <2>1. FallbackInv'
    BY <1>0, <1>7, <2>0 DEF Unload
  <2>2. TruthTable'
    BY <1>0, <1>7, <2>0 DEF Unload
  <2> QED
    BY <1>0, <2>1, <2>2
<1>8. CASE Load
  <2>0. /\ Current' = Current /\ start' = start
        /\ \A p \in {"remote", "local", "loaded"} : Available(p)' <=> Available(p)
    BY <1>8 DEF Load, Current
  <2>1. FallbackInv'
    BY <1>0, <1>8, <2>0 DEF Load
  <2>2. TruthTable'
    BY <1>0, <1>8, <2>0 DEF Load
  <2> QED
    BY <1>0, <2>1, <2>2
<1>9. CASE ReturnFalse
  <2>0. /\ Current' = Current /\ start' = start
        /\ \A p \in {"remote", "local", "loaded"} : Available(p)' <=> Available(p)
    BY <1>9 DEF ReturnFalse, Current
  <2>1. FallbackInv'
    BY <1>0, <1>9, <2>0 DEF ReturnFalse
  <2>2. TruthTable'
    BY <1>0, <1>9, <2>0 DEF ReturnFalse
  <2> QED
    BY <1>0, <2>1, <2>2
<1>10. CASE Return
  <2>1. FallbackInv'
    BY <1>0, <1>10 DEF Return, Nothing, Spellings
  <2>2. TruthTable'
    BY <1>0, <1>10 DEF Return, Nothing, Spellings
  <2> QED
    BY <1>0, <2>1, <2>2
<1>11. CASE Publish
  <2>0. /\ Current' = Current /\ start' = start
        /\ \A p \in {"remote", "local", "loaded"} : Available(p)' <=> Available(p)
    BY <1>11 DEF Publish, Current
  <2>1. FallbackInv'
    BY <1>0, <1>11, <2>0 DEF Publish
  <2>2. TruthTable'
    BY <1>0, <1>11, <2>0 DEF Publish
  <2> QED
    BY <1>0, <2>1, <2>2
<1>12. CASE CleanLocal
  <2>0. /\ Current' = Current /\ start' = start
        /\ \A p \in {"remote", "local", "loaded"} : Available(p)' <=> Available(p)
    BY <1>12 DEF CleanLocal, Current
  <2>1. FallbackInv'
    BY <1>0, <1>12, <2>0 DEF CleanLocal
  <2>2. TruthTable'
    BY <1>0, <1>12, <2>0 DEF CleanLocal
  <2> QED
    BY <1>0, <2>1, <2>2
<1>13. CASE OperatorActs
  <2>0. /\ Current' = Current /\ start' = start
        /\ \A p \in {"remote", "local", "loaded"} : Available(p)' <=> Available(p)
    BY <1>13 DEF OperatorActs, Current
  <2>1. FallbackInv'
    BY <1>0, <1>13, <2>0 DEF OperatorActs
  <2>2. TruthTable'
    BY <1>0, <1>13, <2>0 DEF OperatorActs
  <2> QED
    BY <1>0, <2>1, <2>2
<1>14. CASE RecipeDecode \/ ParseTestPrgm \/ NothingToLoad
  <2>0. pc \in Before /\ pc' \in Before
    BY <1>14 DEF RecipeDecode, ParseTestPrgm, ParseTestPrgmLoader,
       ParseTestPrgmCopierLoaderScript, ParseStrategies, NothingToLoad
  <2> QED
    BY <1>0, <2>0
<1>15. CASE UNCHANGED vars
  <2>1. Current' = Current
    BY <1>15 DEF vars, Current
  <2> QED
    BY <1>0, <1>15, <2>1 DEF vars
<1> QED
  BY <1>1, <1>2, <1>3, <1>4, <1>5, <1>6, <1>7, <1>8, <1>9, <1>10, <1>11, <1>12,
     <1>13, <1>14, <1>15 DEF Next, Step

(* Where the package lies does not change while a recipe runs. *)
TableInv == SafeInv /\ (tpPath # "nested" => FallbackInv /\ TruthTable)

LEMMA TableInvStep ==
  ASSUME TableInv, [Next]_vars
  PROVE  TableInv'
<1>1. tpPath' = tpPath
  BY DEF Next, Step, vars, recipeVars, RecipeDecode, ParseTestPrgm,
     ParseTestPrgmLoader, ParseTestPrgmCopierLoaderScript, ParseStrategies,
     NothingToLoad, ExecuteRecipeReload, Download, CopyFile, UnpackRemote,
     UnpackLocal, Keep, Unload, Load, ReturnFalse, Return, Publish, CleanLocal,
     OperatorActs
<1>2. SafeInv'
  BY SafeStep DEF TableInv
<1>3. tpPath # "nested" => FallbackInv' /\ TruthTable'
  BY TableStep DEF TableInv
<1> QED
  BY <1>1, <1>2, <1>3 DEF TableInv

LEMMA AlwaysTable == Spec => []TableInv
<1>1. Init => TableInv
  BY SafeStart DEF TableInv, Init, Before, FallbackInv, TruthTable
<1>2. TableInv /\ [Next]_vars => TableInv'
  BY TableInvStep
<1> QED
  BY <1>1, <1>2, PTL DEF Spec

(* Without mishaps every recipe whose package lies directly on the server     *)
(* follows the truth table, whatever earlier recipes left on disk.            *)
THEOREM TruthTableFollowed == Spec => [](tpPath # "nested" => TruthTable)
<1>1. TableInv => (tpPath # "nested" => TruthTable)
  BY DEF TableInv
<1> QED
  BY <1>1, AlwaysTable, PTL

(* The whole invariant, if no recipe's package lies deeper. *)
THEOREM ReloadInvariant ==
  ASSUME "nested" \notin Paths PROVE Spec => []ReloadInv
<1>1. TableInv => ReloadInv
  BY DEF TableInv, SafeInv, KeptWhateverFails, ReloadInv, TypeOK
<1> QED
  BY <1>1, AlwaysTable, PTL
--------------------------------------------------------------------------------
(* How many steps a recipe can still take.  The functions whose row puts     *)
(* what is here already before the server's package unpack it first; the     *)
(* others fall back on it.                                                   *)
LocalFirst == Current \in {"neverForce", "neverAttempt", "neverNever"}
Rank ==
  IF pc = "unpackLocal" THEN IF LocalFirst THEN 9 ELSE 5
  ELSE [idle |-> 0, parse |-> 10, download |-> 8, copy |-> 7, unpackRemote |-> 6,
        keep |-> 4, unload |-> 4, load |-> 3, error |-> 2, done |-> 1][pc]

(* A recipe's next step brings it nearer to its end; nobody sets it back.     *)
StepAdvances == /\ Step => Rank' < Rank
                /\ pc # "idle" => Rank' <= Rank
Advances == [][StepAdvances]_vars

LEMMA RankIsNatural == TypeOK => Rank \in 0 .. 10
  BY DEF TypeOK, Pcs, Before, Rank

(* Each step of a recipe lowers its rank. *)
LEMMA StepLowersRank ==
  ASSUME TypeOK, ControlInv, Step PROVE Rank' < Rank
<1> USE FunctionFacts
    DEF TypeOK, ControlInv, Goto, Rank, LocalFirst, CurrentIsFunction, Functions,
        Pcs, Before
<1>1. CASE ExecuteRecipeReload
  <2>1. pc = "parse" /\ pc' \in {"download", "keep", "unpackLocal"}
    BY <1>1 DEF ExecuteRecipeReload, FirstStep
  <2> QED
    BY <2>1
<1>2. CASE NothingToLoad \/ Keep \/ Unload \/ Load \/ ReturnFalse \/ Return
  <2>1. \/ pc = "parse" /\ pc' = "idle"
        \/ pc = "keep" /\ pc' \in {"done", "error"}
        \/ pc = "unload" /\ pc' \in {"load", "error"}
        \/ pc = "load" /\ pc' \in {"done", "error"}
        \/ pc = "error" /\ pc' = "done"
        \/ pc = "done" /\ pc' = "idle"
    BY <1>2 DEF NothingToLoad, Keep, Unload, Load, ReturnFalse, Return
  <2> QED
    BY <2>1
<1>3. CASE Download
  <2>1. Current' = Current
    BY <1>3 DEF Download, recipeVars, Current
  <2> QED
    BY <1>3, <2>1 DEF Download, AfterDownload
<1>4. CASE CopyFile
  BY <1>4 DEF CopyFile
<1>5. CASE UnpackRemote
  <2>1. Current' = Current
    BY <1>5 DEF UnpackRemote, recipeVars, Current
  <2> QED
    BY <1>5, <2>1 DEF UnpackRemote, Unpack, AfterDownload
<1>6. CASE UnpackLocal
  <2>1. Current' = Current
    BY <1>6 DEF UnpackLocal, recipeVars, Current
  <2> QED
    BY <1>6, <2>1 DEF UnpackLocal, Unpack, AfterUnpack
<1> QED
  BY <1>1, <1>2, <1>3, <1>4, <1>5, <1>6 DEF Step

(* Nobody else raises it before the next recipe. *)
LEMMA RankNeverRises ==
  ASSUME TypeOK, DamageInv, ControlInv, [Next]_vars, pc # "idle"
  PROVE  Rank' <= Rank
<1>1. Rank \in Nat
  BY RankIsNatural
<1>2. CASE Step
  <2>1. Rank' < Rank
    BY <1>2, StepLowersRank
  <2>2. TypeOK'
    BY TypeStep
  <2>3. (TypeOK => Rank \in 0 .. 10)'
    BY RankIsNatural, PTL
  <2> QED
    BY <1>1, <2>1, <2>2, <2>3
<1>3. CASE ParseTestPrgm
  <2>1. pc = "parse" /\ pc' = "parse"
    BY <1>3 DEF ParseTestPrgm, ParseTestPrgmLoader,
       ParseTestPrgmCopierLoaderScript, ParseStrategies
  <2> QED
    BY <2>1 DEF Rank
<1>4. CASE Publish \/ CleanLocal \/ OperatorActs \/ UNCHANGED vars
  <2>1. pc' = pc /\ UNCHANGED recipeVars
    BY <1>4 DEF Publish, CleanLocal, OperatorActs, vars
  <2>2. Rank' = Rank
    BY <2>1 DEF Rank, LocalFirst, Current, recipeVars
  <2> QED
    BY <1>1, <2>2
<1> QED
  BY <1>2, <1>3, <1>4 DEF Next, RecipeDecode

(* The fallbacks come to an end: a recipe that the program has begun to      *)
(* carry out is over after at most ten steps of its own, whatever fails.      *)
THEOREM RecipeAdvances == Spec => [](Rank \in 0 .. 10) /\ Advances
<1> DEFINE Inv == TypeOK /\ DamageInv /\ ControlInv
<1>1. Inv /\ [Next]_vars => Inv'
  BY TypeStep
<1>2. Inv /\ [Next]_vars => [StepAdvances]_vars
  BY StepLowersRank, RankNeverRises DEF StepAdvances
<1>3. Inv => Rank \in 0 .. 10
  BY RankIsNatural
<1> QED
  BY <1>1, <1>2, <1>3, TypeInit, PTL DEF Spec, Advances

================================================================================
