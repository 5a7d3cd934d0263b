------------------------------ MODULE ProgramCalls ------------------------------
(***************************************************************************)
(* What a recipe is promised about a load or an unload it asks the tester  *)
(* for: one call at a time, which comes back after the tester has answered *)
(* it, with a failed load already recorded, or because the tester went     *)
(* away under it.  Nothing is said of threads, mutexes or events: how the  *)
(* promise is kept is ProgramNotification's subject, and ReloadStrategy    *)
(* and RecipeParams rely on it when they take a call as one action.        *)
(***************************************************************************)

VARIABLES
  call,    \* the call in progress
  answer,  \* what has become of it
  result,  \* m_recipeParseResult: no failure recorded for this recipe
  up,      \* the tester is there
  program  \* the tester has a program loaded

vars == <<call, answer, result, up, program>>

Calls == {"load", "unload"}

(* loadProgram and unloadProgram pass the test of EVXA::OK. *)
Call(c) ==
  /\ call = "none" /\ up /\ (c = "unload" => program)
  /\ call' = c
  /\ UNCHANGED <<answer, result, up, program>>

(* The tester deals with the call. *)
Answer ==
  /\ call # "none" /\ answer = "none" /\ up
  /\ \/ answer' = "done" /\ program' = (call = "load")
     \/ call = "load" /\ answer' = "failed" /\ program' = FALSE
  /\ UNCHANGED <<call, result, up>>

(* LOAD_FAILED or ABORT_LOAD reaches m_recipeParseResult.  An answer that is  *)
(* lost to a restart may have been a failure already announced.              *)
RecordFailure ==
  /\ answer \in {"failed", "lost"}
  /\ result' = FALSE
  /\ UNCHANGED <<call, answer, up, program>>

(* waitForNotification returns to the recipe. *)
Return ==
  /\ call # "none"
  /\ \/ answer \in {"done", "lost"}
     \/ answer = "failed" /\ ~result
  /\ call' = "none" /\ answer' = "none"
  /\ UNCHANGED <<result, up, program>>

(* resetRecipeVars: a recipe, or the question whether it is one, comes in. *)
NextRecipe ==
  /\ call = "none"
  /\ result' = TRUE
  /\ UNCHANGED <<call, answer, up, program>>

(* The tester restarts, and takes an unanswered call with it. *)
Restart ==
  /\ up /\ up' = FALSE /\ program' = FALSE
  /\ answer' = IF call = "none" THEN "none" ELSE "lost"
  /\ UNCHANGED <<call, result>>

(* The handler connects to it again, with no call left over. *)
Reconnect ==
  /\ ~up /\ call = "none"
  /\ up' = TRUE
  /\ UNCHANGED <<call, answer, result, program>>

Init ==
  /\ call = "none" /\ answer = "none" /\ result = TRUE
  /\ up = TRUE /\ program \in BOOLEAN

Next == \/ \E c \in Calls : Call(c)
        \/ Answer \/ RecordFailure \/ Return \/ NextRecipe \/ Restart \/ Reconnect

Spec == Init /\ [][Next]_vars
================================================================================
