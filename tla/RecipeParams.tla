----------------------------- MODULE RecipeParams -----------------------------
(***************************************************************************)
(* What a recipe's STDF fields turn into.  The command thread stores them  *)
(* in m_MIRArgs, m_SDRArgs and m_GDR, has the program loaded, and then     *)
(* writes MIR and SDR fields into the tester's lot information, one call   *)
(* after the other.  When a program is loaded the state thread reads the   *)
(* same structures, without a lock: it passes some fields to the FAmodule  *)
(* and makes up two that the recipe leaves open.                           *)
(*                                                                         *)
(* A value is known by where it comes from, seen from the recipe in        *)
(* flight.  The fields the code treats in a way of their own are modelled  *)
(* one by one; LotId stands for the other MIR fields, HandTyp for the      *)
(* other SDR fields, GuiNam for the GDR fields that are passed on as they  *)
(* are.  GDRs of other names are kept in lists, one for each name.         *)
(***************************************************************************)
EXTENDS Naturals, FiniteSets, Sequences

CONSTANTS
  OperatorLoads,  \* may the operator load programs by hand?
  CustomNames,    \* names of custom GDRs, the empty one included
  MaxFields,      \* bound: the number of fields one recipe names
  MaxCustoms      \* bound: the same for a recipe of custom GDRs only

ASSUME OperatorLoadsAssumption == OperatorLoads \in BOOLEAN
ASSUME BoundsAssumption == MaxFields \in Nat /\ MaxCustoms \in Nat

VARIABLES
  pc,        \* command thread: RecipeDecode
  args,      \* m_MIRArgs, m_SDRArgs and m_GDR but for its lists
  customs,   \* m_GDR.customs
  todo,      \* fields sendMIRParams and sendSDRParams have yet to send
  lot,       \* the tester's lot information
  fa,        \* what updateSTDFAfterProgLoad sent to the FAmodule last
  faCustoms, \* the lists of this recipe it sent to the FAmodule last
  owed,      \* the tester has yet to announce the load the recipe asked for
  pcState,   \* state thread: updateSTDFAfterProgLoad
  given,     \* history: what this recipe says of each field
  strict,    \* history: it gives TRF-XTRF with required="strict"
  named,     \* history: the names of its custom GDRs, one for each field
  reloaded   \* history: this recipe had a program loaded

cmdVars == <<pc, todo, owed>>
historyVars == <<given, strict, named, reloaded>>
listVars == <<customs, faCustoms, named>>
vars == <<cmdVars, args, customs, lot, fa, faCustoms, pcState, historyVars>>

(* The order in which sendMIRParams, then sendSDRParams, send the fields. *)
Rank == [LotId |-> 1, FlowId |-> 2, SerlNum |-> 3, ExecTyp |-> 4,
         SpecNam |-> 5, HandTyp |-> 6]
LotFields == DOMAIN Rank
FaFields == {"HandTyp", "GuiNam", "TrfXtrf"}
Fields == LotFields \union FaFields

(* "this": from this recipe.  "derived": made up for it by the handler.      *)
(* "stale": from an earlier recipe's structures.  "before": was there.       *)
Origins == {"none", "this", "derived", "stale", "before"}
Overrides == {"force", "onEmpty"}   \* any other override attribute is "force"
Unset == [value |-> "none", override |-> "force"]

(* A field of a custom GDR is known by its number in the recipe. *)
List == [name : CustomNames, fields : Seq(Nat)]

FieldsOK ==
  /\ pc \in {"idle", "parse", "wait", "flow", "spec", "send", "done"}
  /\ args \in [Fields -> [value : Origins \ {"before"}, override : Overrides]]
  /\ todo \subseteq LotFields
  /\ lot \in [LotFields -> Origins] /\ fa \in [FaFields -> Origins]
  /\ owed \in BOOLEAN /\ reloaded \in BOOLEAN
  /\ pcState \in {"poll", "update", "serial", "customs", "complete"}
  /\ given \in [Fields -> Overrides \union {"none"}] /\ strict \in BOOLEAN
ListsOK == /\ customs \in Seq(List) /\ faCustoms \in Seq(List)
           /\ named \in Seq(CustomNames)
TypeOK == FieldsOK /\ ListsOK

Init ==
  /\ pc = "idle" /\ args = [f \in Fields |-> Unset] /\ todo = {}
  /\ lot \in [LotFields -> {"none", "before"}]
  /\ fa = [f \in FaFields |-> "none"]
  /\ owed = FALSE /\ pcState = "poll"
  /\ given = [f \in Fields |-> "none"] /\ strict = FALSE /\ reloaded = FALSE
  /\ customs = << >> /\ faCustoms = << >> /\ named = << >>

--------------------------------------------------------------------------------
(* The command thread.                                                       *)

(* clearAllParams: CMIRArgs::clear has no line for FlowId.  Seeded faults:   *)
(* nothing cleared; the SDR structure not cleared.                           *)
Aged(o) == IF o = "none" THEN "none" ELSE "before"
Older(p) == IF p.value = "none" THEN p ELSE [p EXCEPT !.value = "stale"]
ClearedNothing == [f \in Fields |-> [args[f] EXCEPT !.value = Aged(@)]]
ClearedButSDR == [f \in Fields |->
  IF f \in {"FlowId", "HandTyp"} THEN Older(args[f]) ELSE Unset]
Cleared == [f \in Fields |-> IF f = "FlowId" THEN Older(args[f]) ELSE Unset]

(* RecipeDecodeAvailable resets the recipe variables, parameters included. *)
RecipeDecodeAvailable ==
  /\ pc = "idle"
  /\ args' = Cleared /\ customs' = << >>
  /\ UNCHANGED <<cmdVars, lot, fa, faCustoms, pcState, historyVars>>

(* RecipeDecode and parseXML up to the root tag, which may be unknown. *)
RecipeDecode ==
  /\ pc = "idle" /\ pc' \in {"parse", "idle"}
  /\ args' = Cleared /\ customs' = << >> /\ faCustoms' = << >>
  /\ lot' = [f \in LotFields |-> Aged(lot[f])]
  /\ fa' = [f \in FaFields |-> Aged(fa[f])]
  /\ given' = [f \in Fields |-> "none"] /\ strict' = FALSE
  /\ named' = << >> /\ reloaded' = FALSE
  /\ UNCHANGED <<todo, owed, pcState>>

(* Of other fields the handler passes the attribute on without a look at it. *)
OverridesOf(f) == IF f \in LotFields THEN Overrides ELSE {"force"}

(* parseSTDF: the STDFfields of the recipe's records, in any order and as     *)
(* often as it has them.  The text of a field may be empty.  No record ends   *)
(* the loop: parseGDR fails only without a tester.  What a field's required    *)
(* attribute says is passed on, never looked at: only the history has it.      *)
Named == {f \in Fields : args[f].value = "this" \/ args[f].override = "onEmpty"}
ParseField(f) ==
  /\ pc = "parse"
  /\ Cardinality(Named \union {f}) + Len(named) <= MaxFields
  /\ \E v \in {"none", "this"}, o \in OverridesOf(f) :
       /\ args' = [args EXCEPT ![f] = [value |-> v, override |-> o]]
       /\ given' = [given EXCEPT ![f] = IF v = "none" THEN "none" ELSE o]
       /\ strict' \in IF f = "TrfXtrf" THEN {v = "this", FALSE} ELSE {strict}
  /\ UNCHANGED <<cmdVars, lot, fa, pcState, reloaded, listVars>>

(* addCustom: the first list of that name gets the field; if there is none, a  *)
(* new one.  Seeded fault: the first list of all is taken for none.           *)
Found(name) == {i \in DOMAIN customs :
  customs[i].name = name /\ \A j \in 1..(i - 1) : customs[j].name # name}
WithNew(name, k) == Append(customs, [name |-> name, fields |-> <<k>>])
WithField(name, k) == [i \in DOMAIN customs |->
  IF i \in Found(name) THEN [customs[i] EXCEPT !.fields = Append(@, k)]
                       ELSE customs[i]]
AddCustomOffByOne(name, k) ==
  IF Found(name) \subseteq {1} THEN WithNew(name, k) ELSE WithField(name, k)
AddCustom(name, k) ==
  IF Found(name) = {} THEN WithNew(name, k) ELSE WithField(name, k)

(* A GEN_DATA field of a GDR that is not one of the handler's own.  parseGDR   *)
(* takes the last attribute's value for the name if that is customName, and   *)
(* else the empty name: a GDR that has it elsewhere is one without a name.    *)
ParseCustom(name) ==
  /\ pc = "parse"
  /\ \/ Cardinality(Named) + Len(named) < MaxFields
     \/ Named = {} /\ Len(named) < MaxCustoms
  /\ customs' = AddCustom(name, Len(named) + 1)
  /\ named' = Append(named, name)
  /\ UNCHANGED <<cmdVars, args, lot, fa, faCustoms, pcState, given, strict,
                 reloaded>>

ParseMIR == \E f \in {"LotId", "FlowId", "SerlNum", "SpecNam"} : ParseField(f)
ParseSDR == ParseField("HandTyp")
ParseGDR == \/ \E f \in {"GuiNam", "TrfXtrf"} : ParseField(f)
            \/ \E name \in CustomNames : ParseCustom(name)
ParseSTDF == ParseMIR \/ ParseSDR \/ ParseGDR

(* updateProgramLoad: the load is asked for; or the loaded program is kept,  *)
(* or none is named; or the recipe is over.  Seeded fault: no waiting.       *)
UpdateProgramLoadNoWait ==
  /\ pc = "parse"
  /\ \/ pc' = "flow" /\ owed' = TRUE /\ reloaded' = TRUE
     \/ pc' \in {"flow", "idle"} /\ UNCHANGED <<owed, reloaded>>
  /\ UNCHANGED <<args, todo, lot, fa, pcState, given, strict, listVars>>
UpdateProgramLoad ==
  /\ pc = "parse"
  /\ \/ pc' = "wait" /\ owed' = TRUE /\ reloaded' = TRUE
     \/ pc' \in {"flow", "idle"} /\ UNCHANGED <<owed, reloaded>>
  /\ UNCHANGED <<args, todo, lot, fa, pcState, given, strict, listVars>>

(* LOAD_FAILED or ABORT_LOAD: RecipeDecode sends nothing. *)
LoadFails ==
  /\ pc = "wait" /\ owed
  /\ pc' = "idle" /\ owed' = FALSE
  /\ UNCHANGED <<args, todo, lot, fa, pcState, historyVars, listVars>>

(* sendTPParams: the active flow.  Nothing sets TPArgs.LotId. *)
SendTPParams ==
  /\ pc = "flow" /\ pc' \in {"spec", "idle"}
  /\ UNCHANGED <<args, todo, lot, fa, owed, pcState, historyVars, listVars>>

(* sendMIRParams takes SPEC_NAM from TPPath first, if there is a "_" in its  *)
(* main folder; whether that call works is not looked at.                    *)
SendSpecDefault ==
  /\ pc = "spec" /\ pc' = "send" /\ todo' = LotFields
  /\ lot' \in {lot, [lot EXCEPT !["SpecNam"] = "derived"]}
  /\ UNCHANGED <<args, fa, owed, pcState, historyVars, listVars>>

(* setLotInformation for the next field.  Its required attribute is not      *)
(* looked at.  A failed call ends the recipe.  Seeded fault: onEmpty taken   *)
(* for the opposite.                                                         *)
IsNext(f) == f \in todo /\ \A g \in todo : Rank[f] <= Rank[g]
KeepsLot(f) == \/ args[f].value = "none"
               \/ args[f].override = "onEmpty" /\ lot[f] # "none"
KeepsLotIfEmpty(f) == \/ args[f].value = "none"
                      \/ args[f].override = "onEmpty" /\ lot[f] = "none"
SetLotInformationIfSet ==
  /\ pc = "send"
  /\ \E f \in LotFields :
       /\ IsNext(f)
       /\ \/ KeepsLotIfEmpty(f) /\ lot' = lot /\ pc' = pc /\ todo' = todo \ {f}
          \/ /\ ~KeepsLotIfEmpty(f) /\ pc' = pc /\ todo' = todo \ {f}
             /\ lot' = [lot EXCEPT ![f] = args[f].value]
          \/ ~KeepsLotIfEmpty(f) /\ lot' = lot /\ pc' = "idle" /\ todo' = {}
  /\ UNCHANGED <<args, fa, owed, pcState, historyVars, listVars>>
SetLotInformation ==
  /\ pc = "send"
  /\ \E f \in LotFields :
       /\ IsNext(f)
       /\ \/ KeepsLot(f) /\ lot' = lot /\ pc' = pc /\ todo' = todo \ {f}
          \/ /\ ~KeepsLot(f) /\ pc' = pc /\ todo' = todo \ {f}
             /\ lot' = [lot EXCEPT ![f] = args[f].value]
          \/ ~KeepsLot(f) /\ lot' = lot /\ pc' = "idle" /\ todo' = {}
  /\ UNCHANGED <<args, fa, owed, pcState, historyVars, listVars>>

(* Everything is sent; RecipeDecode returns. *)
SendDone ==
  /\ pc = "send" /\ todo = {} /\ pc' = "done"
  /\ UNCHANGED <<args, todo, lot, fa, owed, pcState, historyVars, listVars>>
Return ==
  /\ pc = "done" /\ pc' = "idle"
  /\ UNCHANGED <<args, todo, lot, fa, owed, pcState, historyVars, listVars>>

--------------------------------------------------------------------------------
(* The state thread.                                                         *)

(* programChange(EVX_PROGRAM_LOADED) for the recipe's load or the operator's. *)
ProgramLoaded ==
  /\ pcState = "poll" /\ pcState' = "update"
  /\ \/ owed /\ owed' = FALSE
     \/ OperatorLoads /\ owed' = owed
  /\ UNCHANGED <<pc, args, todo, lot, fa, historyVars, listVars>>

(* TRF-XTRF is lotid_flowid unless the recipe has a value, strict or not. *)
TrfXtrf == IF args["TrfXtrf"].value # "none" THEN args["TrfXtrf"].value
           ELSE IF args["FlowId"].value = "stale" THEN "stale" ELSE "derived"

(* updateSTDFAfterProgLoad: EXEC_TYP if lot information has none or the name  *)
(* of the old system, the values for the FAmodule, and a look whether the    *)
(* recipe has a serial number.                                               *)
UpdateSTDF ==
  /\ pcState = "update"
  /\ \E execTyp \in {args["ExecTyp"].value, "derived"} :
       /\ lot["ExecTyp"] = "none" => execTyp = "derived"
       /\ args' = [args EXCEPT !["ExecTyp"].value = execTyp,
                               !["TrfXtrf"].value = TrfXtrf]
  /\ fa' = [HandTyp |-> args["HandTyp"].value, GuiNam |-> args["GuiNam"].value,
            TrfXtrf |-> TrfXtrf]
  /\ pcState' = IF args["SerlNum"].value = "none" THEN "serial" ELSE "customs"
  /\ UNCHANGED <<cmdVars, lot, historyVars, listVars>>

(* "set to ... (copied from hostname) because it is empty" *)
UpdateSerialNumber ==
  /\ pcState = "serial" /\ pcState' = "customs"
  /\ args' = [args EXCEPT !["SerlNum"].value = "derived"]
  /\ lot' \in {lot, [lot EXCEPT !["SerlNum"] = "derived"]}
  /\ UNCHANGED <<cmdVars, fa, historyVars, listVars>>

(* "now let's send custom GDR's to CURI", the number of lists, and of fields   *)
(* in each, first.  What a walk through lists that parseGDR makes longer sees  *)
(* of them is not defined: here, any part that was there.                     *)
Walk == IF pc = "parse" THEN {SubSeq(customs, 1, n) : n \in 0..Len(customs)}
        ELSE {customs}
SendCustoms ==
  /\ pcState = "customs" /\ pcState' = "complete"
  /\ faCustoms' \in Walk
  /\ UNCHANGED <<cmdVars, args, customs, lot, fa, historyVars>>

(* sendNotificationComplete lets a waiting recipe go on. *)
SendNotificationComplete ==
  /\ pcState = "complete" /\ pcState' = "poll"
  /\ pc' = IF pc = "wait" THEN "flow" ELSE pc
  /\ UNCHANGED <<args, todo, lot, fa, owed, historyVars, listVars>>

(* Between recipes the lot ends, or somebody types something in. *)
LotInformationChanges ==
  /\ pc = "idle"
  /\ \E f \in LotFields, o \in {"none", "before"} :
       lot' = [lot EXCEPT ![f] = o]
  /\ UNCHANGED <<cmdVars, args, fa, pcState, historyVars, listVars>>

CmdStep == \/ RecipeDecodeAvailable \/ RecipeDecode \/ ParseSTDF
           \/ UpdateProgramLoad \/ LoadFails \/ SendTPParams \/ SendSpecDefault
           \/ SetLotInformation \/ SendDone \/ Return
StateStep == \/ ProgramLoaded \/ UpdateSTDF \/ UpdateSerialNumber
             \/ SendCustoms \/ SendNotificationComplete
Next == CmdStep \/ StateStep \/ LotInformationChanges

Spec == Init /\ [][Next]_vars

--------------------------------------------------------------------------------
(* Properties.                                                               *)

(* What the handler may make up for a field, and what CMIRArgs::clear leaves. *)
Fallback(f) == IF f \in {"SerlNum", "ExecTyp", "SpecNam"} THEN {"derived"}
               ELSE IF f = "FlowId" THEN {"stale"} ELSE {}
Settled(f) ==
  /\ given[f] = "force" => lot[f] = "this"
  /\ given[f] = "onEmpty" => lot[f] \in {"this", "before"} \union
                                         ({"derived"} \intersect Fallback(f))
  /\ given[f] = "none" => lot[f] \in {"none", "before"} \union Fallback(f)

(* When a recipe has sent everything, lot information holds every field the   *)
(* recipe forces, for an onEmpty field the recipe's value or the one that was *)
(* there, and nothing of the recipe elsewhere (userInterface.cpp:1366-1502).  *)
Delivered == pc = "done" => \A f \in LotFields : Settled(f)

FaTold ==
  /\ \A f \in {"HandTyp", "GuiNam"} :
       fa[f] = IF given[f] = "none" THEN "none" ELSE "this"
  /\ given["TrfXtrf"] # "none"
       => fa["TrfXtrf"] \in {"this"} \union (IF strict THEN {} ELSE {"derived"})
  /\ given["TrfXtrf"] = "none" /\ given["FlowId"] # "none"
       => fa["TrfXtrf"] = "derived"

(* After a reload the FAmodule was told this recipe's fields before the       *)
(* recipe goes on, not those of a recipe before it.  TRF-XTRF is the recipe's *)
(* if it is required="strict", and lotid_flowid if the recipe has none.  One   *)
(* that is given and not strict is "always taken from lotid_flowid" in the     *)
(* comment at userInterface.cpp:982 and the recipe's in the code at :983; the   *)
(* property takes no side, but no other value will do (:267-269, 936-1072).    *)
ReloadKnown == pc \in {"flow", "spec", "send", "done"} /\ reloaded
FaFollowsRecipe == ReloadKnown => FaTold

(* l holds the numbers of all custom fields of its name, in order. *)
Holds(l, names) ==
  /\ l.fields # << >>
  /\ {l.fields[a] : a \in DOMAIN l.fields} = {k \in DOMAIN names : names[k] = l.name}
  /\ \A a, b \in DOMAIN l.fields : a < b => l.fields[a] < l.fields[b]

(* lists arranges the custom fields called names[1], names[2], ... by name:    *)
(* each name that occurs has one list, in the order in which names come up    *)
(* first.                                                                     *)
Arranges(lists, names) ==
  /\ \A k \in DOMAIN names : \E i \in DOMAIN lists : lists[i].name = names[k]
  /\ \A i \in DOMAIN lists : Holds(lists[i], names)
  /\ \A i, j \in DOMAIN lists : i < j => lists[i].fields[1] < lists[j].fields[1]

(* After a reload the FAmodule has all custom GDRs of this recipe and nothing  *)
(* else, arranged by name, before the recipe goes on (userInterface.cpp:       *)
(* 1049-1065, 1218-1223, recipeSupport.cpp:477-511).                          *)
CustomsTold ==
  ReloadKnown => Arranges(faCustoms, named)

(* Of an earlier recipe's fields only FLOW_ID, and the TRF-XTRF that is made  *)
(* up from it, ever reach the tester (recipeSupport.cpp:302-339).             *)
OnlyFlowIdSurvives ==
  /\ \A f \in LotFields : lot[f] = "stale" => f = "FlowId"
  /\ \A f \in {"HandTyp", "GuiNam"} : fa[f] # "stale"

(* The host name is taken for the serial number only "because it is empty"    *)
(* (userInterface.cpp:1042-1046): the recipe gives none.                      *)
HostNameFillsGap == pcState = "serial" => given["SerlNum"] = "none"

--------------------------------------------------------------------------------
(* Why, as long as the operator loads nothing: an inductive invariant.       *)

(* The state thread is at work only while the recipe waits. *)
TurnInv ==
  /\ owed => pc = "wait" /\ pcState = "poll"
  /\ pcState # "poll" => pc = "wait"
  /\ pc = "wait" => reloaded
  /\ pc = "parse" => ~reloaded

(* What the structures hold, before and after the handler has seen them. *)
Unread == \/ pc = "parse"
          \/ pc = "wait" /\ pcState \in {"poll", "update"}
LeftOpen(f) ==
  {"none"} \union (IF f = "FlowId" THEN {"stale"} ELSE {})
    \union (IF ~Unread /\ f \in {"SerlNum", "ExecTyp"} THEN {"derived"} ELSE {})
    \union (IF ~Unread /\ f = "TrfXtrf" THEN {"derived", "stale"} ELSE {})
ArgOk(f) ==
  /\ given[f] # "none" => args[f].value = "this" /\ args[f].override = given[f]
  /\ given[f] = "none" => args[f].value \in LeftOpen(f)
ArgsInv ==
  /\ given["ExecTyp"] = "none"
  /\ HostNameFillsGap
  /\ pc # "idle" => \A f \in Fields : ArgOk(f)

(* What lot information holds before and after a field's turn has come. *)
Untouched(f) ==
  lot[f] \in {"none", "before"} \union
            (IF f \in {"SerlNum", "SpecNam"} THEN {"derived"} ELSE {})
LotInv ==
  /\ pc \in {"parse", "wait", "flow", "spec"} => \A f \in LotFields : Untouched(f)
  /\ pc = "send" => \A f \in LotFields :
                      IF f \in todo THEN Untouched(f) ELSE Settled(f)
  /\ Delivered

(* What the FAmodule was told. *)
FaInv ==
  /\ reloaded
  /\ \/ pc \in {"flow", "spec", "send", "done"}
     \/ pc = "wait" /\ pcState \in {"serial", "customs", "complete"}
  => FaTold

(* The lists are right from the root tag on, and so is what is sent of them. *)
CustomsInv ==
  /\ pc # "idle" => Arranges(customs, named)
  /\ pc = "wait" /\ pcState = "complete" => Arranges(faCustoms, named)
  /\ CustomsTold

(* Which structures an earlier recipe can have left something in. *)
StaleInv ==
  /\ \A f \in Fields : args[f].value = "stale" => f \in {"FlowId", "TrfXtrf"}
  /\ OnlyFlowIdSurvives

ParamsInv == TypeOK /\ TurnInv /\ ArgsInv /\ LotInv /\ FaInv /\ CustomsInv
================================================================================
