-------------------------- MODULE RecipeParamsProofs --------------------------
(***************************************************************************)
(* Proofs about RecipeParams: type correctness and what survives from an   *)
(* earlier recipe, for any session; what lot information and the FAmodule  *)
(* end up with, for one in which the operator loads nothing.               *)
(***************************************************************************)
EXTENDS RecipeParams, SequenceTheorems, TLAPS

LEMMA FieldSets ==
  /\ LotFields = {"LotId", "FlowId", "SerlNum", "ExecTyp", "SpecNam", "HandTyp"}
  /\ FaFields = {"HandTyp", "GuiNam", "TrfXtrf"}
  /\ Fields = LotFields \union {"GuiNam", "TrfXtrf"}
BY DEF LotFields, Rank, FaFields, Fields

(* A record's field is one of the structures' own or goes into a list. *)
LEMMA ParsedField ==
  ParseSTDF => \/ \E f \in Fields \ {"ExecTyp"} : ParseField(f)
               \/ \E name \in CustomNames : ParseCustom(name)
BY FieldSets DEF ParseSTDF, ParseMIR, ParseSDR, ParseGDR

LEMMA OverridesKnown == \A f : OverridesOf(f) \subseteq Overrides
BY DEF OverridesOf, Overrides

(* addCustom makes a sequence of lists; a walk sees one. *)
LEMMA AddCustomType ==
  ASSUME customs \in Seq(List), NEW name \in CustomNames, NEW k \in Nat
  PROVE  AddCustom(name, k) \in Seq(List)
<1>1. WithNew(name, k) \in Seq(List)
  <2>1. [name |-> name, fields |-> <<k>>] \in List
    BY DEF List
  <2> QED BY <2>1, AppendProperties DEF WithNew
<1>2. WithField(name, k) \in Seq(List)
  <2>1. Len(customs) \in Nat /\ DOMAIN customs = 1..Len(customs)
    BY LenProperties
  <2>2. ASSUME NEW i \in 1..Len(customs)
        PROVE  /\ customs[i] \in List
               /\ [customs[i] EXCEPT !.fields = Append(@, k)] \in List
    <3>1. customs[i] \in List
      BY ElementOfSeq
    <3>2. Append(customs[i].fields, k) \in Seq(Nat)
      BY <3>1, AppendProperties DEF List
    <3> QED BY <3>1, <3>2 DEF List
  <2>3. WithField(name, k) \in [1..Len(customs) -> List]
    BY <2>1, <2>2 DEF WithField
  <2> QED BY <2>1, <2>3, SeqDef
<1> QED BY <1>1, <1>2 DEF AddCustom

LEMMA WalkType == customs \in Seq(List) => Walk \subseteq Seq(List)
<1> SUFFICES ASSUME customs \in Seq(List), NEW n \in 0..Len(customs)
             PROVE  SubSeq(customs, 1, n) \in Seq(List)
  BY DEF Walk
<1>1. \A i \in 1..n : customs[i] \in List
  BY ElementOfSeq, LenProperties
<1>2. n \in Int /\ 1 \in Int
  BY LenProperties
<1> QED BY <1>1, <1>2, SubSeqProperties

LEMMA FieldsInit == Init => FieldsOK
<1> SUFFICES ASSUME Init PROVE FieldsOK
  OBVIOUS
<1>1. owed \in BOOLEAN /\ reloaded \in BOOLEAN /\ strict \in BOOLEAN
  BY DEF Init
<1>2. lot \in [LotFields -> Origins]
  BY DEF Init, Origins
<1>3. args \in [Fields -> [value : Origins \ {"before"}, override : Overrides]]
  BY DEF Init, Unset, Origins, Overrides
<1>4. /\ fa \in [FaFields -> Origins]
      /\ given \in [Fields -> Overrides \union {"none"}]
  BY DEF Init, Origins
<1> QED BY <1>1, <1>2, <1>3, <1>4 DEF Init, FieldsOK

(* An EXCEPT on one component of one field keeps the type of the structures. *)
LEMMA FieldsStep == FieldsOK /\ [Next]_vars => FieldsOK'
<1> SUFFICES ASSUME FieldsOK, [Next]_vars PROVE FieldsOK'
  OBVIOUS
<1> USE FieldSets DEF FieldsOK, Overrides, Origins
<1>cleared. Cleared \in [Fields -> [value : Origins \ {"before"},
                                    override : Overrides]]
  BY DEF Cleared, Older, Unset
<1>1. CASE RecipeDecodeAvailable
  BY <1>1, <1>cleared DEF RecipeDecodeAvailable, cmdVars, historyVars
<1>2. CASE RecipeDecode
  BY <1>2, <1>cleared DEF RecipeDecode, Aged
<1>3. CASE ParseSTDF
  <2>1. ASSUME NEW f \in Fields \ {"ExecTyp"}, ParseField(f) PROVE FieldsOK'
    <3>1. strict' \in BOOLEAN
      BY <2>1 DEF ParseField
    <3> QED BY <2>1, <3>1, OverridesKnown DEF ParseField, cmdVars
  <2>2. ASSUME NEW name \in CustomNames, ParseCustom(name) PROVE FieldsOK'
    BY <2>2 DEF ParseCustom, cmdVars
  <2> QED BY <1>3, <2>1, <2>2, ParsedField
<1>4. CASE UpdateProgramLoad
  BY <1>4 DEF UpdateProgramLoad
<1>5. CASE LoadFails
  BY <1>5 DEF LoadFails, historyVars
<1>6. CASE SendTPParams
  BY <1>6 DEF SendTPParams, historyVars
<1>7. CASE SendSpecDefault
  BY <1>7 DEF SendSpecDefault, historyVars
<1>8. CASE SetLotInformation
  <2>1. PICK f \in LotFields :
          /\ lot' = lot \/ lot' = [lot EXCEPT ![f] = args[f].value]
          /\ pc' \in {pc, "idle"} /\ todo' \in {todo \ {f}, {}}
    BY <1>8 DEF SetLotInformation
  <2> QED BY <1>8, <2>1 DEF SetLotInformation, historyVars
<1>9. CASE SendDone
  BY <1>9 DEF SendDone, historyVars
<1>10. CASE Return
  BY <1>10 DEF Return, historyVars
<1>11. CASE ProgramLoaded
  BY <1>11 DEF ProgramLoaded, historyVars
<1>12. CASE UpdateSTDF
  <2>1. TrfXtrf \in Origins \ {"before"}
    BY DEF TrfXtrf
  <2> QED BY <1>12, <2>1 DEF UpdateSTDF, cmdVars, historyVars
<1>13. CASE UpdateSerialNumber
  BY <1>13 DEF UpdateSerialNumber, cmdVars, historyVars
<1>14. CASE SendNotificationComplete
  BY <1>14 DEF SendNotificationComplete, historyVars
<1>15. CASE LotInformationChanges
  BY <1>15 DEF LotInformationChanges, cmdVars, historyVars
<1>16. CASE SendCustoms
  BY <1>16 DEF SendCustoms, cmdVars, historyVars
<1>17. CASE UNCHANGED vars
  BY <1>17 DEF vars, cmdVars, historyVars
<1> QED
  BY <1>1, <1>2, <1>3, <1>4, <1>5, <1>6, <1>7, <1>8, <1>9, <1>10, <1>11, <1>12,
     <1>13, <1>14, <1>15, <1>16, <1>17 DEF Next, CmdStep, StateStep

LEMMA ListsInit == Init => ListsOK
BY EmptySeq DEF Init, ListsOK

LEMMA ListsStep == ListsOK /\ [Next]_vars => ListsOK'
<1> SUFFICES ASSUME ListsOK, [Next]_vars PROVE ListsOK'
  OBVIOUS
<1> USE DEF ListsOK
<1>1. CASE RecipeDecodeAvailable \/ RecipeDecode
  BY <1>1, EmptySeq DEF RecipeDecodeAvailable, RecipeDecode, historyVars
<1>2. CASE ParseSTDF
  <2>1. CASE \E f \in Fields \ {"ExecTyp"} : ParseField(f)
    BY <2>1 DEF ParseField, listVars
  <2>2. ASSUME NEW name \in CustomNames, ParseCustom(name) PROVE ListsOK'
    <3>1. Len(named) + 1 \in Nat
      BY LenProperties
    <3>2. customs' \in Seq(List)
      BY <2>2, <3>1, AddCustomType DEF ParseCustom
    <3>3. named' \in Seq(CustomNames) /\ faCustoms' = faCustoms
      BY <2>2, AppendProperties DEF ParseCustom
    <3> QED BY <3>2, <3>3
  <2> QED BY <1>2, <2>1, <2>2, ParsedField
<1>3. CASE SendCustoms
  BY <1>3, WalkType DEF SendCustoms, historyVars
<1>4. CASE UNCHANGED listVars
  BY <1>4 DEF listVars
<1> QED
  BY <1>1, <1>2, <1>3, <1>4 DEF Next, CmdStep, StateStep, vars, listVars,
     historyVars, UpdateProgramLoad, LoadFails, SendTPParams, SendSpecDefault,
     SetLotInformation, SendDone, Return, ProgramLoaded, UpdateSTDF,
     UpdateSerialNumber, SendNotificationComplete, LotInformationChanges

(* Every variable keeps its type, whoever loads programs. *)
THEOREM TypeCorrect == Spec => []TypeOK
<1>1. Init => TypeOK
  BY FieldsInit, ListsInit DEF TypeOK
<1>2. TypeOK /\ [Next]_vars => TypeOK'
  BY FieldsStep, ListsStep DEF TypeOK
<1> QED BY <1>1, <1>2, PTL DEF Spec

--------------------------------------------------------------------------------
(* What an earlier recipe leaves behind.                                     *)

LEMMA StaleInit == Init => StaleInv
BY FieldSets DEF Init, StaleInv, OnlyFlowIdSurvives, Unset

LEMMA StaleStep == FieldsOK /\ StaleInv /\ [Next]_vars => StaleInv'
<1> SUFFICES ASSUME FieldsOK, StaleInv, [Next]_vars PROVE StaleInv'
  OBVIOUS
<1> USE FieldSets DEF FieldsOK, StaleInv, OnlyFlowIdSurvives
<1>cleared. \A f \in Fields : Cleared[f].value = "stale" => f = "FlowId"
  BY DEF Cleared, Older, Unset
<1>1. CASE RecipeDecodeAvailable
  BY <1>1, <1>cleared DEF RecipeDecodeAvailable
<1>2. CASE RecipeDecode
  BY <1>2, <1>cleared DEF RecipeDecode, Aged
<1>3. CASE ParseSTDF
  <2>1. ASSUME NEW f \in Fields \ {"ExecTyp"}, ParseField(f) PROVE StaleInv'
    BY <2>1 DEF ParseField
  <2>2. ASSUME NEW name \in CustomNames, ParseCustom(name) PROVE StaleInv'
    BY <2>2 DEF ParseCustom
  <2> QED BY <1>3, <2>1, <2>2, ParsedField
<1>4. CASE UpdateProgramLoad \/ LoadFails \/ SendTPParams \/ SendDone \/ Return
             \/ ProgramLoaded \/ SendCustoms \/ SendNotificationComplete
  BY <1>4 DEF UpdateProgramLoad, LoadFails, SendTPParams, SendDone, Return,
              ProgramLoaded, SendCustoms, SendNotificationComplete
<1>5. CASE SendSpecDefault
  BY <1>5 DEF SendSpecDefault
<1>6. CASE SetLotInformation
  BY <1>6 DEF SetLotInformation
<1>7. CASE UpdateSTDF
  BY <1>7 DEF UpdateSTDF
<1>8. CASE UpdateSerialNumber
  BY <1>8 DEF UpdateSerialNumber
<1>9. CASE LotInformationChanges
  BY <1>9 DEF LotInformationChanges, cmdVars
<1>10. CASE UNCHANGED vars
  BY <1>10 DEF vars
<1> QED
  BY <1>1, <1>2, <1>3, <1>4, <1>5, <1>6, <1>7, <1>8, <1>9, <1>10
     DEF Next, CmdStep, StateStep

(* Whatever the operator loads and whenever, of an earlier recipe's fields    *)
(* only FLOW_ID reaches lot information, and never its HAND_TYP the FAmodule.  *)
THEOREM OnlyFlowIdIsStale == Spec => []OnlyFlowIdSurvives
<1>1. Spec => [](FieldsOK /\ StaleInv)
  BY FieldsInit, FieldsStep, StaleInit, StaleStep, PTL DEF Spec
<1>2. StaleInv => OnlyFlowIdSurvives
  BY DEF StaleInv
<1> QED BY <1>1, <1>2, PTL

--------------------------------------------------------------------------------
(* What a recipe achieves while the operator loads nothing.                  *)

Quiet == OperatorLoads = FALSE

LEMMA ParamsInit == Init => ParamsInv
<1> SUFFICES ASSUME Init PROVE ParamsInv
  OBVIOUS
<1>1. TypeOK /\ pc = "idle" /\ pcState = "poll"
  BY FieldsInit, ListsInit DEF Init, TypeOK
<1> QED BY <1>1, FieldSets DEF Init, ParamsInv, TurnInv, ArgsInv, LotInv,
     Delivered, FaInv, CustomsInv, CustomsTold, ReloadKnown, HostNameFillsGap

LEMMA TurnStep == Quiet /\ FieldsOK /\ TurnInv /\ [Next]_vars => TurnInv'
<1> SUFFICES ASSUME Quiet, FieldsOK, TurnInv, [Next]_vars PROVE TurnInv'
  OBVIOUS
<1> USE DEF FieldsOK, TurnInv, Quiet
<1>1. ParseSTDF => UNCHANGED <<pc, owed, pcState, reloaded>>
  BY ParsedField DEF ParseField, ParseCustom, cmdVars
<1> QED BY <1>1 DEF Next, CmdStep, StateStep, vars, cmdVars, historyVars,
      RecipeDecodeAvailable, RecipeDecode, UpdateProgramLoad, LoadFails,
      SendTPParams, SendSpecDefault, SetLotInformation, SendDone, Return,
      ProgramLoaded, UpdateSTDF, UpdateSerialNumber, SendCustoms,
      SendNotificationComplete, LotInformationChanges

(* Fields the handler fills in are ones the recipe left open. *)
LEMMA ArgsStep ==
  Quiet /\ FieldsOK /\ TurnInv /\ ArgsInv /\ [Next]_vars => ArgsInv'
<1> SUFFICES ASSUME Quiet, FieldsOK, TurnInv, ArgsInv, [Next]_vars PROVE ArgsInv'
  OBVIOUS
<1> USE FieldSets DEF ArgsInv, HostNameFillsGap
<1>same. ASSUME UNCHANGED <<args, given>>, pc' # "idle" => pc # "idle",
                Unread' => Unread, pcState' = "serial" => pcState = "serial"
         PROVE  ArgsInv'
  BY <1>same DEF ArgOk, LeftOpen
<1>1. CASE RecipeDecodeAvailable
  BY <1>1 DEF RecipeDecodeAvailable, cmdVars, historyVars
<1>2. CASE RecipeDecode
  BY <1>2 DEF RecipeDecode, Cleared, Older, Unset, ArgOk, LeftOpen, FieldsOK
<1>3. CASE ParseSTDF
  <2>1. ASSUME NEW f \in Fields \ {"ExecTyp"}, ParseField(f) PROVE ArgsInv'
    <3>1. PICK v \in {"none", "this"}, o \in Overrides :
            /\ args' = [args EXCEPT ![f] = [value |-> v, override |-> o]]
            /\ given' = [given EXCEPT ![f] = IF v = "none" THEN "none" ELSE o]
      BY <2>1, OverridesKnown DEF ParseField
    <3>2. pc = "parse" /\ pc' = pc /\ (Unread' <=> Unread) /\ pcState' # "serial"
      BY <2>1 DEF ParseField, cmdVars, Unread, TurnInv
    <3>3. ArgOk(f)' /\ f # "ExecTyp"
      BY <3>1, <3>2 DEF Overrides, ArgOk, LeftOpen, FieldsOK
    <3>4. ASSUME NEW g \in Fields \ {f} PROVE ArgOk(g)'
      <4>1. args'[g] = args[g] /\ given'[g] = given[g]
        BY <3>1, <3>4 DEF FieldsOK
      <4> QED BY <4>1, <3>2 DEF ArgOk, LeftOpen
    <3>5. given'["ExecTyp"] = "none"
      BY <3>1, <3>3 DEF FieldsOK
    <3> QED BY <3>2, <3>3, <3>4, <3>5
  <2>2. ASSUME NEW name \in CustomNames, ParseCustom(name) PROVE ArgsInv'
    BY <2>2, <1>same DEF ParseCustom, cmdVars, Unread
  <2> QED BY <1>3, <2>1, <2>2, ParsedField
<1>4. CASE UpdateProgramLoad
  BY <1>4, <1>same DEF UpdateProgramLoad, Unread, TurnInv
<1>5. CASE LoadFails \/ SendTPParams \/ SendDone \/ Return \/ ProgramLoaded
             \/ SendSpecDefault \/ SendCustoms
  BY <1>5, <1>same DEF LoadFails, SendTPParams, SendDone, Return, ProgramLoaded,
                       SendSpecDefault, SendCustoms, cmdVars, historyVars, Unread
<1>6. CASE SetLotInformation
  BY <1>6, <1>same DEF SetLotInformation, historyVars, Unread
<1>7. CASE UpdateSTDF
  <2>1. pc = "wait" /\ pc' = pc /\ given' = given /\ Unread /\ ~Unread'
    BY <1>7 DEF UpdateSTDF, cmdVars, historyVars, TurnInv, Unread
  <2>2. ArgOk("ExecTyp")'
    BY <1>7, <2>1 DEF UpdateSTDF, ArgOk, LeftOpen, FieldsOK
  <2>3. ArgOk("TrfXtrf")'
    BY <1>7, <2>1 DEF UpdateSTDF, TrfXtrf, ArgOk, LeftOpen, FieldsOK
  <2>4. ASSUME NEW g \in Fields \ {"ExecTyp", "TrfXtrf"} PROVE ArgOk(g)'
    <3>1. args'[g] = args[g]
      BY <1>7, <2>4 DEF UpdateSTDF, FieldsOK
    <3> QED BY <2>1, <3>1 DEF ArgOk, LeftOpen
  <2>5. pcState' = "serial" => given["SerlNum"] = "none"
    BY <1>7, <2>1 DEF UpdateSTDF, ArgOk
  <2> QED BY <2>1, <2>2, <2>3, <2>4, <2>5
<1>8. CASE UpdateSerialNumber
  <2>1. /\ pc = "wait" /\ pc' = pc /\ given' = given /\ ~Unread /\ ~Unread'
        /\ pcState = "serial" /\ pcState' = "customs"
    BY <1>8 DEF UpdateSerialNumber, cmdVars, historyVars, TurnInv, Unread
  <2>2. ArgOk("SerlNum")'
    BY <1>8, <2>1 DEF UpdateSerialNumber, ArgOk, LeftOpen, FieldsOK
  <2>3. ASSUME NEW g \in Fields \ {"SerlNum"} PROVE ArgOk(g)'
    <3>1. args'[g] = args[g]
      BY <1>8, <2>3 DEF UpdateSerialNumber, FieldsOK
    <3> QED BY <2>1, <3>1 DEF ArgOk, LeftOpen
  <2> QED BY <2>1, <2>2, <2>3
<1>9. CASE SendNotificationComplete
  BY <1>9, <1>same DEF SendNotificationComplete, historyVars, Unread, TurnInv
<1>10. CASE LotInformationChanges
  BY <1>10 DEF LotInformationChanges, cmdVars, historyVars
<1>11. CASE UNCHANGED vars
  BY <1>11, <1>same DEF vars, cmdVars, historyVars, Unread
<1> QED
  BY <1>1, <1>2, <1>3, <1>4, <1>5, <1>6, <1>7, <1>8, <1>9, <1>10, <1>11
     DEF Next, CmdStep, StateStep

(* Calls for one field leave the others alone; a field's turn settles it. *)
LEMMA LotStep ==
  Quiet /\ FieldsOK /\ TurnInv /\ ArgsInv /\ LotInv /\ [Next]_vars => LotInv'
<1> SUFFICES ASSUME Quiet, FieldsOK, TurnInv, ArgsInv, LotInv, [Next]_vars
             PROVE  LotInv'
  OBVIOUS
<1> USE FieldSets DEF LotInv, Delivered
<1>same. ASSUME UNCHANGED <<lot, given>>
         PROVE  \A f \in LotFields : /\ Untouched(f)' <=> Untouched(f)
                                     /\ Settled(f)' <=> Settled(f)
  BY <1>same DEF Untouched, Settled, Fallback
<1>1. CASE RecipeDecodeAvailable
  BY <1>1, <1>same DEF RecipeDecodeAvailable, cmdVars, historyVars
<1>2. CASE RecipeDecode
  BY <1>2 DEF RecipeDecode, Aged, Untouched
<1>3. CASE ParseSTDF
  <2>1. pc = "parse" /\ pc' = pc /\ lot' = lot
    BY <1>3, ParsedField DEF ParseField, ParseCustom, cmdVars
  <2> QED BY <2>1 DEF Untouched
<1>4. CASE UpdateProgramLoad \/ LoadFails \/ SendTPParams \/ Return
  BY <1>4, <1>same DEF UpdateProgramLoad, LoadFails, SendTPParams, Return,
                       historyVars
<1>5. CASE SendSpecDefault
  <2>1. /\ pc = "spec" /\ pc' = "send" /\ todo' = LotFields
        /\ lot' \in {lot, [lot EXCEPT !["SpecNam"] = "derived"]}
    BY <1>5 DEF SendSpecDefault
  <2> QED BY <2>1 DEF Untouched, FieldsOK
<1>6. CASE SetLotInformation
  <2>1. PICK f \in LotFields :
          /\ IsNext(f)
          /\ \/ KeepsLot(f) /\ lot' = lot /\ pc' = pc /\ todo' = todo \ {f}
             \/ /\ ~KeepsLot(f) /\ pc' = pc /\ todo' = todo \ {f}
                /\ lot' = [lot EXCEPT ![f] = args[f].value]
             \/ ~KeepsLot(f) /\ lot' = lot /\ pc' = "idle" /\ todo' = {}
    BY <1>6 DEF SetLotInformation
  <2>2. pc = "send" /\ given' = given /\ pc' \in {"send", "idle"}
    BY <1>6, <2>1 DEF SetLotInformation, historyVars
  <2>3. CASE pc' = "idle"
    BY <2>3
  <2>4. CASE pc' = "send" /\ todo' = todo \ {f}
    <3>1. ArgOk(f) /\ Untouched(f) /\ ~Unread
      BY <2>1, <2>2 DEF IsNext, ArgsInv, Unread
    <3>2. Settled(f)'
      BY <2>1, <2>2, <2>4, <3>1
         DEF FieldsOK, ArgOk, LeftOpen, Untouched, Settled, Fallback, KeepsLot,
             Overrides
    <3>3. ASSUME NEW g \in LotFields \ {f} PROVE lot'[g] = lot[g]
      BY <2>1, <3>3 DEF FieldsOK
    <3>4. \A g \in LotFields \ {f} : /\ Untouched(g)' <=> Untouched(g)
                                     /\ Settled(g)' <=> Settled(g)
      BY <2>2, <3>3 DEF Untouched, Settled, Fallback
    <3> QED BY <2>2, <2>4, <3>2, <3>4
  <2> QED BY <2>1, <2>2, <2>3, <2>4
<1>7. CASE SendDone
  BY <1>7, <1>same DEF SendDone, historyVars
<1>8. CASE ProgramLoaded \/ UpdateSTDF \/ SendCustoms
  BY <1>8, <1>same DEF ProgramLoaded, UpdateSTDF, SendCustoms, cmdVars,
                       historyVars
<1>9. CASE UpdateSerialNumber
  <2>1. /\ pc = "wait" /\ pc' = pc
        /\ lot' \in {lot, [lot EXCEPT !["SerlNum"] = "derived"]}
    BY <1>9 DEF UpdateSerialNumber, cmdVars, TurnInv
  <2> QED BY <2>1 DEF Untouched, FieldsOK
<1>10. CASE SendNotificationComplete
  BY <1>10, <1>same DEF SendNotificationComplete, historyVars
<1>11. CASE LotInformationChanges
  BY <1>11 DEF LotInformationChanges, cmdVars
<1>12. CASE UNCHANGED vars
  BY <1>12, <1>same DEF vars, cmdVars, historyVars
<1> QED
  BY <1>1, <1>2, <1>3, <1>4, <1>5, <1>6, <1>7, <1>8, <1>9, <1>10, <1>11, <1>12
     DEF Next, CmdStep, StateStep

(* The FAmodule is told between the load and the end of the wait for it. *)
LEMMA FaStep ==
  Quiet /\ FieldsOK /\ TurnInv /\ ArgsInv /\ FaInv /\ [Next]_vars => FaInv'
<1> SUFFICES ASSUME Quiet, FieldsOK, TurnInv, ArgsInv, FaInv, [Next]_vars
             PROVE  FaInv'
  OBVIOUS
<1> USE FieldSets DEF FaInv, TurnInv
<1>same. ASSUME UNCHANGED <<fa, given, strict>> PROVE FaTold' <=> FaTold
  BY <1>same DEF FaTold
<1>1. CASE RecipeDecodeAvailable \/ LotInformationChanges
  BY <1>1 DEF RecipeDecodeAvailable, LotInformationChanges, cmdVars, historyVars
<1>2. CASE RecipeDecode
  BY <1>2 DEF RecipeDecode
<1>3. CASE ParseSTDF
  <2>1. pc = "parse" /\ pc' = pc
    BY <1>3, ParsedField DEF ParseField, ParseCustom, cmdVars
  <2> QED BY <2>1
<1>4. CASE UpdateProgramLoad
  <2>1. pcState = "poll" /\ pcState' = "poll" /\ (pc' = "flow" => ~reloaded')
    BY <1>4 DEF UpdateProgramLoad, FieldsOK
  <2> QED BY <1>4, <2>1 DEF UpdateProgramLoad
<1>5. CASE LoadFails \/ SendTPParams \/ SendSpecDefault \/ SendDone \/ Return
  BY <1>5, <1>same DEF LoadFails, SendTPParams, SendSpecDefault, SendDone, Return,
                       historyVars
<1>6. CASE SetLotInformation
  BY <1>6, <1>same DEF SetLotInformation, historyVars
<1>7. CASE ProgramLoaded
  BY <1>7, <1>same DEF ProgramLoaded, historyVars
<1>8. CASE UpdateSTDF
  <2>1. /\ pc = "wait" /\ Unread /\ given' = given /\ strict' = strict
        /\ fa' = [HandTyp |-> args["HandTyp"].value,
                  GuiNam |-> args["GuiNam"].value, TrfXtrf |-> TrfXtrf]
    BY <1>8 DEF UpdateSTDF, Unread, historyVars
  <2>2. ArgOk("HandTyp") /\ ArgOk("GuiNam") /\ ArgOk("TrfXtrf") /\ ArgOk("FlowId")
    BY <2>1 DEF ArgsInv
  <2>3. FaTold'
    BY <2>1, <2>2 DEF FaTold, ArgOk, LeftOpen, TrfXtrf, FieldsOK
  <2> QED BY <2>3
<1>9. CASE UpdateSerialNumber \/ SendCustoms
  BY <1>9, <1>same DEF UpdateSerialNumber, SendCustoms, cmdVars, historyVars
<1>10. CASE SendNotificationComplete
  BY <1>10, <1>same DEF SendNotificationComplete, historyVars
<1>11. CASE UNCHANGED vars
  BY <1>11, <1>same DEF vars, cmdVars, historyVars
<1> QED
  BY <1>1, <1>2, <1>3, <1>4, <1>5, <1>6, <1>7, <1>8, <1>9, <1>10, <1>11
     DEF Next, CmdStep, StateStep

--------------------------------------------------------------------------------
(* Custom GDRs: what addCustom makes of the lists.                           *)

(* What Holds says of the numbers in a list. *)
LEMMA HeldNumbers ==
  ASSUME NEW l \in List, NEW names \in Seq(CustomNames), Holds(l, names)
  PROVE  /\ DOMAIN l.fields = 1..Len(l.fields) /\ Len(l.fields) \in Nat \ {0}
         /\ \A a \in DOMAIN l.fields :
              /\ l.fields[a] \in 1..Len(names)
              /\ names[l.fields[a]] = l.name
              /\ l.fields[1] <= l.fields[a]
<1>1. l.fields \in Seq(Nat)
  BY DEF List
<1>2. DOMAIN l.fields = 1..Len(l.fields) /\ Len(l.fields) \in Nat \ {0}
  BY <1>1, LenProperties, EmptySeq DEF Holds
<1>3. DOMAIN names = 1..Len(names)
  BY LenProperties
<1>4. ASSUME NEW a \in DOMAIN l.fields
      PROVE  /\ l.fields[a] \in 1..Len(names)
             /\ names[l.fields[a]] = l.name
             /\ l.fields[1] <= l.fields[a]
  <2>1. l.fields[a] \in DOMAIN names /\ names[l.fields[a]] = l.name
    BY <1>4 DEF Holds
  <2>2. 1 \in DOMAIN l.fields /\ l.fields[1] \in Nat /\ l.fields[a] \in Nat
    BY <1>1, <1>2, ElementOfSeq
  <2>3. a = 1 \/ l.fields[1] < l.fields[a]
    BY <1>2, <2>2 DEF Holds
  <2> QED BY <1>3, <2>1, <2>2, <2>3
<1> QED BY <1>2, <1>4

(* No two lists have the same name, so that the first of a name is the only. *)
LEMMA NamesDiffer ==
  ASSUME NEW lists \in Seq(List), NEW names \in Seq(CustomNames),
         Arranges(lists, names),
         NEW i \in DOMAIN lists, NEW j \in DOMAIN lists, i < j
  PROVE  lists[i].name # lists[j].name
<1> SUFFICES ASSUME lists[i].name = lists[j].name PROVE FALSE
  OBVIOUS
<1>1. lists[i] \in List /\ lists[j] \in List
  BY LenProperties, ElementOfSeq
<1>2. Holds(lists[i], names) /\ Holds(lists[j], names)
  BY DEF Arranges
<1>3. 1 \in DOMAIN lists[i].fields
  BY <1>1, <1>2, HeldNumbers
<1>4. PICK a \in DOMAIN lists[j].fields : lists[i].fields[1] = lists[j].fields[a]
  <2>1. {lists[i].fields[a] : a \in DOMAIN lists[i].fields}
          = {lists[j].fields[a] : a \in DOMAIN lists[j].fields}
    BY <1>2 DEF Holds
  <2>2. lists[i].fields[1] \in {lists[i].fields[a] : a \in DOMAIN lists[i].fields}
    BY <1>3
  <2> QED BY <2>1, <2>2
<1>5. /\ lists[j].fields[1] <= lists[j].fields[a]
      /\ lists[j].fields[a] \in Nat
  BY <1>1, <1>2, HeldNumbers
<1>6. lists[i].fields[1] < lists[j].fields[1]
  BY DEF Arranges
<1>7. 1 \in DOMAIN lists[j].fields /\ lists[j].fields[1] \in Nat
  BY <1>1, <1>2, HeldNumbers
<1> QED BY <1>4, <1>5, <1>6, <1>7

(* A field of another name leaves a list as it is right. *)
LEMMA OtherName ==
  ASSUME NEW l \in List, NEW names \in Seq(CustomNames), Holds(l, names),
         NEW name \in CustomNames, name # l.name
  PROVE  Holds(l, Append(names, name))
<1>1. /\ DOMAIN names = 1..Len(names) /\ Len(names) \in Nat
      /\ DOMAIN Append(names, name) = 1..(Len(names) + 1)
      /\ \A k \in 1..Len(names) : Append(names, name)[k] = names[k]
      /\ Append(names, name)[Len(names) + 1] = name
  BY LenProperties, AppendProperties
<1>2. {k \in DOMAIN Append(names, name) : Append(names, name)[k] = l.name}
        = {k \in DOMAIN names : names[k] = l.name}
  BY <1>1
<1> QED BY <1>2 DEF Holds

(* A field of its name comes last in a list. *)
LEMMA OwnName ==
  ASSUME NEW l \in List, NEW names \in Seq(CustomNames), Holds(l, names)
  PROVE  LET k == Len(names) + 1
             m == [l EXCEPT !.fields = Append(@, k)]
         IN  Holds(m, Append(names, l.name)) /\ m.fields[1] = l.fields[1]
<1> DEFINE k == Len(names) + 1
           m == [l EXCEPT !.fields = Append(@, k)]
           n == Append(names, l.name)
<1>1. /\ l.fields \in Seq(Nat) /\ l.name \in CustomNames
      /\ m.fields = Append(l.fields, k) /\ m.name = l.name
  BY DEF List
<1>2. /\ DOMAIN names = 1..Len(names) /\ Len(names) \in Nat
      /\ DOMAIN n = 1..k /\ \A c \in 1..Len(names) : n[c] = names[c]
      /\ n[k] = l.name
  BY <1>1, LenProperties, AppendProperties
<1>3. /\ DOMAIN l.fields = 1..Len(l.fields) /\ Len(l.fields) \in Nat \ {0}
      /\ \A a \in DOMAIN l.fields : l.fields[a] \in 1..Len(names)
  BY HeldNumbers
<1>4. /\ m.fields # << >>
      /\ DOMAIN m.fields = 1..(Len(l.fields) + 1)
      /\ \A a \in DOMAIN l.fields : m.fields[a] = l.fields[a]
      /\ m.fields[Len(l.fields) + 1] = k
  BY <1>1, <1>2, <1>3, LenProperties, AppendProperties
<1>5. {m.fields[a] : a \in DOMAIN m.fields}
        = {l.fields[a] : a \in DOMAIN l.fields} \union {k}
  BY <1>3, <1>4
<1>6. {c \in DOMAIN n : n[c] = l.name}
        = {c \in DOMAIN names : names[c] = l.name} \union {k}
  BY <1>2
<1>7. \A a, b \in DOMAIN m.fields : a < b => m.fields[a] < m.fields[b]
  <2> SUFFICES ASSUME NEW a \in DOMAIN m.fields, NEW b \in DOMAIN m.fields, a < b
               PROVE  m.fields[a] < m.fields[b]
    OBVIOUS
  <2>1. a \in DOMAIN l.fields /\ m.fields[a] = l.fields[a]
    BY <1>3, <1>4
  <2>2. CASE b \in DOMAIN l.fields
    BY <1>4, <2>1, <2>2 DEF Holds
  <2>3. CASE b = Len(l.fields) + 1
    BY <1>2, <1>3, <1>4, <2>1, <2>3
  <2>4. b \in 1..Len(l.fields) \/ b = Len(l.fields) + 1
    BY <1>3, <1>4
  <2> QED BY <1>3, <2>2, <2>3, <2>4
<1>8. Holds(m, n)
  BY <1>1, <1>4, <1>5, <1>6, <1>7 DEF Holds
<1> QED BY <1>3, <1>4, <1>8

(* addCustom keeps the fields arranged by name. *)
LEMMA AddCustomArranges ==
  ASSUME ListsOK, Arranges(customs, named), NEW name \in CustomNames
  PROVE  Arranges(AddCustom(name, Len(named) + 1), Append(named, name))
<1> DEFINE k == Len(named) + 1
           n == Append(named, name)
<1>1. /\ DOMAIN named = 1..Len(named) /\ Len(named) \in Nat /\ k \in Nat
      /\ DOMAIN n = 1..k /\ \A c \in 1..Len(named) : n[c] = named[c]
      /\ n[k] = name
  BY LenProperties, AppendProperties DEF ListsOK
<1>2. /\ DOMAIN customs = 1..Len(customs) /\ Len(customs) \in Nat
      /\ \A i \in DOMAIN customs : customs[i] \in List
  BY LenProperties, ElementOfSeq DEF ListsOK
<1>3. \A i \in DOMAIN customs :
        /\ Holds(customs[i], named)
        /\ customs[i].fields[1] \in 1..Len(named)
  <2> SUFFICES ASSUME NEW i \in DOMAIN customs
               PROVE  /\ Holds(customs[i], named)
                      /\ customs[i].fields[1] \in 1..Len(named)
    OBVIOUS
  <2>1. customs[i] \in List /\ Holds(customs[i], named)
    BY <1>2 DEF Arranges
  <2> QED BY <2>1, HeldNumbers DEF ListsOK
<1>4. \A i, j \in DOMAIN customs : i < j => customs[i].name # customs[j].name
  BY NamesDiffer DEF ListsOK
<1>5. \A i \in DOMAIN customs : customs[i].name = name <=> i \in Found(name)
  BY <1>2, <1>4 DEF Found
<1>6. CASE Found(name) = {}
  <2> DEFINE new == [name |-> name, fields |-> <<k>>]
             lists == Append(customs, new)
  <2>1. new \in List
    BY <1>1 DEF List
  <2>2. /\ DOMAIN lists = 1..(Len(customs) + 1)
        /\ \A i \in DOMAIN customs : lists[i] = customs[i]
        /\ lists[Len(customs) + 1] = new
    BY <1>2, <2>1, LenProperties, AppendProperties DEF ListsOK
  <2>3. \A c \in DOMAIN n : \E i \in DOMAIN lists : lists[i].name = n[c]
    <3>1. ASSUME NEW c \in 1..Len(named)
          PROVE  \E i \in DOMAIN lists : lists[i].name = n[c]
      BY <1>1, <1>2, <2>2 DEF Arranges
    <3>2. \E i \in DOMAIN lists : lists[i].name = n[k]
      BY <1>1, <1>2, <2>2
    <3> QED BY <1>1, <3>1, <3>2
  <2>4. \A i \in DOMAIN lists : Holds(lists[i], n)
    <3>1. ASSUME NEW i \in DOMAIN customs PROVE Holds(lists[i], n)
      BY <1>2, <1>3, <1>5, <1>6, <2>2, OtherName DEF ListsOK
    <3>2. Holds(new, n)
      <4>1. {c \in DOMAIN n : n[c] = name} = {k}
        BY <1>1, <1>5, <1>6 DEF Arranges
      <4> QED BY <4>1 DEF Holds
    <3> QED BY <1>2, <2>2, <3>1, <3>2
  <2>5. \A i, j \in DOMAIN lists : i < j => lists[i].fields[1] < lists[j].fields[1]
    <3>1. new.fields[1] = k
      OBVIOUS
    <3> QED BY <1>1, <1>2, <1>3, <2>2, <3>1 DEF Arranges
  <2> QED BY <1>6, <2>3, <2>4, <2>5 DEF Arranges, AddCustom, WithNew
<1>7. CASE Found(name) # {}
  <2> DEFINE lists == WithField(name, k)
  <2>1. /\ DOMAIN lists = DOMAIN customs
        /\ \A i \in DOMAIN customs :
             /\ i \in Found(name)
                  => lists[i] = [customs[i] EXCEPT !.fields = Append(@, k)]
             /\ i \notin Found(name) => lists[i] = customs[i]
    BY DEF WithField
  <2>2. \A i \in DOMAIN customs : /\ Holds(lists[i], n)
                                  /\ lists[i].fields[1] = customs[i].fields[1]
                                  /\ lists[i].name = customs[i].name
    <3> SUFFICES ASSUME NEW i \in DOMAIN customs
                 PROVE  /\ Holds(lists[i], n)
                        /\ lists[i].fields[1] = customs[i].fields[1]
                        /\ lists[i].name = customs[i].name
      OBVIOUS
    <3>1. CASE i \in Found(name)
      <4>1. /\ lists[i] = [customs[i] EXCEPT !.fields = Append(@, k)]
            /\ customs[i].name = name /\ customs[i] \in List
            /\ Holds(customs[i], named)
        BY <1>2, <1>3, <1>5, <2>1, <3>1
      <4>2. lists[i].name = customs[i].name
        BY <4>1 DEF List
      <4>3. LET m == [customs[i] EXCEPT !.fields = Append(@, Len(named) + 1)]
            IN  /\ Holds(m, Append(named, customs[i].name))
                /\ m.fields[1] = customs[i].fields[1]
        BY <4>1, OwnName DEF ListsOK
      <4> HIDE DEF lists
      <4> QED BY <4>1, <4>2, <4>3
    <3>2. CASE i \notin Found(name)
      <4>1. lists[i] = customs[i] /\ customs[i].name # name /\ customs[i] \in List
        BY <1>2, <1>5, <2>1, <3>2
      <4> QED BY <1>3, <4>1, OtherName DEF ListsOK
    <3> QED BY <3>1, <3>2
  <2>3. \A c \in DOMAIN n : \E i \in DOMAIN lists : lists[i].name = n[c]
    <3>1. ASSUME NEW c \in 1..Len(named)
          PROVE  \E i \in DOMAIN lists : lists[i].name = n[c]
      BY <1>1, <2>1, <2>2 DEF Arranges
    <3>2. \E i \in DOMAIN lists : lists[i].name = n[k]
      BY <1>1, <1>5, <1>7, <2>1, <2>2 DEF Found
    <3> QED BY <1>1, <3>1, <3>2
  <2>4. \A i, j \in DOMAIN lists : i < j => lists[i].fields[1] < lists[j].fields[1]
    BY <2>1, <2>2 DEF Arranges
  <2> QED BY <1>7, <2>1, <2>2, <2>3, <2>4 DEF Arranges, AddCustom
<1> QED BY <1>6, <1>7

LEMMA NothingArranged == Arranges(<< >>, << >>)
BY DEF Arranges

(* The lists follow the recipe, and the FAmodule gets them while it waits. *)
LEMMA CustomsStep ==
  Quiet /\ FieldsOK /\ ListsOK /\ TurnInv /\ CustomsInv /\ [Next]_vars
    => CustomsInv'
<1> SUFFICES ASSUME Quiet, FieldsOK, ListsOK, TurnInv, CustomsInv, [Next]_vars
             PROVE  CustomsInv'
  OBVIOUS
<1> USE DEF CustomsInv, CustomsTold, ReloadKnown, TurnInv
<1>1. CASE RecipeDecodeAvailable
  BY <1>1 DEF RecipeDecodeAvailable, cmdVars, historyVars
<1>2. CASE RecipeDecode
  BY <1>2, NothingArranged DEF RecipeDecode
<1>3. CASE ParseSTDF
  <2>1. ASSUME NEW f \in Fields \ {"ExecTyp"}, ParseField(f) PROVE CustomsInv'
    BY <2>1 DEF ParseField, cmdVars, listVars
  <2>2. ASSUME NEW name \in CustomNames, ParseCustom(name) PROVE CustomsInv'
    BY <2>2, AddCustomArranges DEF ParseCustom, cmdVars
  <2> QED BY <1>3, <2>1, <2>2, ParsedField
<1>4. CASE UpdateProgramLoad
  <2>1. pcState = "poll" /\ pcState' = "poll" /\ (pc' = "flow" => ~reloaded')
    BY <1>4 DEF UpdateProgramLoad, FieldsOK
  <2> QED BY <1>4, <2>1 DEF UpdateProgramLoad, listVars
<1>5. CASE LoadFails \/ SendTPParams \/ SendSpecDefault \/ SendDone \/ Return
             \/ SetLotInformation \/ LotInformationChanges
  BY <1>5 DEF LoadFails, SendTPParams, SendSpecDefault, SendDone, Return,
              SetLotInformation, LotInformationChanges, cmdVars, historyVars,
              listVars
<1>6. CASE ProgramLoaded \/ UpdateSTDF \/ UpdateSerialNumber
  BY <1>6 DEF ProgramLoaded, UpdateSTDF, UpdateSerialNumber, cmdVars, historyVars,
              listVars
<1>7. CASE SendCustoms
  BY <1>7 DEF SendCustoms, Walk, cmdVars, historyVars
<1>8. CASE SendNotificationComplete
  BY <1>8 DEF SendNotificationComplete, historyVars, listVars
<1>9. CASE UNCHANGED vars
  BY <1>9 DEF vars, cmdVars, historyVars
<1> QED
  BY <1>1, <1>2, <1>3, <1>4, <1>5, <1>6, <1>7, <1>8, <1>9
     DEF Next, CmdStep, StateStep

(* While the operator loads nothing, the recipe and the handler take turns    *)
(* with the structures: the invariant behind the two theorems below.          *)
THEOREM ParamsInvariant == ASSUME Quiet PROVE Spec => []ParamsInv
<1>1. ParamsInv /\ [Next]_vars => ParamsInv'
  BY FieldsStep, ListsStep, TurnStep, ArgsStep, LotStep, FaStep, CustomsStep
     DEF ParamsInv, TypeOK
<1> QED BY ParamsInit, <1>1, PTL DEF Spec

(* What a finished recipe leaves in lot information is what it asked for.     *)
THEOREM RecipeDelivered == ASSUME Quiet PROVE Spec => []Delivered
<1>1. ParamsInv => Delivered
  BY DEF ParamsInv, LotInv
<1> QED BY ParamsInvariant, <1>1, PTL

(* A recipe that had a program loaded goes on when the FAmodule knows its     *)
(* fields.  Of a TRF-XTRF that is given and not strict this says only that the *)
(* FAmodule has it or lotid_flowid (userInterface.cpp:267-269, 936-1072).     *)
THEOREM FaToldFirst == ASSUME Quiet PROVE Spec => []FaFollowsRecipe
<1>1. ParamsInv => FaFollowsRecipe
  BY DEF ParamsInv, FaInv, FaFollowsRecipe, ReloadKnown
<1> QED BY ParamsInvariant, <1>1, PTL

(* And all its custom GDRs, arranged by name, however many there are.         *)
THEOREM CustomsToldFirst == ASSUME Quiet PROVE Spec => []CustomsTold
<1>1. ParamsInv => CustomsTold
  BY DEF ParamsInv, CustomsInv
<1> QED BY ParamsInvariant, <1>1, PTL
================================================================================
