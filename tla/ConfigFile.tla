------------------------------- MODULE ConfigFile -------------------------------
(***************************************************************************)
(* The configuration file.  Before anything else the handler reads          *)
(* <RECIPEHANDLER_CONF>: which <SiteConfiguration> is active, where programs *)
(* go, which messages the host wants.  One child tag is read per step, in    *)
(* the order of the file, because what a tag does depends on those before    *)
(* it.  A file that is missing, not XML or has another root is one without   *)
(* children: parsing it succeeds and sets nothing.                           *)
(*                                                                           *)
(* A site is its name and the attributes of all its <argParameter> tags, as  *)
(* a function.  Tags and attributes the code only logs are left out, and so  *)
(* is CRecipeConfig's assignment operator, which nothing calls.              *)
(***************************************************************************)
EXTENDS Naturals, Sequences

CONSTANTS
  SiteNames,    \* names of site configurations
  Keys,         \* the attributes of CRecipeConfig, or those a model follows
  Values,       \* what they are set to, or a cleared field holds
  SiteParams,   \* the parameter lists sites may have
  MaxTags       \* bound: child tags of the file

Blank == ""    \* a cleared string

ASSUME KeysAssumption == "ProgLocation" \in Keys
ASSUME ValuesAssumption == Blank \in Values
ASSUME SiteParamsAssumption ==
  \A p \in SiteParams : DOMAIN p \subseteq Keys /\ \A k \in DOMAIN p : p[k] \in Values
ASSUME MaxTagsAssumption == MaxTags \in Nat

VARIABLES
  file,         \* the child tags of <RECIPEHANDLER_CONF>
  tagNo,         \* index of the child tag to read
  configName,   \* configName; m_ConfigArgs.ConfigurationName is the same
  config,       \* m_ConfigArgs
  stage         \* main(): "reading", then "serving" or "exited"

configVars == <<file, tagNo, configName, config, stage>>

--------------------------------------------------------------------------------
Choice(n) == [tag |-> "CurrentSiteConfiguration", name |-> n]
Site(n, p) == [tag |-> "SiteConfiguration", name |-> n, params |-> p]
Tags == {Choice(n) : n \in SiteNames}
          \union {Site(n, p) : n \in SiteNames, p \in SiteParams}
Files == UNION {[1..len -> Tags] : len \in 0..MaxTags}

IsChoice(t) == t.tag = "CurrentSiteConfiguration"
IsSite(t) == t.tag = "SiteConfiguration"

ConfigTypeOK ==
  /\ file \in Seq(Tags) /\ tagNo \in 1..(Len(file) + 1)
  /\ configName \in SiteNames \union {Blank}
  /\ config \in [Keys -> Values]
  /\ stage \in {"reading", "serving", "exited"}

(* clearConfigParams, then the root tag. *)
ConfigInit ==
  /\ file \in Files /\ tagNo = 1
  /\ configName = Blank
  /\ config = [k \in Keys |-> Blank]
  /\ stage = "reading"

--------------------------------------------------------------------------------
Reading == stage = "reading" /\ tagNo <= Len(file)

(* <CurrentSiteConfiguration ConfigurationName="..."> *)
ReadChoice ==
  /\ Reading /\ IsChoice(file[tagNo])
  /\ configName' = file[tagNo].name
  /\ tagNo' = tagNo + 1
  /\ UNCHANGED <<file, config, stage>>

(* parseSiteConfiguration: every parameter the site gives replaces the field. *)
Overridden(p) == [k \in Keys |-> IF k \in DOMAIN p THEN p[k] ELSE config[k]]

(* Seeded fault: the site's name is not compared. *)
ReadSiteOfAnyName ==
  /\ Reading /\ IsSite(file[tagNo])
  /\ config' = Overridden(file[tagNo].params)
  /\ tagNo' = tagNo + 1
  /\ UNCHANGED <<file, configName, stage>>

(* <SiteConfiguration ConfigurationName="...">: parsed if its name is the one *)
(* chosen so far, skipped if not.                                             *)
ReadSite ==
  /\ Reading /\ IsSite(file[tagNo])
  /\ config' = IF file[tagNo].name = configName THEN Overridden(file[tagNo].params)
               ELSE config
  /\ tagNo' = tagNo + 1
  /\ UNCHANGED <<file, configName, stage>>

(* checkProgLocation: serve, or exit.  checkConfigParams, which would look at *)
(* the other fields, is never called.  The tree of the file and configName     *)
(* are let go; m_ConfigArgs.ConfigurationName is only printed.                *)
CheckProgLocation ==
  /\ stage = "reading" /\ tagNo > Len(file)
  /\ stage' = IF config["ProgLocation"] = Blank THEN "exited" ELSE "serving"
  /\ file' = <<>> /\ tagNo' = 1 /\ configName' = Blank
  /\ config' = config

ConfigNext == ReadChoice \/ ReadSite \/ CheckProgLocation

--------------------------------------------------------------------------------
(* The choice "specifies the active <SiteConfiguration>"                      *)
(* (userInterface.cpp:2536-2537), whose parameters the handler works with.    *)
Sets(i, k) == /\ IsSite(file[i]) /\ file[i].name = configName
              /\ k \in DOMAIN file[i].params

LastWord(n, k) ==
  \/ config[k] = Blank /\ \A i \in 1..(n - 1) : ~Sets(i, k)
  \/ \E i \in 1..(n - 1) : /\ Sets(i, k) /\ config[k] = file[i].params[k]
                           /\ \A j \in (i + 1)..(n - 1) : ~Sets(j, k)

ChoiceFirst == Len(file) > 0 => /\ IsChoice(file[1])
                                /\ \A i \in 2..Len(file) : IsSite(file[i])

(* When the file has been read and its one choice comes before the sites,     *)
(* every field is what the chosen site says, the last mention winning, and    *)
(* empty where it says nothing (userInterface.cpp:2548-2590).  The code does  *)
(* not "find that first": without the premise this does not hold.             *)
ChosenSiteRules ==
  stage = "reading" /\ tagNo > Len(file) /\ ChoiceFirst
    => \A k \in Keys : LastWord(tagNo, k)

(* The same while the file is being read: what has been read so far decides,  *)
(* and the name compared with is the choice, once it is read.                 *)
PrefixRules ==
  stage = "reading" /\ ChoiceFirst =>
    /\ \A k \in Keys : LastWord(tagNo, k)
    /\ tagNo > 1 => configName = file[1].name
    /\ tagNo = 1 => config = [k \in Keys |-> Blank]

(* No session starts without a place for programs (recipeHandler.cpp:76).     *)
ServesWithLocation == stage = "serving" => config["ProgLocation"] # Blank

ConfigInv == ConfigTypeOK /\ PrefixRules /\ ServesWithLocation
================================================================================
