------------------------------ MODULE MCConfig ------------------------------
(***************************************************************************)
(* A bounded instance of the components of config-engine and of the score  *)
(* of compliance.  Each is explored while the others are as constructed;   *)
(* what two of them share (a file, a directory) is in the module of the    *)
(* one it matters to.                                                      *)
(***************************************************************************)
EXTENDS JsonFile, ConfigEngine, ConfigVersioning, ContextSwitcher,
        OrgPolicy, EnvSources, Compliance, ConfigEditors

CONSTANTS path, allowed, other, member, own

MCallowedValues == [p \in Paths |-> {allowed}]

MCEnvLines == [key : {"JWT_SECRET", "PORT"}, value : {"", "1"}]

\* For each key the texts its conversions tell apart.
MCEnvAssigned ==
    [key : {"JWT_SECRET"}, value : {Missing, "", "change-me-in-production", "N2"}] \cup
    [key : {"PORT"}, value : {"", "0", "1", "1e3", "8080abc", "N2"}] \cup
    [key : {"ENABLE_TELEMETRY"}, value : {"", "true", "1", "false", "0", "yes", "N2"}] \cup
    [key : {"NODE_ENV"}, value : {Missing, "production", "N2"}] \cup
    [key : {"AUTH_PROVIDER"}, value : {Missing, "auth0", "N2"}] \cup
    [key : {"IDEIA_DEFAULT_AUTONOMY"}, value : {"1", "N2"}]

MCKeys == {[prefix |-> "ui", name |-> "theme"], [prefix |-> "", name |-> "proxy"]}

MCFormValues == {Text("dark"), Numeral("1"), Null}

\* An enumeration, a number and a boolean.
MCEditedPaths == {<<"autonomy", "level">>, <<"scanners", "interval">>, <<"safety", "sandbox">>}

MCEditedValues ==
    {Text("N2"), Text("true"), Text("5"), Numeral("1"), Numeral("NaN"),
     Boolean("true"), Boolean("false"), List("N2")}

MCEditedIds == {"strict-compliance", own}

MCEditedRules ==
    {[maxAutonomyLevel |-> 1, mandatory |-> TRUE], [maxAutonomyLevel |-> 3, mandatory |-> TRUE],
     [maxAutonomyLevel |-> 2, mandatory |-> FALSE]}

mcVars == <<jsonVars, engineVars, versioningVars, historyVars, contextVars,
            orgVars, envVars, complianceVars, formVars, documentVars>>

AllInit ==
    /\ JsonInit
    /\ EngineInit
    /\ VersioningInit
    /\ HistoryInit
    /\ ContextInit
    /\ OrgInit
    /\ EnvInit
    /\ ComplianceInit
    /\ FormInit
    /\ DocumentInit

\* The other parts are, and stay, as constructed.
Only(part) ==
    /\ part # "file" => JsonInit /\ UNCHANGED jsonVars
    /\ part # "engine" => EngineInit /\ UNCHANGED engineVars
    /\ part # "versioning" => VersioningInit /\ UNCHANGED versioningVars
    /\ part # "history" => HistoryInit /\ UNCHANGED historyVars
    /\ part # "context" => ContextInit /\ UNCHANGED contextVars
    /\ part # "org" => OrgInit /\ UNCHANGED orgVars
    /\ part # "env" => EnvInit /\ UNCHANGED envVars
    /\ part # "compliance" => ComplianceInit /\ UNCHANGED complianceVars
    /\ part # "form" => FormInit /\ UNCHANGED formVars
    /\ part # "document" => DocumentInit /\ UNCHANGED documentVars

OneAtATime ==
    \/ Only("file") /\ JsonNext
    \/ Only("engine") /\ EngineNext
    \/ Only("versioning") /\ VersioningNext
    \/ Only("history") /\ HistoryNext
    \/ Only("context") /\ ContextNext
    \/ Only("org") /\ OrgNext
    \/ Only("env") /\ EnvNext
    \/ Only("compliance") /\ ComplianceNext
    \/ Only("form") /\ FormNext
    \/ Only("document") /\ DocumentNext

MCSpec == AllInit /\ [][OneAtATime]_mcVars

(***************************************************************************)
(* The state of every component has its type.                              *)
(***************************************************************************)
AllTypesOK ==
    /\ JsonTypeOK
    /\ EngineTypeOK
    /\ VersioningTypeOK
    /\ HistoryTypeOK
    /\ ContextTypeOK
    /\ OrgTypeOK
    /\ EnvTypeOK
    /\ ComplianceTypeOK
    /\ EditorTypeOK

(***************************************************************************)
(* The snapshot index lists what memory does, and a numbered version keeps *)
(* its file (config-versioning.ts:153, config-history.ts:100).             *)
(***************************************************************************)
VersionsOnDisk == IndexOnDisk /\ VersionsKept

(***************************************************************************)
(* What a reader is told follows from what it reads: env files give way to *)
(* the process and to the files before them, the two readers of the        *)
(* environment agree on exactly the texts their conversions treat alike,   *)
(* and a score adds up, with a chain of evidence that verifies while       *)
(* nothing in it was rewritten (config-manager.ts:186 and 262,             *)
(* env-config.ts:71, score-calculator.ts:12).                              *)
(* And the editors show and accept what is in them (config-ui.ts:184,      *)
(* schema-aware-editor.ts:199).                                            *)
(***************************************************************************)
ReadersAndScores ==
    /\ FirstValueWins /\ ReadersAgree /\ ScoresAddUp
    /\ MarksAreChanges /\ EditorsAgree
=============================================================================
