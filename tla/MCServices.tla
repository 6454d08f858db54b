----------------------------- MODULE MCServices -----------------------------
(***************************************************************************)
(* A bounded instance of the in-process services: caches, the agent        *)
(* coordinator, the plugin SDK, the memory hierarchy, the provenance       *)
(* chains, the strict JSON scanner, the identifiers and the doubles of the *)
(* ports.  They share no state, so a behaviour explores one of them,       *)
(* chosen at the start, and the others stay as constructed.  (Those that   *)
(* are constructed in several ways are explored from each of them; while   *)
(* another is explored, one will do.)                                      *)
(***************************************************************************)
EXTENDS Caches, AgentCoordinator, PluginSdk, MemoryHierarchy, Provenance,
        StrictJson, Identifiers, PortDoubles

CONSTANTS a1, a2, str_a, str_aa, str_b, str_bad, str_long

MCskill == a1 :> 100 @@ a2 :> 50

MCMaxAccesses == [working |-> 3, project |-> 5]

\* Two ways to write the first name, one to write the second, one that does
\* not decode and one of a name that is too long.
MCdecode == str_a :> 1 @@ str_aa :> 1 @@ str_b :> 2 @@ str_bad :> 0 @@ str_long :> 3

VARIABLE explored

Services == {"levels", "memory", "coordinator", "loader", "plugins",
             "hierarchy", "provenance", "json", "ids", "ports"}

mcVars == <<explored, levelsVars, memoryVars, coordinatorVars, loaderVars,
            pluginVars, hierarchyVars, provenanceVars, jsonTextVars,
            idVars, portVars>>

AllInit ==
    /\ explored \in Services
    /\ LevelsInit /\ MemoryInit /\ CoordinatorInit /\ LoaderInit /\ PluginInit
    /\ HierarchyInit /\ ProvenanceInit /\ StrictJsonInit /\ IdInit /\ PortInit
    /\ explored # "memory" => policy = "LRUCache"
    /\ explored # "coordinator" => loadBalanceStrategy = "round-robin"
    /\ explored # "loader" => format = "cjs"
    /\ explored # "provenance" => tracker = "provenance"
    /\ explored # "ports" => port = "tool"

\* Everything but this service stands still.
Only(service) ==
    /\ explored = service /\ UNCHANGED explored
    /\ service # "levels" => UNCHANGED levelsVars
    /\ service # "memory" => UNCHANGED memoryVars
    /\ service # "coordinator" => UNCHANGED coordinatorVars
    /\ service # "loader" => UNCHANGED loaderVars
    /\ service # "plugins" => UNCHANGED pluginVars
    /\ service # "hierarchy" => UNCHANGED hierarchyVars
    /\ service # "provenance" => UNCHANGED provenanceVars
    /\ service # "json" => UNCHANGED jsonTextVars
    /\ service # "ids" => UNCHANGED idVars
    /\ service # "ports" => UNCHANGED portVars

OneOfThem ==
    \/ Only("levels") /\ LevelsNext
    \/ Only("memory") /\ MemoryNext
    \/ Only("coordinator") /\ CoordinatorNext
    \/ Only("loader") /\ LoaderNext
    \/ Only("plugins") /\ PluginNext
    \/ Only("hierarchy") /\ HierarchyNext
    \/ Only("provenance") /\ ProvenanceNext
    \/ Only("json") /\ StrictJsonNext
    \/ Only("ids") /\ IdNext
    \/ Only("ports") /\ PortNext

MCSpec == AllInit /\ [][OneOfThem]_mcVars

(***************************************************************************)
(* The state of every service has its type.                                *)
(***************************************************************************)
AllTypesOK ==
    /\ LevelsTypeOK /\ MemoryTypeOK /\ CoordinatorTypeOK /\ LoaderTypeOK
    /\ PluginTypeOK /\ HierarchyTypeOK /\ ProvenanceTypeOK /\ StrictJsonTypeOK
    /\ IdTypeOK /\ PortTypeOK

(***************************************************************************)
(* Chains, indexes and lineages tell where an entry came from, whatever    *)
(* was dropped, exported or imported; and between the levels of memory an  *)
(* entry moves up only by the reads that earn it.                          *)
(***************************************************************************)
ProvenanceHolds ==
    ChainsUnbroken /\ IndexesAgree /\ LineageComplete /\ PromotionsEarned

(***************************************************************************)
(* The scanner accepts just the JSON values, the canonical form of one is  *)
(* a fixed point, a value is refused when an object occurs in it twice,    *)
(* and Merkle proofs verify just where their trees have no padding.        *)
(***************************************************************************)
FormsAndProofs ==
    AcceptsValues /\ CanonicalIsFixed /\ RefusedWhenShared /\ ProofsVerifyAtFullPaths

(***************************************************************************)
(* An identifier is of one kind for its parser, the contracts and the      *)
(* catalog alike; the doubles give each scripted answer once, whole; and   *)
(* the frames of the scanner are the containers it is in, so that what it  *)
(* accepts has no name twice and keeps the limits.                         *)
(***************************************************************************)
EdgesAgree ==
    /\ IdsOfOneKind /\ ItemsOnce /\ AnswersAreOwn
    /\ FramesMirrorText /\ AcceptedIsStrict
=============================================================================
