----------------------------- MODULE OrgPolicy -----------------------------
(***************************************************************************)
(* packages/config-engine/src/org-policy.ts: an organisation's policies.   *)
(* There are two stores, both filled with the default templates: policies  *)
(* is what createPolicy, updatePolicy and deletePolicy change and          *)
(* listPolicies shows; templates is where activatePolicy and the checks    *)
(* look.  Of a policy's rules the one on autonomy is kept, the only one a  *)
(* member is checked against.                                              *)
(***************************************************************************)
EXTENDS Naturals, Sequences, SequencesExt, FiniteSets, Functions

CONSTANTS
    Members,            \* identifiers of members
    Own,                \* the identifier of a policy of the organisation's own
    EditedIds,          \* bound on the policies and templates edited
    EditedRules,        \* bound on the rules they are given
    MaxEdits,           \* bound on the edits
    MaxActive           \* bound on the identifiers a configuration activates

VARIABLES
    templates,          \* identifier -> the template
    policies,           \* identifier -> the policy
    orgConfig,          \* [activePolicies, members], or none
    edits               \* edits made so far

orgVars == <<templates, policies, orgConfig, edits>>

Ids == {"enterprise-base", "startup-flex", "strict-compliance", Own}

Autonomy == 1..3        \* N1 to N3

Rules == [maxAutonomyLevel : Autonomy, mandatory : BOOLEAN]

ASSUME EditsAssumption ==
    /\ EditedIds \subseteq Ids /\ EditedRules \subseteq Rules
    /\ {MaxEdits, MaxActive} \subseteq Nat

Policy == [rule : Rules, version : 1..MaxEdits + 1]

NoOrg == [activePolicies |-> <<>>, members |-> <<>>]

IdLists == BoundedSeq(Ids, MaxActive)

Orgs == [activePolicies : IdLists,
         members : UNION {[M -> Autonomy] : M \in SUBSET Members}]

OrgTypeOK ==
    /\ DOMAIN templates \subseteq Ids /\ Range(templates) \subseteq Policy
    /\ DOMAIN policies \subseteq Ids /\ Range(policies) \subseteq Policy
    /\ orgConfig = NoOrg \/ orgConfig \in Orgs
    /\ edits \in 0..MaxEdits

-----------------------------------------------------------------------------
First(level, mandatory) ==
    [rule |-> [maxAutonomyLevel |-> level, mandatory |-> mandatory], version |-> 1]

DEFAULT_TEMPLATES ==
    [id \in Ids \ {Own} |->
        CASE id = "enterprise-base" -> First(2, TRUE)
          [] id = "startup-flex" -> First(3, FALSE)
          [] OTHER -> First(1, TRUE)]

OrgInit ==
    /\ templates = DEFAULT_TEMPLATES
    /\ policies = DEFAULT_TEMPLATES
    /\ orgConfig = NoOrg
    /\ edits = 0

With(store, id, policy) ==
    [i \in DOMAIN store \cup {id} |-> IF i = id THEN policy ELSE store[i]]

\* Mutant: what is listed is what is enforced.
getTemplate_Policies(id) ==
    IF id \in DOMAIN policies THEN policies[id] ELSE templates[id]

getTemplate(id) == templates[id]

setOrgConfig(ids, members) ==
    /\ orgConfig' = [activePolicies |-> ids, members |-> members]
    /\ UNCHANGED <<templates, policies, edits>>

\* The identifier is the name in lower case, other signs made dashes: the
\* name of a default template makes the template's own identifier.
createPolicy(id, rule) ==
    /\ policies' = With(policies, id, [rule |-> rule, version |-> 1])
    /\ edits' = edits + 1
    /\ UNCHANGED <<templates, orgConfig>>

\* Told by its identifier a policy is the one that is listed; told by its
\* name it is the template, and its version counts on from the template's.
updatePolicy(id, byName, rule) ==
    LET store == IF byName THEN templates ELSE policies IN
    /\ id \in DOMAIN store
    /\ policies' = With(policies, id,
            [rule |-> rule, version |-> store[id].version + 1])
    /\ edits' = edits + 1
    /\ UNCHANGED <<templates, orgConfig>>

deletePolicy(id) ==
    /\ policies' = Restrict(policies, DOMAIN policies \ {id})
    /\ edits' = edits + 1
    /\ UNCHANGED <<templates, orgConfig>>

addTemplate(id, rule) ==
    LET known == id \in DOMAIN templates IN
    /\ templates' = With(templates, id,
            [rule |-> rule,
             version |-> IF known THEN templates[id].version + 1 ELSE 1])
    /\ edits' = edits + 1
    /\ UNCHANGED <<policies, orgConfig>>

-----------------------------------------------------------------------------
activatePolicy(id) ==
    /\ orgConfig # NoOrg
    /\ id \in DOMAIN templates
    /\ ~Contains(orgConfig.activePolicies, id)
    /\ Len(orgConfig.activePolicies) < MaxActive
    /\ orgConfig' = [orgConfig EXCEPT !.activePolicies = Append(@, id)]
    /\ UNCHANGED <<templates, policies, edits>>

\* One occurrence goes; a configuration may have listed it twice.
deactivatePolicy(id) ==
    /\ orgConfig # NoOrg
    /\ Contains(orgConfig.activePolicies, id)
    /\ orgConfig' = [orgConfig EXCEPT !.activePolicies = RemoveFirst(@, id)]
    /\ UNCHANGED <<templates, policies, edits>>

addMember(m, profile) ==
    /\ orgConfig # NoOrg
    /\ orgConfig' = [orgConfig EXCEPT !.members = With(@, m, profile)]
    /\ UNCHANGED <<templates, policies, edits>>

removeMember(m) ==
    /\ orgConfig # NoOrg
    /\ orgConfig' = [orgConfig EXCEPT !.members = Restrict(@, DOMAIN @ \ {m})]
    /\ UNCHANGED <<templates, policies, edits>>

-----------------------------------------------------------------------------
\* An identifier without a template counts for nothing.
getActivePolicies ==
    {getTemplate(id) : id \in Range(orgConfig.activePolicies) \cap DOMAIN templates}

exceeded(m) ==
    {p \in getActivePolicies : orgConfig.members[m] > p.rule.maxAutonomyLevel}

\* What exceeds a rule that is not mandatory is a warning.
validateMemberCompliance(m) ==
    /\ m \in DOMAIN orgConfig.members
    /\ \A p \in exceeded(m) : ~p.rule.mandatory

validateAllCompliance ==
    /\ orgConfig # NoOrg
    /\ \A m \in DOMAIN orgConfig.members : validateMemberCompliance(m)

-----------------------------------------------------------------------------
OrgNext ==
    \/ \E ids \in IdLists, m \in Members, a \in Autonomy :
        setOrgConfig(ids, [x \in {m} |-> a])
    \/ \E id \in EditedIds :
        /\ edits < MaxEdits
        /\ \/ deletePolicy(id)
           \/ \E rule \in EditedRules :
                \/ createPolicy(id, rule)
                \/ \E byName \in BOOLEAN : updatePolicy(id, byName, rule)
                \/ addTemplate(id, rule)
    \/ \E id \in Ids : activatePolicy(id) \/ deactivatePolicy(id)
    \/ \E m \in Members :
        \/ \E profile \in Autonomy : addMember(m, profile)
        \/ removeMember(m)

verdicts == {m \in Members : m \in DOMAIN orgConfig.members
                                /\ validateMemberCompliance(m)}

active == Range(orgConfig.activePolicies)

(***************************************************************************)
(* More active policies never make a member pass and fewer never make one  *)
(* fail; and what is done to the listed policies, the update or deletion   *)
(* of an active one included, leaves every verdict as it was               *)
(* (org-policy.ts:212, :272).                                              *)
(***************************************************************************)
VerdictsFollowTemplates ==
    [][/\ policies' # policies => verdicts' = verdicts
       /\ templates' = templates /\ orgConfig'.members = orgConfig.members =>
            /\ active \subseteq active' => verdicts' \subseteq verdicts
            /\ active' \subseteq active => verdicts \subseteq verdicts']_orgVars
=============================================================================
