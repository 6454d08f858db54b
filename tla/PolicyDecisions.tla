--------------------------- MODULE PolicyDecisions ---------------------------
(***************************************************************************)
(* The decisions of packages/policy-engine/src.  First team-policy.ts: the *)
(* policies of the teams, the one in force (`policy`), and what is decided *)
(* under it.  Then the two rule evaluators and their audit.                *)
(*                                                                         *)
(* The text of an action is the set of words evaluate() looks for in it:   *)
(* rule identifiers and the words of the built-in rules.  Of a document    *)
(* that is loaded only version and rules are checked: its metadata may     *)
(* name no team or be missing, and this the model keeps.                   *)
(***************************************************************************)
EXTENDS Integers, Sequences, SequencesExt, FiniteSets

CONSTANTS
    Teams,
    RuleIds,
    RuleLists,     \* the rules a document may have, sequences of Rule
    MaxStamp,      \* bound on the documents made
    NoTeam,        \* the team of a document whose metadata names none of Teams
    NoMetadata,    \* the team of a document that has no metadata
    NoPolicy

Roles == {"dev", "lead"}

ASSUME StampAssumption == MaxStamp \in Nat

ASSUME MarkersAssumption ==
    /\ NoTeam # NoMetadata /\ {NoTeam, NoMetadata} \cap Teams = {}
    /\ NoPolicy \notin [team : {NoMetadata}, stamp : 1..MaxStamp, rules : RuleLists]

BuiltInWords == {"autonomy", "n3", "audit"}

Rule == [id : RuleIds, action : {"block", "ask", "auto"}, appliesTo : SUBSET (Roles \cup {"*"})]

VARIABLES
    policies,      \* team -> its document
    policy,        \* the document in force, NoPolicy for null
    stamp,         \* documents made so far: their identity
    recreated,     \* history: the team in force got a second document
    cut            \* history: the last call that got past its checks threw

teamVars == <<policies, policy, stamp, recreated, cut>>

IsDocument(d) ==
    d.team \in Teams \cup {NoTeam, NoMetadata} /\ d.stamp \in 1..MaxStamp /\ d.rules \in RuleLists

TeamTypeOK ==
    /\ DOMAIN policies \subseteq Teams \cup {NoTeam}
    /\ \A t \in DOMAIN policies : IsDocument(policies[t]) /\ policies[t].team = t
    /\ policy = NoPolicy \/ IsDocument(policy)
    /\ stamp \in 0..MaxStamp
    /\ {recreated, cut} \subseteq BOOLEAN

TeamInit ==
    /\ policies = [t \in {} |-> NoPolicy]
    /\ policy = NoPolicy
    /\ stamp = 0
    /\ recreated = FALSE
    /\ cut = FALSE

-----------------------------------------------------------------------------
inForce(t) == policy # NoPolicy /\ policy.team = t

\* this.policy?.metadata.team throws.
headless == inForce(NoMetadata)

document(t, rules) == [team |-> t, stamp |-> stamp + 1, rules |-> rules]

record(doc) ==
    /\ stamp < MaxStamp
    /\ stamp' = stamp + 1
    /\ policies' = [t \in DOMAIN policies \cup {doc.team} |->
                        IF t = doc.team THEN doc ELSE policies[t]]

\* A file that cannot be read, or has no version or no list of rules, throws
\* before any change and is no step.
loadTeamPolicy(t, rules) ==
    /\ record(document(t, rules))
    /\ policy' = document(t, rules)
    /\ recreated' = FALSE
    /\ cut' = FALSE

\* The document is in force before its metadata is looked at, so load throws
\* between its two assignments.
loadWithoutMetadata(rules) ==
    /\ stamp < MaxStamp
    /\ stamp' = stamp + 1
    /\ policy' = document(NoMetadata, rules)
    /\ recreated' = FALSE
    /\ cut' = TRUE
    /\ UNCHANGED policies

\* The document in force stays, even when it is this team's.
createTeamPolicy(t, rules) ==
    /\ record(document(t, rules))
    /\ policy' = IF policy = NoPolicy THEN document(t, rules) ELSE policy
    /\ recreated' = (recreated \/ inForce(t))
    /\ cut' = FALSE

\* Mutant: the document in force is not exchanged.
updateTeamPolicy_MapOnly(t, rules) ==
    /\ t \in DOMAIN policies
    /\ record(document(t, rules))
    /\ recreated' = (recreated /\ ~inForce(t))
    /\ cut' = headless
    /\ UNCHANGED policy

\* With a headless document in force the entry is exchanged, or deleted, and
\* then the call throws.
updateTeamPolicy(t, rules) ==
    /\ t \in DOMAIN policies
    /\ record(document(t, rules))
    /\ policy' = IF inForce(t) THEN document(t, rules) ELSE policy
    /\ recreated' = (recreated /\ ~inForce(t))
    /\ cut' = headless

deleteTeamPolicy(t) ==
    /\ policies' = [u \in DOMAIN policies \ {t} |-> policies[u]]
    /\ policy' = IF inForce(t) THEN NoPolicy ELSE policy
    /\ recreated' = (recreated /\ ~inForce(t))
    /\ cut' = headless
    /\ UNCHANGED stamp

TeamNext ==
    \/ \E t \in Teams \cup {NoTeam}, rules \in RuleLists : loadTeamPolicy(t, rules)
    \/ \E rules \in RuleLists : loadWithoutMetadata(rules)
    \/ \E t \in Teams :
          \/ deleteTeamPolicy(t)
          \/ \E rules \in RuleLists :
                createTeamPolicy(t, rules) \/ updateTeamPolicy(t, rules)

-----------------------------------------------------------------------------
\* What evaluate() answers: "block", "ask" (allowed, with an approval) or
\* "allow".  The autonomy rule is looked at before the audit rule.
evaluateBuiltIn(words, role) ==
    IF role = "dev" /\ {"autonomy", "n3"} \subseteq words THEN "ask"
    ELSE IF "audit" \in words THEN "block" ELSE "allow"

matches(rule, words, role) ==
    /\ {role, "*"} \cap rule.appliesTo # {}
    /\ rule.id \in words
    /\ rule.action # "auto"

\* The first matching rule that blocks or asks decides.
decide(rules, words, role) ==
    LET hits == {i \in DOMAIN rules : matches(rules[i], words, role)}
    IN  IF hits = {} THEN "allow"
        ELSE rules[CHOOSE i \in hits : \A j \in hits : i <= j].action

evaluate(words, role) ==
    IF evaluateBuiltIn(words, role) # "allow" THEN evaluateBuiltIn(words, role)
    ELSE IF policy = NoPolicy THEN "allow" ELSE decide(policy.rules, words, role)

-----------------------------------------------------------------------------
(***************************************************************************)
(* Decisions follow the document its team has now: no order of loads,      *)
(* creations, updates and deletions leaves a deleted or an updated         *)
(* document in force.  Two ways lead out.  To create the policy of the     *)
(* team in force again exchanges the entry and not `policy`.  And a file   *)
(* with no metadata is in force with no entry, though its load threw       *)
(* (team-policy.ts:58): no entry then decides, and only with such a        *)
(* document in force does a later call throw with its change half made     *)
(* (team-policy.ts:98, 105).                                               *)
(***************************************************************************)
DecidesByTeam ==
    /\ policy # NoPolicy =>
          /\ policy.team \in DOMAIN policies <=> policy.team # NoMetadata
          /\ ~headless /\ ~recreated =>
                \A words \in SUBSET (RuleIds \cup BuiltInWords), role \in Roles :
                   evaluate(words, role) =
                      IF evaluateBuiltIn(words, role) # "allow"
                      THEN evaluateBuiltIn(words, role)
                      ELSE decide(policies[policy.team].rules, words, role)
    /\ cut => headless

-----------------------------------------------------------------------------
(***************************************************************************)
(* The two rule evaluators of packages/policy-engine/src (policy.ts and    *)
(* cedar-adapter.ts) and audit-policies.ts, which tries them on fixed      *)
(* inputs and sorts the caller's Cedar policies in place while it does.    *)
(*                                                                         *)
(* A resource is whether one of the blocked patterns matches it, and its   *)
(* name for the Cedar rules; "none" is an absent field.                    *)
(***************************************************************************)
CONSTANTS
    CedarPolicies,      \* the policies a set may be made of
    ActionTypes

ASSUME PrioritiesAssumption == \A p \in CedarPolicies : p.priority \in Int

RiskLevels == {"none", "low", "medium", "high"}

HighRiskActions ==
    {"file.delete", "file.rename", "file.write.executable", "shell.exec",
     "policy.change", "user.create"}

\* Inputs of both evaluators.
PolicyInputs == [actionType : ActionTypes, resource : {"none", "plain", "blocked"},
                 riskLevel : RiskLevels]

VARIABLES
    policySet,      \* the caller's list of Cedar policies
    regexReport     \* the cases the last audit of the built-in policy failed

policyAuditVars == <<policySet, regexReport>>

-----------------------------------------------------------------------------
evaluatePolicy(input) ==
    IF input.resource = "blocked" \/ input.riskLevel = "high" THEN "block"
    ELSE IF input.actionType \in HighRiskActions \/ input.riskLevel = "medium" THEN "ask"
    ELSE "auto"

conditionHolds(cond, input) ==
    LET actual == input[cond.match]
    IN  CASE cond.operator = "eq" -> actual = cond.value
          [] cond.operator = "neq" -> actual # cond.value
          [] OTHER -> actual \in cond.value

\* A policy names an action or "*", and may name a resource, which an
\* input without one does not have to match.
evaluateCedarPolicy(p, input) ==
    /\ p.action \in {"*", input.actionType}
    /\ "none" \in {p.resource, input.resource} \/ p.resource = input.resource
    /\ \A cond \in p.conditions :
          conditionHolds(cond, input) <=> cond.clause = "if"

\* Array.prototype.sort keeps the order of equal elements.
ahead(ps, i, j) ==
    \/ ps[i].priority > ps[j].priority
    \/ ps[i].priority = ps[j].priority /\ i < j

\* Mutant: policies of one priority change places.
byPriority_Unstable(ps) ==
    [k \in DOMAIN ps |-> ps[CHOOSE i \in DOMAIN ps : k - 1 =
        Cardinality({j \in DOMAIN ps :
            \/ ps[j].priority > ps[i].priority
            \/ ps[j].priority = ps[i].priority /\ j > i})]]

\* The k-th of the sorted list has k - 1 policies ahead of it.
byPriority(ps) ==
    [k \in DOMAIN ps |-> ps[CHOOSE i \in DOMAIN ps :
        Cardinality({j \in DOMAIN ps : ahead(ps, j, i)}) = k - 1]]

evaluateCedarPolicySet(ps, input) ==
    LET hits == SelectSeq(byPriority(ps), LAMBDA p : evaluateCedarPolicy(p, input))
    IN  IF hits = <<>> THEN "ask"
        ELSE IF hits[1].effect = "forbid" THEN "block" ELSE "auto"

-----------------------------------------------------------------------------
\* auditRegexPolicies: inputs and the decision the audit expects of each.
Case(action, resource, risk, expected) ==
    [input |-> [actionType |-> action, resource |-> resource, riskLevel |-> risk],
     expected |-> expected]

regexCases ==
    {Case("file.read", "plain", "low", "auto"),
     Case("shell.exec", "blocked", "high", "block"),
     Case("file.delete", "plain", "medium", "ask"),
     Case("policy.change", "plain", "high", "ask"),
     Case("shell.exec", "plain", "low", "auto"),
     Case("user.create", "none", "medium", "ask"),
     Case("code.analyze", "plain", "low", "auto")}

auditRegexPolicies ==
    /\ regexReport' = {c \in regexCases : evaluatePolicy(c.input) # c.expected}
    /\ UNCHANGED policySet

auditCedarPolicies ==
    /\ policySet' = byPriority(policySet)
    /\ UNCHANGED regexReport

\* The caller adds a policy, or starts over.
AddPolicy ==
    /\ Len(policySet) < 4
    /\ \E p \in CedarPolicies : policySet' = Append(policySet, p)
    /\ UNCHANGED regexReport

NewSet ==
    /\ policySet' = <<>>
    /\ UNCHANGED regexReport

PolicyAuditInit ==
    /\ policySet = <<>>
    /\ regexReport = {}

PolicyAuditNext ==
    auditRegexPolicies \/ auditCedarPolicies \/ AddPolicy \/ NewSet

PolicyAuditTypeOK ==
    /\ policySet \in Seq(CedarPolicies)
    /\ regexReport \subseteq regexCases

PolicyAuditSpec == PolicyAuditInit /\ [][PolicyAuditNext]_policyAuditVars

-----------------------------------------------------------------------------
(***************************************************************************)
(* An audit may reorder the policies it is given, and no decision changes  *)
(* with them: not of the audit's own loop nor of evaluateCedarPolicySet,   *)
(* for policies of equal priority and however often it runs.               *)
(***************************************************************************)
AuditKeepsDecisions ==
    [][policySet # <<>> /\ auditCedarPolicies =>
          \A input \in PolicyInputs :
             evaluateCedarPolicySet(policySet', input)
               = evaluateCedarPolicySet(policySet, input)]_policyAuditVars

(***************************************************************************)
(* audit-policies.ts:29-38: the decisions the audit expects are those      *)
(* evaluatePolicy takes.                                                   *)
(***************************************************************************)
RegexAuditPasses == regexReport = {}
=============================================================================
