SPECIFICATION MCSpec
CONSTANTS
    Requests = {r1}
    Approvers = {p1, p2, p3, p4}
    minApprovers <- MCminApprovers
    timeout <- MCtimeout
    escalateAfter = 1
    escalateToLevel = "organization"
    MaxAge = 4
    StoredIds = {r1, r2}
    RequestStatuses = {"pending", "approved"}
    MaxSaves = 2
    TornStore = TornStore
    Teams = {t1, t2}
    deploy = deploy
    RuleIds = {deploy}
    RuleLists <- MCRuleLists
    MaxStamp = 3
    NoTeam = NoTeam
    NoMetadata = NoMetadata
    NoPolicy = NoPolicy
    CedarPolicies <- MCCedarPolicies
    ActionTypes = {"file.read", "file.delete", "policy.change"}
INVARIANT
    RegexAuditPasses
