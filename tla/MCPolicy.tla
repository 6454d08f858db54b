------------------------------ MODULE MCPolicy ------------------------------
(***************************************************************************)
(* A bounded instance of the components of policy-engine.  They share no   *)
(* state that is modelled, so each is explored while the others are as     *)
(* constructed.                                                            *)
(***************************************************************************)
EXTENDS ApprovalFlow, PolicyDecisions

\* Durations in the order of the default configuration: self (no timeout of
\* its own) < escalation < team < organization.
MCminApprovers == [self |-> 1, team |-> 1, organization |-> 2]

MCtimeout == [self |-> 0, team |-> 2, organization |-> 3]

CONSTANT deploy

MCRuleLists ==
    {<<[id |-> deploy, action |-> "block", appliesTo |-> {"*"}]>>,
     <<[id |-> deploy, action |-> "ask", appliesTo |-> {"dev"}],
       [id |-> deploy, action |-> "block", appliesTo |-> {"dev", "lead"}]>>}

\* Two that overlap at one priority, one above them that looks at the risk.
MCCedarPolicies ==
    {[effect |-> "permit", action |-> "file.delete", resource |-> "none",
      conditions |-> {}, priority |-> 1],
     [effect |-> "forbid", action |-> "*", resource |-> "plain",
      conditions |-> {}, priority |-> 1],
     [effect |-> "forbid", action |-> "file.read", resource |-> "none",
      conditions |-> {[clause |-> "unless", match |-> "riskLevel",
                       operator |-> "eq", value |-> "low"],
                      [clause |-> "if", match |-> "resource",
                       operator |-> "in", value |-> {"plain", "blocked"}]},
      priority |-> 2]}

mcVars == <<vars, storeVars, teamVars, policyAuditVars>>

AllInit == Init /\ StoreInit /\ TeamInit /\ PolicyAuditInit

OneAtATime ==
    \/ /\ StoreInit /\ TeamInit /\ PolicyAuditInit
       /\ Next
       /\ UNCHANGED <<storeVars, teamVars, policyAuditVars>>
    \/ /\ Init /\ TeamInit /\ PolicyAuditInit
       /\ StoreNext
       /\ UNCHANGED <<vars, teamVars, policyAuditVars>>
    \/ /\ Init /\ StoreInit /\ PolicyAuditInit
       /\ TeamNext
       /\ UNCHANGED <<vars, storeVars, policyAuditVars>>
    \/ /\ Init /\ StoreInit /\ TeamInit
       /\ PolicyAuditNext
       /\ UNCHANGED <<vars, storeVars, teamVars>>

MCSpec == AllInit /\ [][OneAtATime]_mcVars /\ Fairness

(***************************************************************************)
(* The state of every component has its type.                              *)
(***************************************************************************)
AllTypesOK ==
    /\ TypeOK
    /\ StoreTypeOK
    /\ TeamTypeOK
    /\ PolicyAuditTypeOK

(***************************************************************************)
(* An approved request has the quorum of the level it required, of people  *)
(* who decided at that level; and unless it was escalated, distinct people *)
(* approved it at every level up to that one (approval-flow.ts:125).       *)
(***************************************************************************)
ApprovalsCount == ApprovedByQuorum /\ NoLevelSkipped
=============================================================================
