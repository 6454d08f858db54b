---------------------------- MODULE Identifiers ----------------------------
(***************************************************************************)
(* p0/src/domain/ids.ts: twenty-nine kinds of identifiers, each with its   *)
(* own create and parse function, and the two other places that say what   *)
(* one looks like: the pattern of the contracts (_defs.schema.json) and    *)
(* the CHECK of the catalog's columns (p0_v1.sql).  A value is its prefix  *)
(* and what follows it: a lower-case UUID v4, other text of its length, or *)
(* neither.                                                                *)
(***************************************************************************)
EXTENDS Naturals

CONSTANTS
    NotString,      \* an input that is not a string
    InvalidId       \* InvalidIdError was thrown

VARIABLE typedId    \* what the last call returned: a kind and a value

idVars == <<typedId>>

Rest == {"uuid4", "sameLength", "other"}

\* The types, each with a brand of its own that no other module can name.
Kind1 ==
    {"ProjectId", "WorkspaceId", "PrincipalId", "TaskId", "ManifestId", "PlanId",
     "StepId", "EventId", "CorrelationId", "CallId", "PolicyDecisionId",
     "ApprovalId", "ApprovalUseId", "Nonce", "EffectIntentId"}

Kind2 ==
    {"VerificationId", "UsageId", "CriterionId", "AttemptId", "ProviderRequestId",
     "ContextQueryId", "ContextItemId", "ContextPackageId", "ArtifactId",
     "BudgetSetId", "BudgetReservationId", "PriceBookId", "CapabilityGrantId",
     "RecoveryRunId"}

Kind == Kind1 \cup Kind2

parsedPrefix1 ==
    [ProjectId |-> "prj", WorkspaceId |-> "wsp", PrincipalId |-> "prn",
     TaskId |-> "tsk", ManifestId |-> "mft", PlanId |-> "pln",
     StepId |-> "stp", EventId |-> "evt", CorrelationId |-> "cor",
     CallId |-> "cal", PolicyDecisionId |-> "pdc"]

parsedPrefix2 ==
    [ApprovalId |-> "apr", ApprovalUseId |-> "apu", Nonce |-> "non",
     EffectIntentId |-> "efi", VerificationId |-> "vrf", UsageId |-> "use",
     CriterionId |-> "crt", AttemptId |-> "atm", ProviderRequestId |-> "pvr",
     ContextQueryId |-> "cxq", ContextItemId |-> "cxi"]

parsedPrefix3 ==
    [ContextPackageId |-> "cxp", ArtifactId |-> "art", BudgetSetId |-> "bgt",
     BudgetReservationId |-> "brs", PriceBookId |-> "pbk",
     CapabilityGrantId |-> "cpg", RecoveryRunId |-> "rcv"]

createdPrefix1 ==
    [ProjectId |-> "prj", WorkspaceId |-> "wsp", PrincipalId |-> "prn",
     TaskId |-> "tsk", ManifestId |-> "mft", PlanId |-> "pln",
     StepId |-> "stp", EventId |-> "evt", CorrelationId |-> "cor",
     CallId |-> "cal", PolicyDecisionId |-> "pdc", ApprovalId |-> "apr",
     ApprovalUseId |-> "apu"]

createdPrefix2 ==
    [Nonce |-> "non", EffectIntentId |-> "efi", VerificationId |-> "vrf",
     UsageId |-> "use", CriterionId |-> "crt", AttemptId |-> "atm",
     ProviderRequestId |-> "pvr", ContextQueryId |-> "cxq",
     ContextItemId |-> "cxi", ContextPackageId |-> "cxp",
     ArtifactId |-> "art", BudgetSetId |-> "bgt",
     BudgetReservationId |-> "brs"]

createdPrefix3 ==
    [PriceBookId |-> "pbk", CapabilityGrantId |-> "cpg",
     RecoveryRunId |-> "rcv"]

\* The three parts of a list of prefixes, as one.
prefixIn(first, second, third, kind) ==
    IF kind \in DOMAIN first THEN first[kind]
    ELSE IF kind \in DOMAIN second THEN second[kind] ELSE third[kind]

\* Mutant: a create function copied from another with its prefix.
createdPrefix_Copied(kind) ==
    prefixIn(createdPrefix1, createdPrefix2, createdPrefix3,
             IF kind = "BudgetReservationId" THEN "BudgetSetId" ELSE kind)

createdPrefix(kind) == prefixIn(createdPrefix1, createdPrefix2, createdPrefix3, kind)

parsedPrefix ==
    [kind \in Kind |-> prefixIn(parsedPrefix1, parsedPrefix2, parsedPrefix3, kind)]

contractPrefix ==
    [ProjectId |-> "prj", WorkspaceId |-> "wsp", PrincipalId |-> "prn",
     TaskId |-> "tsk", ManifestId |-> "mft", PlanId |-> "pln",
     StepId |-> "stp", EventId |-> "evt", CorrelationId |-> "cor",
     CallId |-> "cal", PolicyDecisionId |-> "pdc", ApprovalId |-> "apr",
     ApprovalUseId |-> "apu", Nonce |-> "non", EffectIntentId |-> "efi",
     VerificationId |-> "vrf", UsageId |-> "use", CriterionId |-> "crt",
     AttemptId |-> "atm", ProviderRequestId |-> "pvr",
     ContextQueryId |-> "cxq", ContextItemId |-> "cxi",
     ContextPackageId |-> "cxp", ArtifactId |-> "art", BudgetSetId |-> "bgt",
     BudgetReservationId |-> "brs", PriceBookId |-> "pbk",
     CapabilityGrantId |-> "cpg", RecoveryRunId |-> "rcv"]

columnPrefix ==
    [ProjectId |-> "prj", WorkspaceId |-> "wsp", PrincipalId |-> "prn",
     TaskId |-> "tsk", ManifestId |-> "mft", PlanId |-> "pln",
     StepId |-> "stp", EventId |-> "evt", CorrelationId |-> "cor",
     CallId |-> "cal", PolicyDecisionId |-> "pdc", ApprovalId |-> "apr",
     ApprovalUseId |-> "apu", Nonce |-> "non", EffectIntentId |-> "efi",
     VerificationId |-> "vrf", UsageId |-> "use", CriterionId |-> "crt",
     AttemptId |-> "atm", ProviderRequestId |-> "pvr",
     ContextQueryId |-> "cxq", ContextItemId |-> "cxi",
     ContextPackageId |-> "cxp", ArtifactId |-> "art", BudgetSetId |-> "bgt",
     BudgetReservationId |-> "brs", PriceBookId |-> "pbk",
     CapabilityGrantId |-> "cpg", RecoveryRunId |-> "rcv"]

SentPrefixes == {parsedPrefix[kind] : kind \in Kind} \cup {"xyz"}

Value == [prefix : SentPrefixes, rest : Rest]

ASSUME NotStringAssumption == NotString \notin Value

IdTypeOK ==
    typedId \in [kind : Kind, value : [prefix : SentPrefixes, rest : {"uuid4"}]]
               \cup {InvalidId}

IdInit == typedId = InvalidId

-----------------------------------------------------------------------------
isValidUuidV4(rest) == rest = "uuid4"

validateIdPrefix(value, prefix) ==
    value.prefix = prefix /\ isValidUuidV4(value.rest)

\* The generator is a port: it may answer anything.
create(kind) ==
    \E uuid \in Rest :
        typedId' = IF isValidUuidV4(uuid)
                   THEN [kind |-> kind,
                         value |-> [prefix |-> createdPrefix(kind), rest |-> uuid]]
                   ELSE InvalidId

accepts(kind, value) ==
    value # NotString /\ validateIdPrefix(value, parsedPrefix[kind])

parse(kind, value) ==
    typedId' = IF accepts(kind, value) THEN [kind |-> kind, value |-> value]
               ELSE InvalidId

\* Validation of a contract, and the insertion into a column.
matchesContract(kind, value) ==
    value.prefix = contractPrefix[kind] /\ isValidUuidV4(value.rest)

fitsColumn(kind, value) ==
    value.prefix = columnPrefix[kind] /\ value.rest \in {"uuid4", "sameLength"}

IdNext ==
    \E kind \in Kind :
        create(kind) \/ \E value \in Value \cup {NotString} : parse(kind, value)

IdSpec == IdInit /\ [][IdNext]_idVars

-----------------------------------------------------------------------------
(***************************************************************************)
(* An identifier of one kind, created or parsed, is that kind's for every  *)
(* reader and no other kind's for any: the parsers, the contracts and the  *)
(* columns of the catalog agree on all twenty-nine prefixes.               *)
(***************************************************************************)
IdsOfOneKind ==
    typedId # InvalidId =>
        \A kind \in Kind :
            LET own == kind = typedId.kind IN
            /\ accepts(kind, typedId.value) = own
            /\ matchesContract(kind, typedId.value) = own
            /\ fitsColumn(kind, typedId.value) = own
=============================================================================
