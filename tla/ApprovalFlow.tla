---------------------------- MODULE ApprovalFlow ----------------------------
(***************************************************************************)
(* packages/policy-engine/src/approval-flow.ts: requests that climb levels *)
(* as approvers approve them, while a timer escalates or expires the stale *)
(* ones.  Time is each request's age in ticks; the default durations are   *)
(* kept in their order by the constants of a run.                          *)
(***************************************************************************)
EXTENDS Naturals, FiniteSets, Sequences, SequencesExt, Functions

CONSTANTS
    Requests,
    Approvers,           \* the approvers list of every request
    minApprovers,        \* level -> approvals it takes
    timeout,             \* level -> age after which it is stale
    escalateAfter,       \* age after which a stale request may escalate
    escalateToLevel,
    MaxAge               \* bound on the age of a request

Levels == {"self", "team", "organization"}

ASSUME ApproversAssumption == IsFiniteSet(Approvers)

ASSUME ConfigAssumption ==
    /\ minApprovers \in [Levels -> Nat \ {0}]
    /\ timeout \in [Levels -> Nat]
    /\ escalateAfter \in Nat
    /\ escalateToLevel \in Levels
    /\ MaxAge \in Nat

Statuses == {"pending", "approved", "rejected", "cancelled"}

VARIABLES
    requiredLevel, currentLevel,
    status,        \* "none" before createRequest
    approvals,     \* who decided what, and at which level
    age,
    escalated,     \* history: the timer or a caller escalated the request
    checking       \* the stale checker's interval is set

requestVars == <<requiredLevel, currentLevel, status, approvals, escalated>>
vars == <<requestVars, age, checking>>

Approval == [approver : Approvers, level : Levels,
             status : {"approved", "rejected"}]

TypeOK ==
    /\ requiredLevel \in [Requests -> Levels]
    /\ currentLevel \in [Requests -> Levels]
    /\ status \in [Requests -> Statuses \cup {"none"}]
    /\ approvals \in [Requests -> SUBSET Approval]
    /\ age \in [Requests -> 0..MaxAge]
    /\ escalated \in [Requests -> BOOLEAN]
    /\ checking \in BOOLEAN
    /\ \A r \in Requests : status[r] = "none" =>
          approvals[r] = {} /\ currentLevel[r] = "self" /\ ~escalated[r]

Init ==
    /\ requiredLevel \in [Requests -> Levels]
    /\ currentLevel = [r \in Requests |-> "self"]
    /\ status = [r \in Requests |-> "none"]
    /\ approvals = [r \in Requests |-> {}]
    /\ age = [r \in Requests |-> 0]
    /\ escalated = [r \in Requests |-> FALSE]
    /\ checking = FALSE

-----------------------------------------------------------------------------
Rank(level) ==
    CASE level = "self" -> 1 [] level = "team" -> 2 [] OTHER -> 3

getNextLevel(level) == IF level = "self" THEN "team" ELSE "organization"

\* Approvals of one level that count towards its quorum.
levelApprovals(given, level) ==
    {a \in given : a.level = level /\ a.status = "approved"}

createRequest(r) ==
    /\ status[r] = "none"
    /\ status' = [status EXCEPT ![r] = "pending"]
    /\ UNCHANGED <<requiredLevel, currentLevel, approvals, escalated, age, checking>>

\* Mutant: the quorum is counted over all levels.
quorum_AnyLevel(given, level) ==
    Cardinality({a \in given : a.status = "approved"}) >= minApprovers[level]

quorum(given, level) ==
    Cardinality(levelApprovals(given, level)) >= minApprovers[level]

\* Mutant: an approver may approve again at every level.
mayApprove_PerLevel(r, p) ==
    \A a \in approvals[r] : a.approver # p \/ a.level # currentLevel[r]

mayApprove(r, p) == \A a \in approvals[r] : a.approver # p

\* approve() looks at the approver's earlier decisions, not at the status.
approve(r, p) ==
    LET given == approvals[r] \cup
                   {[approver |-> p, level |-> currentLevel[r],
                     status |-> "approved"]}
        met == quorum(given, currentLevel[r])
    IN
    /\ status[r] # "none"
    /\ mayApprove(r, p)
    /\ approvals' = [approvals EXCEPT ![r] = given]
    /\ IF met /\ currentLevel[r] = requiredLevel[r]
       THEN /\ status' = [status EXCEPT ![r] = "approved"]
            /\ UNCHANGED currentLevel
       ELSE /\ currentLevel' =
                 IF met THEN [currentLevel EXCEPT ![r] = getNextLevel(@)]
                        ELSE currentLevel
            /\ UNCHANGED status
    /\ UNCHANGED <<requiredLevel, escalated, age, checking>>

\* reject() and cancel() take effect in any status.
reject(r, p) ==
    /\ status[r] # "none"
    /\ approvals' = [approvals EXCEPT ![r] = @ \cup
           {[approver |-> p, level |-> currentLevel[r], status |-> "rejected"]}]
    /\ status' = [status EXCEPT ![r] = "rejected"]
    /\ UNCHANGED <<requiredLevel, currentLevel, escalated, age, checking>>

\* Mutant: a cancelled request is forgotten, its approvals are not.
cancel_Forget(r) ==
    /\ status[r] # "none"
    /\ status' = [status EXCEPT ![r] = "none"]
    /\ UNCHANGED <<requiredLevel, currentLevel, approvals, escalated, age, checking>>

cancel(r) ==
    /\ status[r] # "none"
    /\ status' = [status EXCEPT ![r] = "cancelled"]
    /\ UNCHANGED <<requiredLevel, currentLevel, approvals, escalated, age, checking>>

-----------------------------------------------------------------------------
stale(r) == status[r] = "pending" /\ age[r] > timeout[currentLevel[r]]

\* Mutant: a stale request escalates to where it already is.
mayEscalate_Again(r) == age[r] > escalateAfter

mayEscalate(r) == age[r] > escalateAfter /\ currentLevel[r] # escalateToLevel

escalate(chosen) ==
    /\ currentLevel' = [r \in Requests |->
            IF r \in chosen THEN escalateToLevel ELSE currentLevel[r]]
    /\ escalated' = [r \in Requests |-> escalated[r] \/ r \in chosen]

\* One tick of the interval: every stale request escalates or expires.
processStaleAndEscalation ==
    /\ checking
    /\ escalate({r \in Requests : stale(r) /\ mayEscalate(r)})
    /\ status' = [r \in Requests |->
            IF stale(r) /\ ~mayEscalate(r) THEN "rejected" ELSE status[r]]
    /\ UNCHANGED <<requiredLevel, approvals, age, checking>>

\* The same escalation on demand, without the level's own timeout.
escalateStaleRequests ==
    /\ escalate({r \in Requests : status[r] = "pending" /\ mayEscalate(r)})
    /\ UNCHANGED <<requiredLevel, status, approvals, age, checking>>

startStaleChecker == checking' = TRUE /\ UNCHANGED <<requestVars, age>>

stopStaleChecker == checking' = FALSE /\ UNCHANGED <<requestVars, age>>

\* Time since createdAt.
Tick(r) ==
    /\ status[r] # "none"
    /\ age[r] < MaxAge
    /\ age' = [age EXCEPT ![r] = @ + 1]
    /\ UNCHANGED <<requestVars, checking>>

Next ==
    \/ \E r \in Requests :
          \/ createRequest(r) \/ cancel(r) \/ Tick(r)
          \/ \E p \in Approvers : approve(r, p) \/ reject(r, p)
    \/ processStaleAndEscalation
    \/ escalateStaleRequests
    \/ startStaleChecker
    \/ stopStaleChecker

\* Time passes and a set interval fires.
Fairness ==
    /\ \A r \in Requests : WF_vars(Tick(r))
    /\ WF_vars(processStaleAndEscalation)

Spec == Init /\ [][Next]_vars /\ Fairness

-----------------------------------------------------------------------------
(***************************************************************************)
(* An approved request stands at the level it required, with that level's  *)
(* quorum of different approvers given at that level: late approvals,      *)
(* rejections in between and escalations never make up for a missing one.  *)
(***************************************************************************)
ApprovedByQuorum ==
    \A r \in Requests : status[r] = "approved" =>
        /\ currentLevel[r] = requiredLevel[r]
        /\ Cardinality({a.approver : a \in
               levelApprovals(approvals[r], requiredLevel[r])})
             >= minApprovers[requiredLevel[r]]

(***************************************************************************)
(* Unless it was escalated, an approved request had the quorum of every    *)
(* level below its own, each by people who approved at no other level.     *)
(***************************************************************************)
NoLevelSkipped ==
    \A r \in Requests : status[r] = "approved" /\ ~escalated[r] =>
        \E people \in [Levels -> SUBSET Approvers] :
            /\ \A l \in Levels :
                  /\ people[l] \subseteq
                        {a.approver : a \in levelApprovals(approvals[r], l)}
                  /\ Rank(l) <= Rank(requiredLevel[r]) =>
                        Cardinality(people[l]) >= minApprovers[l]
            /\ \A k, l \in Levels : k # l => people[k] \cap people[l] = {}

(***************************************************************************)
(* While the checker runs no request stays pending: it is decided, or it   *)
(* expires at the level it was escalated to.                               *)
(***************************************************************************)
PendingEnds ==
    \A r \in Requests :
        (<>[]checking) => (status[r] = "pending" ~> status[r] # "pending")

-----------------------------------------------------------------------------
(***************************************************************************)
(* packages/policy-engine/src/approval-store.ts: approval requests in a    *)
(* map and in one file, overwritten in place by every save and reread at   *)
(* the start.  An entry keeps the caller's request object itself, so what  *)
(* the caller changes is in the map before it is saved.                    *)
(***************************************************************************)
CONSTANTS
    StoredIds,
    RequestStatuses,
    MaxSaves,      \* bound on the history of an entry
    TornStore      \* a file cut short

ASSUME StatusAssumption ==
    RequestStatuses \subseteq {"pending", "approved", "rejected", "cancelled"}

VARIABLES
    entries,       \* id -> [status of the request object, history]
    storeFile,     \* TornStore, or the entries the file holds
    durable        \* history: what the last whole write recorded

storeVars == <<entries, storeFile, durable>>

NoEntries == [id \in {} |-> {}]

StoredEntry == [status : RequestStatuses,
                history : Seq({"created", "approved", "rejected", "cancelled"})]

IsEntries(m) == \E ids \in SUBSET StoredIds : m \in [ids -> StoredEntry]

ASSUME TornAssumption == ~IsEntries(TornStore)

StoreTypeOK ==
    /\ IsEntries(entries)
    /\ storeFile = TornStore \/ IsEntries(storeFile)
    /\ IsEntries(durable)

StoreInit ==
    /\ entries = NoEntries
    /\ storeFile = NoEntries
    /\ durable = NoEntries

-----------------------------------------------------------------------------
historyAction(newStatus) == IF newStatus = "pending" THEN "created" ELSE newStatus

\* Mutant: only what is still to be decided is written.
persist_Pending(m) ==
    \/ /\ storeFile' = [id \in {i \in DOMAIN m : m[i].status = "pending"} |-> m[id]]
       /\ durable' = m
    \/ storeFile' = TornStore /\ durable' = NoEntries

\* The write replaces the file, fails before it began, or leaves a part;
\* the caller learns of none of it.
persist(m) ==
    \/ storeFile' = m /\ durable' = m
    \/ UNCHANGED <<storeFile, durable>>
    \/ storeFile' = TornStore /\ durable' = NoEntries

save(id, newStatus) ==
    LET saved == IF id \in DOMAIN entries
                 THEN [status |-> newStatus,
                       history |-> Append(entries[id].history, historyAction(newStatus))]
                 ELSE [status |-> newStatus, history |-> <<"created">>]
        after == [i \in DOMAIN entries \cup {id} |->
                     IF i = id THEN saved ELSE entries[i]]
    IN
    /\ Len(saved.history) <= MaxSaves
    /\ entries' = after
    /\ persist(after)

\* The caller changes the request it saved, or got from getRequest.
ChangeRequest(id, newStatus) ==
    /\ id \in DOMAIN entries
    /\ entries' = [entries EXCEPT ![id].status = newStatus]
    /\ UNCHANGED <<storeFile, durable>>

\* A failed write leaves the old entries in the file, to return at a start.
clear ==
    /\ entries' = NoEntries
    /\ \/ storeFile' = NoEntries
       \/ UNCHANGED storeFile
       \/ storeFile' = TornStore
    /\ durable' = NoEntries

\* A file that does not parse is an empty store.
load ==
    /\ entries' = IF storeFile = TornStore THEN NoEntries ELSE storeFile
    /\ UNCHANGED <<storeFile, durable>>

StoreNext ==
    \/ \E id \in StoredIds, newStatus \in RequestStatuses :
          save(id, newStatus) \/ ChangeRequest(id, newStatus)
    \/ clear
    \/ load

-----------------------------------------------------------------------------
(***************************************************************************)
(* A request a whole write recorded is in the store through any number of  *)
(* restarts and failed writes, with all of the history it had then, until  *)
(* clear() or a write that breaks off in the middle.                       *)
(***************************************************************************)
WrittenSurvives ==
    \A id \in DOMAIN durable :
        /\ id \in DOMAIN entries
        /\ IsPrefix(durable[id].history, entries[id].history)
=============================================================================
