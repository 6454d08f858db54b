----------------------------- MODULE RunCatalog -----------------------------
(***************************************************************************)
(* The append-only tables of docs/implementation/persistence/p0_v1.sql     *)
(* around a task: what it was admitted with (task_manifests, task_runs,    *)
(* budget_sets, sandbox_profiles, capability_grants and their              *)
(* revocations), what is sent to a provider (context_*, snapshots,         *)
(* provider_requests, provider_outcomes), its plans and its recoveries.    *)
(* Every key that names a row of another table is checked by the INSERT.   *)
(*                                                                         *)
(* A fingerprint that goes with an id in every key is not told from it.    *)
(* Left out: columns that no constraint relates, and the keys to events    *)
(* and policy_decisions.                                                   *)
(***************************************************************************)
EXTENDS Naturals, FiniteSets, Functions

CONSTANTS
    RunTasks, RunIds,    \* ids, whatever the table
    ReservationIds, setOfReservationId, taskOfArtifact,
    NoId,                \* the value of a NULL column
    MaxSent              \* bound on the rows of the context and provider tables

ASSUME NoIdAssumption == NoId \notin RunIds
ASSUME ReservationsAssumption == setOfReservationId \in [ReservationIds -> RunIds]
ASSUME MaxSentAssumption == MaxSent \in Nat

Position == 0..1
Revision == 1..2

\* What task_runs repeats of task_manifests.
Admission == [manifest : RunIds, budget : RunIds, sandbox : RunIds]

VARIABLES admitted, sent, planned, recovered    \* tables, by name

runVars == <<admitted, sent, planned, recovered>>

AdmissionTables ==
    [manifests : SUBSET Admission,
     runs : SUBSET [id : RunTasks, of : Admission],
     sets : SUBSET [id : RunIds, task : RunTasks],
     profiles : SUBSET [id : RunIds, task : RunTasks],
     grants : SUBSET [id : RunIds, task : RunTasks, profile : RunIds],
     revocations : SUBSET [id : RunIds, task : RunTasks]]

ContextTables ==
    [queries : SUBSET [id : RunIds, task : RunTasks],
     items : SUBSET [id : RunIds, task : RunTasks, query : RunIds \cup {NoId},
                     artifact : DOMAIN taskOfArtifact],
     packages : SUBSET [id : RunIds, task : RunTasks],
     packed : SUBSET [package : RunIds, position : Position, item : RunIds],
     snapshots : SUBSET [id : RunIds, task : RunTasks],
     requests : SUBSET [id : RunIds, task : RunTasks, package : RunIds,
                        snapshot : RunIds, reservation : ReservationIds, set : RunIds],
     outcomes : SUBSET [id : RunIds]]

PlanTables ==
    [plans : SUBSET [id : RunIds, revision : Revision, task : RunTasks,
                     previous : RunIds \cup {NoId}],
     steps : SUBSET [id : RunIds, plan : RunIds, revision : Revision,
                     task : RunTasks, position : Position]]

RecoveryTables ==
    [runs : SUBSET [id : RunIds, task : RunTasks],
     items : SUBSET [run : RunIds, position : Position, subject : RunIds],
     reports : SUBSET [id : RunIds]]

RunTypeOK ==
    /\ admitted \in AdmissionTables /\ sent \in ContextTables
    /\ planned \in PlanTables /\ recovered \in RecoveryTables

AdmissionInit ==
    admitted = [manifests |-> {}, runs |-> {}, sets |-> {}, profiles |-> {},
                grants |-> {}, revocations |-> {}]
ContextInit ==
    sent = [queries |-> {}, items |-> {}, packages |-> {}, packed |-> {},
            snapshots |-> {}, requests |-> {}, outcomes |-> {}]
PlanInit == planned = [plans |-> {}, steps |-> {}]
RecoveryInit == recovered = [runs |-> {}, items |-> {}, reports |-> {}]

RunInit == AdmissionInit /\ ContextInit /\ PlanInit /\ RecoveryInit

-----------------------------------------------------------------------------
named(rows, id) == \E r \in rows : r.id = id

\* A key of two columns.  Mutant: the task is left out of it.
ofTask_Any(rows, id, task) == \E r \in rows : r.id = id

ofTask(rows, id, task) == \E r \in rows : r.id = id /\ r.task = task

newTask(rows, task) == \A r \in rows : r.task # task

\* Triggers abort UPDATE and DELETE on all of these tables.
admits(table, row) ==
    /\ admitted' = [admitted EXCEPT ![table] = @ \cup {row}]
    /\ UNCHANGED <<sent, planned, recovered>>

sends(table, row) ==
    /\ SumFunction([t \in DOMAIN sent |-> Cardinality(sent[t])]) < MaxSent
    /\ sent' = [sent EXCEPT ![table] = @ \cup {row}]
    /\ UNCHANGED <<admitted, planned, recovered>>

plans(table, row) ==
    /\ planned' = [planned EXCEPT ![table] = @ \cup {row}]
    /\ UNCHANGED <<admitted, sent, recovered>>

recovers(table, row) ==
    /\ recovered' = [recovered EXCEPT ![table] = @ \cup {row}]
    /\ UNCHANGED <<admitted, sent, planned>>

InsertManifest(of) ==
    /\ \A m \in admitted.manifests : m.manifest # of.manifest /\ m.budget # of.budget
    /\ admits("manifests", of)

InsertRun(task, of) ==
    /\ ~named(admitted.runs, task) /\ of \in admitted.manifests
    /\ \A r \in admitted.runs : r.of.manifest # of.manifest /\ r.of.budget # of.budget
    /\ admits("runs", [id |-> task, of |-> of])

InsertBudgetSet(budget, task) ==
    /\ ~named(admitted.sets, budget) /\ newTask(admitted.sets, task)
    /\ \E r \in admitted.runs : r.id = task /\ r.of.budget = budget
    /\ admits("sets", [id |-> budget, task |-> task])

InsertProfile(sandbox, task) ==
    /\ ~named(admitted.profiles, sandbox) /\ newTask(admitted.profiles, task)
    /\ \E r \in admitted.runs : r.id = task /\ r.of.sandbox = sandbox
    /\ admits("profiles", [id |-> sandbox, task |-> task])

InsertCapability(id, task, profile) ==
    /\ ~named(admitted.grants, id) /\ named(admitted.runs, task)
    /\ ofTask(admitted.profiles, profile, task)
    /\ admits("grants", [id |-> id, task |-> task, profile |-> profile])

InsertCapabilityRevocation(id, task) ==
    /\ ~named(admitted.revocations, id) /\ ofTask(admitted.grants, id, task)
    /\ admits("revocations", [id |-> id, task |-> task])

InsertContextQuery(id, task) ==
    /\ ~named(sent.queries, id)
    /\ sends("queries", [id |-> id, task |-> task])

\* The query may be another task's: its key is one column.
InsertContextItem(id, task, query, artifact) ==
    /\ ~named(sent.items, id) /\ taskOfArtifact[artifact] = task
    /\ query # NoId => named(sent.queries, query)
    /\ sends("items", [id |-> id, task |-> task, query |-> query, artifact |-> artifact])

InsertPackage(id, task) ==
    /\ ~named(sent.packages, id)
    /\ sends("packages", [id |-> id, task |-> task])

\* So may the item: neither key has the task.
InsertPackageItem(package, position, item) ==
    /\ named(sent.packages, package) /\ named(sent.items, item)
    /\ \A p \in sent.packed :
          p.package = package => p.position # position /\ p.item # item
    /\ sends("packed", [package |-> package, position |-> position, item |-> item])

InsertSnapshot(id, task) ==
    /\ ~named(sent.snapshots, id)
    /\ sends("snapshots", [id |-> id, task |-> task])

\* The budget set is that of the reservation, whichever task's it is.
InsertRequest(id, task, package, snapshot, reservation) ==
    /\ \A r \in sent.requests : r.id # id /\ r.reservation # reservation
    /\ ofTask(sent.packages, package, task) /\ ofTask(sent.snapshots, snapshot, task)
    /\ sends("requests", [id |-> id, task |-> task, package |-> package,
                          snapshot |-> snapshot, reservation |-> reservation,
                          set |-> setOfReservationId[reservation]])

InsertOutcome(id) ==
    /\ ~named(sent.outcomes, id) /\ named(sent.requests, id)
    /\ sends("outcomes", [id |-> id])

\* Revisions may leave a gap, and the previous plan is any text.
InsertPlan(id, revision, task, previous) ==
    /\ \A p \in planned.plans :
          p.revision = revision => p.id # id /\ p.task # task
    /\ (revision = 1) = (previous = NoId)
    /\ plans("plans", [id |-> id, revision |-> revision, task |-> task,
                       previous |-> previous])

InsertStep(id, plan, revision, task, position) ==
    /\ ~named(planned.steps, id)
    /\ \E p \in planned.plans : p.id = plan /\ p.revision = revision /\ p.task = task
    /\ \A s \in planned.steps :
          s.plan # plan \/ s.revision # revision \/ s.position # position
    /\ plans("steps", [id |-> id, plan |-> plan, revision |-> revision,
                       task |-> task, position |-> position])

InsertRecovery(id, task) ==
    /\ ~named(recovered.runs, id)
    /\ recovers("runs", [id |-> id, task |-> task])

InsertRecoveryItem(run, position, subject) ==
    /\ named(recovered.runs, run)
    /\ \A i \in recovered.items :
          i.run = run => i.position # position /\ i.subject # subject
    /\ recovers("items", [run |-> run, position |-> position, subject |-> subject])

InsertReport(id) ==
    /\ named(recovered.runs, id) /\ ~named(recovered.reports, id)
    /\ recovers("reports", [id |-> id])

AdmissionNext ==
    \/ \E of \in Admission : InsertManifest(of)
    \/ \E task \in RunTasks :
          \/ \E of \in Admission : InsertRun(task, of)
          \/ \E id \in RunIds :
                \/ InsertBudgetSet(id, task) \/ InsertProfile(id, task)
                \/ \E profile \in RunIds : InsertCapability(id, task, profile)
                \/ InsertCapabilityRevocation(id, task)

ContextNext ==
    \E id \in RunIds :
        \/ \E task \in RunTasks :
              \/ InsertContextQuery(id, task) \/ InsertPackage(id, task)
              \/ InsertSnapshot(id, task)
              \/ \E query \in RunIds \cup {NoId}, artifact \in DOMAIN taskOfArtifact :
                    InsertContextItem(id, task, query, artifact)
              \/ \E package, snapshot \in RunIds, reservation \in ReservationIds :
                    InsertRequest(id, task, package, snapshot, reservation)
        \/ \E position \in Position, item \in RunIds :
              InsertPackageItem(id, position, item)
        \/ InsertOutcome(id)

PlanNext ==
    \E id \in RunIds, task \in RunTasks, revision \in Revision :
        \/ \E previous \in RunIds \cup {NoId} : InsertPlan(id, revision, task, previous)
        \/ \E plan \in RunIds, position \in Position :
              InsertStep(id, plan, revision, task, position)

RecoveryNext ==
    \E id \in RunIds :
        \/ \E task \in RunTasks : InsertRecovery(id, task)
        \/ \E position \in Position, subject \in RunIds :
              InsertRecoveryItem(id, position, subject)
        \/ InsertReport(id)

RunNext == AdmissionNext \/ ContextNext \/ PlanNext \/ RecoveryNext

RunSpec == RunInit /\ [][RunNext]_runVars

-----------------------------------------------------------------------------

(***************************************************************************)
(* What a task may use is what its manifest named: its budget set and its  *)
(* sandbox are, every capability is held under that sandbox, and no budget *)
(* set or manifest serves two tasks.                                       *)
(***************************************************************************)
UsesWhatWasAdmitted ==
    /\ \A r, s \in admitted.runs :
          r # s => r.of.manifest # s.of.manifest /\ r.of.budget # s.of.budget
    /\ \A r \in admitted.runs :
          /\ \A b \in admitted.sets : b.task = r.id => b.id = r.of.budget
          /\ \A g \in admitted.grants : g.task = r.id => g.profile = r.of.sandbox
    /\ \A v \in admitted.revocations : \E g \in admitted.grants :
          g.id = v.id /\ \E r \in admitted.runs : r.id = v.task /\ r.of.sandbox = g.profile

(***************************************************************************)
(* What is sent for a task and what is planned for it is its own: the      *)
(* package and the capability snapshot of a request, and the plan of a     *)
(* step.  Requests share no reservation.  (A package may hold another      *)
(* task's items, and a request spend another task's budget.)               *)
(***************************************************************************)
SentForOneTask ==
    /\ \A r \in sent.requests :
          /\ \A p \in sent.packages : p.id = r.package => p.task = r.task
          /\ \A c \in sent.snapshots : c.id = r.snapshot => c.task = r.task
          /\ \A other \in sent.requests \ {r} : other.reservation # r.reservation
    /\ \A s \in planned.steps : \A p \in planned.plans :
          p.id = s.plan /\ p.revision = s.revision => p.task = s.task

(***************************************************************************)
(* What a task was admitted with, what is sent for it and what is planned  *)
(* for it are its own, as far as the keys go.                              *)
(***************************************************************************)
TasksStaySeparate == UsesWhatWasAdmitted /\ SentForOneTask

=============================================================================
