----------------------------- MODULE TaskCatalog -----------------------------
(***************************************************************************)
(* The tables events and task_projections of                               *)
(* docs/implementation/persistence/p0_v1.sql with their constraints and    *)
(* guard triggers.  Clients of the catalog issue any INSERT or UPDATE they *)
(* like; an action is one statement the database lets through.  A          *)
(* transaction that rolls back leaves no trace, so the committed states    *)
(* are those of the statements that committed, one after the other.        *)
(***************************************************************************)
EXTENDS TaskReducer

CONSTANTS
    Submissions,   \* the event rows clients try to insert
    MaxSequence    \* bound on the last_sequence clients try to write

ASSUME SubmissionsAssumption == Submissions \subseteq EventEnvelope
ASSUME MaxSequenceAssumption == MaxSequence \in Nat

VARIABLES
    log,    \* events: the rows of each task in the order of their sequence
    row     \* task_projections: the row of each task, or NULL

vars == <<log, row>>

RowSubmissions ==
    [task_id : Tasks, current_state : TaskStates,
     last_sequence : 1..MaxSequence,
     last_event_id : EventIds, last_event_digest : Digests]

TypeOK ==
    /\ log \in [Tasks -> Seq(EventEnvelope)]
    /\ row \in [Tasks -> Projection \cup {NULL}]
    /\ \A t \in Tasks : \A i \in DOMAIN log[t] : /\ log[t][i].task_id = t
                                               /\ log[t][i].sequence = i
    /\ \A t \in Tasks : row[t] # NULL => /\ row[t].task_id = t
                                        /\ row[t].last_sequence <= Len(log[t])

Init ==
    /\ log = [t \in Tasks |-> <<>>]
    /\ row = [t \in Tasks |-> NULL]

-----------------------------------------------------------------------------
\* PRIMARY KEY (event_id) and UNIQUE (event_digest), over all tasks.
freshEvent(e) ==
    \A t \in Tasks : \A i \in DOMAIN log[t] :
        /\ log[t][i].event_id # e.event_id
        /\ log[t][i].event_digest # e.event_digest

\* The CHECK constraints that relate two columns.
checksEvent(e) ==
    /\ e.sequence = 1 <=> e.previous_event_digest = NULL
    /\ e.causation_event_id # e.event_id

\* Mutant: a client may leave a gap in the sequence.
chainsEvent_Gaps(e) ==
    LET past == log[e.task_id] IN
    \/ e.event_type = "task.created" /\ past = <<>>
    \/ /\ past # <<>>
       /\ e.sequence > Len(past)
       /\ e.previous_event_digest = past[Len(past)].event_digest

\* The chain part of trigger events_insert_guard.  Only the first event of a
\* task has its type looked at.
chainsEvent(e) ==
    LET past == log[e.task_id] IN
    \/ /\ e.sequence = 1
       /\ e.event_type = "task.created"
       /\ e.previous_event_digest = NULL
       /\ past = <<>>
    \/ /\ e.sequence = Len(past) + 1
       /\ e.sequence > 1
       /\ e.previous_event_digest = past[e.sequence - 1].event_digest

\* Mutant: the cause may be an event of any task, as the foreign key allows.
causedInPast_AnyTask(e) ==
    \/ e.causation_event_id = NULL
    \/ \E t \in Tasks : \E i \in DOMAIN log[t] :
          log[t][i].event_id = e.causation_event_id

causedInPast(e) ==
    \/ e.causation_event_id = NULL
    \/ \E i \in DOMAIN log[e.task_id] :
          /\ log[e.task_id][i].event_id = e.causation_event_id
          /\ i < e.sequence

\* INSERT INTO events
InsertEvent(e) ==
    /\ freshEvent(e)
    /\ checksEvent(e)
    /\ e.correlation_id = e.task_id
    /\ chainsEvent(e)
    /\ causedInPast(e)
    /\ log' = [log EXCEPT ![e.task_id] = Append(@, e)]
    /\ UNCHANGED row

\* The event of task r.task_id at r.last_sequence is the one the row names.
namesEvent(r) ==
    /\ r.last_sequence \in DOMAIN log[r.task_id]
    /\ log[r.task_id][r.last_sequence].event_id = r.last_event_id
    /\ log[r.task_id][r.last_sequence].event_digest = r.last_event_digest

\* INSERT INTO task_projections, with task_projections_insert_guard
InsertProjection(r) ==
    /\ row[r.task_id] = NULL
    /\ r.current_state = "created"
    /\ r.last_sequence = 1
    /\ namesEvent(r)
    /\ log[r.task_id][1].event_type = "task.created"
    /\ log[r.task_id][1].payload.to_state = "created"
    /\ row' = [row EXCEPT ![r.task_id] = r]
    /\ UNCHANGED log

\* The edge list of task_projections_update_guard, SQL's own copy of the table.
projectionEdges ==
    LET from(s, targets) == {<<s, to>> : to \in targets} IN
    UNION {from("created", {"preflight", "cancelado"}),
           from("preflight", {"contextualizing", "bloqueado", "cancelado"}),
           from("contextualizing", {"planned", "bloqueado", "cancelado"}),
           from("planned", {"running", "bloqueado", "cancelado"}),
           from("running", {"waiting_approval", "verifying", "falha",
                            "inconclusivo", "cancelado"}),
           from("waiting_approval", {"running", "bloqueado", "cancelado"}),
           from("verifying", {"sucesso_verificado", "falha", "bloqueado",
                              "inconclusivo", "cancelado"})}

\* Mutant: from_state is not compared with the row.
followsEvent_AnyFrom(old, r, e) ==
    IF e.event_type = "task.transitioned"
    THEN /\ e.payload.to_state = r.current_state
         /\ <<old.current_state, r.current_state>> \in projectionEdges
    ELSE r.current_state = old.current_state

\* Mutant: the edge list is not consulted.
followsEvent_AnyEdge(old, r, e) ==
    IF e.event_type = "task.transitioned"
    THEN /\ e.payload.from_state = old.current_state
         /\ e.payload.to_state = r.current_state
    ELSE r.current_state = old.current_state

\* The part of task_projections_update_guard that depends on the event.
followsEvent(old, r, e) ==
    IF e.event_type = "task.transitioned"
    THEN /\ e.payload.from_state = old.current_state
         /\ e.payload.to_state = r.current_state
         /\ <<old.current_state, r.current_state>> \in projectionEdges
    ELSE r.current_state = old.current_state

\* UPDATE task_projections, with task_projections_update_guard
UpdateProjection(r) ==
    /\ row[r.task_id] # NULL
    /\ r.last_sequence = row[r.task_id].last_sequence + 1
    /\ namesEvent(r)
    /\ followsEvent(row[r.task_id], r, log[r.task_id][r.last_sequence])
    /\ row' = [row EXCEPT ![r.task_id] = r]
    /\ UNCHANGED log

Next ==
    \/ \E e \in Submissions : InsertEvent(e)
    \/ \E r \in RowSubmissions : InsertProjection(r) \/ UpdateProjection(r)

Spec == Init /\ [][Next]_vars

-----------------------------------------------------------------------------
covered(t) == SubSeq(log[t], 1, row[t].last_sequence)

\* What the triggers do not ask of an event and the reducer does.
RefusedByRegistry(e, i) ==
    \/ e.event_type \notin Registry
    \/ i > 1 /\ e.event_type = "task.created"
    \/ i > 1 /\ e.payload_contract # e.event_type
    \/ e.event_type \in {"task.created", "task.transitioned"}
         /\ e.payload.contract # e.event_type

(***************************************************************************)
(* A projection row is what the TypeScript reducer computes from the       *)
(* events the row covers: the SQL guards and project() are two             *)
(* implementations of one fold.  The events whose type or contract only    *)
(* the registry refuses are set apart.                                     *)
(***************************************************************************)
RowIsReplay ==
    \A t \in Tasks :
        /\ row[t] # NULL
        /\ \A i \in DOMAIN covered(t) : ~RefusedByRegistry(covered(t)[i], i)
        => /\ ~project(covered(t)).failed
           /\ project(covered(t)).projection = row[t]

(***************************************************************************)
(* Replay of a stored log stops only at an event of bad content: every     *)
(* check of project() and applyEvent on identity, order, chain, causation  *)
(* and ownership is enforced by the database already.                      *)
(***************************************************************************)
ReplayStopsAtContent ==
    \A t \in Tasks : \A i \in DOMAIN log[t] :
        LET before == project(SubSeq(log[t], 1, i - 1))
            e == log[t][i]
        IN  ~before.failed /\ project(SubSeq(log[t], 1, i)).failed
            => \/ RefusedByRegistry(e, i)
               \/ i = 1 /\ e.payload.to_state # "created"
               \/ /\ e.event_type = "task.transitioned"
                  /\ \/ e.payload.from_state # before.projection.current_state
                     \/ ~canTransition(e.payload.from_state, e.payload.to_state)

\* The catalog seen as the lifecycle of its tasks.
rowState == [t \in Tasks |->
                IF row[t] = NULL THEN NULL ELSE row[t].current_state]

Lifecycle == INSTANCE TaskLifecycle WITH state <- rowState

(***************************************************************************)
(* No sequence of statements takes a task's projection anywhere but along  *)
(* the edges of task-state.ts, or out of a final state.                    *)
(***************************************************************************)
ImplementsLifecycle == Lifecycle!Spec

(***************************************************************************)
(* "task.created | cria projecao no estado created; deve ser sequence 1"   *)
(* (taxonomia_eventos_v1.md:15).  The insert trigger does not enforce it.  *)
(***************************************************************************)
CreatedIsFirst ==
    \A t \in Tasks : \A i \in DOMAIN log[t] :
        log[t][i].event_type = "task.created" => i = 1
=============================================================================
