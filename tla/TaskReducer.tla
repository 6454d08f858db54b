---------------------------- MODULE TaskReducer ----------------------------
(***************************************************************************)
(* The pure reducer of p0/src/domain/task-projection.ts: createProjection, *)
(* applyEvent and the fold project(), over event envelopes reduced to the  *)
(* fields these functions compare.  Every check that throws is a conjunct  *)
(* of an acceptance condition; a fold that has thrown is `failed'.         *)
(***************************************************************************)
EXTENDS TaskState, Sequences, SequencesExt, Naturals

CONSTANTS
    Tasks,       \* task ids
    EventIds,    \* event ids
    Digests,     \* event digests
    NULL         \* SQL NULL and JavaScript null

(***************************************************************************)
(* EVENT_REGISTRY_V1 holds 33 types.  Two affect the task state; one of    *)
(* the other 31 stands for them all.  "model.called" is a type a row may   *)
(* name and the registry does not have.  A payload contract is named after *)
(* the type it belongs to.                                                 *)
(***************************************************************************)
taskEvents == {"task.created", "task.transitioned"}
otherEvents == {"policy.decided"}
Registry == taskEvents \cup otherEvents
EventTypes == Registry \cup {"model.called"}

\* payload.initial_state of a task.created event is carried in to_state.
Payload == [contract   : EventTypes,
            from_state : TaskStates \cup {NULL},
            to_state   : TaskStates \cup {NULL}]

EventEnvelope ==
    [event_id              : EventIds,
     task_id               : Tasks,
     correlation_id        : Tasks,      \* named after the task run it is of
     sequence              : Nat \ {0},
     event_type            : EventTypes,
     payload_contract      : EventTypes,
     payload               : Payload,
     causation_event_id    : EventIds \cup {NULL},
     previous_event_digest : Digests \cup {NULL},
     event_digest          : Digests]

Projection ==
    [task_id           : Tasks,
     current_state     : TaskStates,
     last_sequence     : Nat \ {0},
     last_event_id     : EventIds,
     last_event_digest : Digests]

ASSUME NullAssumption ==
    NULL \notin Projection \cup TaskStates \cup Tasks \cup EventIds \cup Digests

-----------------------------------------------------------------------------
readsTaskCreatedPayload(p) ==
    /\ p.contract = "task.created"
    /\ p.to_state = "created"

\* from_state and to_state must be strings; which ones is left to the table.
readsTaskTransitionedPayload(p) ==
    /\ p.contract = "task.transitioned"
    /\ p.from_state # NULL
    /\ p.to_state # NULL

(***************************************************************************)
(* createProjection.  Unlike applyEvent it does not compare the envelope's *)
(* payload_contract with the registry's.                                   *)
(***************************************************************************)
createAccepts(e) ==
    /\ e.event_type \in Registry
    /\ e.event_type = "task.created"
    /\ e.sequence = 1
    /\ e.previous_event_digest = NULL
    /\ readsTaskCreatedPayload(e.payload)

createProjection(e) ==
    [task_id |-> e.task_id, current_state |-> "created",
     last_sequence |-> e.sequence, last_event_id |-> e.event_id,
     last_event_digest |-> e.event_digest]

\* applyEvent, its checks in the order the code makes them.
applyAccepts(p, e) ==
    /\ e.task_id = p.task_id
    /\ e.event_type \in Registry
    /\ e.event_type # "task.created"
    /\ e.payload_contract = e.event_type
    /\ e.sequence = p.last_sequence + 1
    /\ e.previous_event_digest = p.last_event_digest
    /\ e.causation_event_id # e.event_id
    /\ e.event_type = "task.transitioned" =>
         /\ readsTaskTransitionedPayload(e.payload)
         /\ e.payload.from_state = p.current_state
         /\ canTransition(e.payload.from_state, e.payload.to_state)

nextState(p, e) ==
    IF e.event_type = "task.transitioned" THEN e.payload.to_state
                                          ELSE p.current_state

applyEvent(p, e) ==
    [p EXCEPT !.current_state     = nextState(p, e),
              !.last_sequence     = e.sequence,
              !.last_event_id     = e.event_id,
              !.last_event_digest = e.event_digest]

-----------------------------------------------------------------------------
(***************************************************************************)
(* project(): the local variables of the loop, before any event, after the *)
(* first one, and after each later one.                                    *)
(***************************************************************************)
emptyFold == [failed |-> FALSE, projection |-> NULL,
              seenEventIds |-> {}, seenEventDigests |-> {}]

startFold(e) ==
    IF createAccepts(e)
    THEN [failed |-> FALSE, projection |-> createProjection(e),
          seenEventIds |-> {e.event_id}, seenEventDigests |-> {e.event_digest}]
    ELSE [emptyFold EXCEPT !.failed = TRUE]

\* Mutant: only the previous event's id is compared, not every id seen.
loopAccepts_LastIdOnly(fold, e) ==
    /\ e.event_id # fold.projection.last_event_id
    /\ e.event_digest \notin fold.seenEventDigests
    /\ e.causation_event_id \in fold.seenEventIds \cup {NULL}
    /\ applyAccepts(fold.projection, e)

loopAccepts(fold, e) ==
    /\ e.event_id \notin fold.seenEventIds
    /\ e.event_digest \notin fold.seenEventDigests
    /\ e.causation_event_id \in fold.seenEventIds \cup {NULL}
    /\ applyAccepts(fold.projection, e)

stepFold(fold, e) ==
    IF loopAccepts(fold, e)
    THEN [failed |-> FALSE,
          projection |-> applyEvent(fold.projection, e),
          seenEventIds |-> fold.seenEventIds \cup {e.event_id},
          seenEventDigests |-> fold.seenEventDigests \cup {e.event_digest}]
    ELSE [fold EXCEPT !.failed = TRUE]

\* One event more: the first one goes to createProjection, and a fold that
\* has thrown reads no further.
foldEvent(fold, e) ==
    CASE fold.failed            -> fold
      [] fold = emptyFold       -> startFold(e)
      [] OTHER                  -> stepFold(fold, e)

\* The locals after each number of events; the loop ends with the last.
project(events) ==
    LET after[i \in 0..Len(events)] ==
            IF i = 0 THEN emptyFold ELSE foldEvent(after[i - 1], events[i])
    IN  after[Len(events)]
=============================================================================
