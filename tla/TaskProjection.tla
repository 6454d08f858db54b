--------------------------- MODULE TaskProjection ---------------------------
(***************************************************************************)
(* A run of project() of p0/src/domain/task-projection.ts over an event    *)
(* list nobody vouches for: the list is revealed one element at a time,    *)
(* so every list over Events of at most MaxEvents elements is read.        *)
(***************************************************************************)
EXTENDS TaskReducer, FiniteSets

CONSTANTS
    Events,      \* the envelopes a list may hold
    MaxEvents    \* bound on the length of the list

ASSUME EventsAssumption == Events \subseteq EventEnvelope
ASSUME MaxEventsAssumption == MaxEvents \in Nat

VARIABLES
    input,       \* the events read so far
    fold         \* the locals of project()

projectionVars == <<input, fold>>

ProjectionTypeOK ==
    /\ input \in Seq(Events)
    /\ fold.failed \in BOOLEAN
    /\ fold.projection \in Projection \cup {NULL}
    /\ fold.seenEventIds \subseteq EventIds
    /\ fold.seenEventDigests \subseteq Digests

ProjectionInit ==
    /\ input = <<>>
    /\ fold = emptyFold

\* events[0] goes to createProjection.
CreateFirst(e) ==
    /\ input = <<>>
    /\ input' = <<e>>
    /\ fold' = startFold(e)

\* One iteration of the loop over events[1..].
ApplyNext(e) ==
    /\ input # <<>>
    /\ ~fold.failed
    /\ Len(input) < MaxEvents
    /\ input' = Append(input, e)
    /\ fold' = stepFold(fold, e)

ProjectionNext == \E e \in Events : CreateFirst(e) \/ ApplyNext(e)

ProjectionSpec == ProjectionInit /\ [][ProjectionNext]_projectionVars

-----------------------------------------------------------------------------
(***************************************************************************)
(* What a list must be to be the history of one task: a reference          *)
(* definition that looks at the whole list and keeps no running state.     *)
(***************************************************************************)
TransitionsBefore(events, i) ==
    {j \in 1..(i - 1) : events[j].event_type = "task.transitioned"}

\* The state a list leaves its task in just before element i.
StateBefore(events, i) ==
    LET earlier == TransitionsBefore(events, i)
    IN  IF earlier = {} THEN "created"
        ELSE events[Max(earlier)].payload.to_state

CoherentAt(events, i) ==
    LET e == events[i] IN
    /\ e.task_id = events[1].task_id
    /\ e.sequence = i
    /\ e.event_type \in Registry
    /\ e.event_type = "task.created" <=> i = 1
    /\ i = 1 => e.payload.contract = "task.created"
                /\ e.payload.to_state = "created"
    /\ i > 1 => e.payload_contract = e.event_type
    /\ i = 1 => e.previous_event_digest = NULL
    /\ i > 1 => e.previous_event_digest = events[i - 1].event_digest
    /\ \A j \in 1..(i - 1) : /\ events[j].event_id # e.event_id
                             /\ events[j].event_digest # e.event_digest
    /\ i > 1 => \/ e.causation_event_id = NULL
                \/ \E j \in 1..(i - 1) :
                      events[j].event_id = e.causation_event_id
    /\ e.event_type = "task.transitioned" =>
         /\ e.payload.contract = "task.transitioned"
         /\ e.payload.from_state = StateBefore(events, i)
         /\ canTransition(e.payload.from_state, e.payload.to_state)

Coherent(events) == \A i \in DOMAIN events : CoherentAt(events, i)

(***************************************************************************)
(* project() accepts exactly the coherent histories: it throws on every    *)
(* duplicated, reordered, foreign, unchained or illegal list, throws on no *)
(* other, and the projection it returns describes the last event and the   *)
(* state of the last transition.                                           *)
(***************************************************************************)
AcceptsExactlyHistories ==
    /\ fold.failed <=> ~Coherent(input)
    /\ (input # <<>> /\ ~fold.failed) =>
          LET last == input[Len(input)] IN
          fold.projection = [task_id           |-> input[1].task_id,
                             current_state     |-> StateBefore(input, Len(input) + 1),
                             last_sequence     |-> Len(input),
                             last_event_id     |-> last.event_id,
                             last_event_digest |-> last.event_digest]
=============================================================================
