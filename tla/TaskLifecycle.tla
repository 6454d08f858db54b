--------------------------- MODULE TaskLifecycle ---------------------------
(***************************************************************************)
(* What the catalog promises about a task, whatever statements its clients *)
(* issue: a task appears in state created, moves along the edges of the    *)
(* state machine one at a time, and stays in the final state it reaches.   *)
(***************************************************************************)
EXTENDS TaskState

CONSTANTS Tasks, NULL

VARIABLE state     \* NULL while the task has no projection

Init == state = [t \in Tasks |-> NULL]

Create(t) ==
    /\ state[t] = NULL
    /\ state' = [state EXCEPT ![t] = "created"]

Move(t, to) ==
    /\ state[t] # NULL
    /\ canTransition(state[t], to)
    /\ state' = [state EXCEPT ![t] = to]

Next == \E t \in Tasks : Create(t) \/ \E to \in TaskStates : Move(t, to)

Spec == Init /\ [][Next]_state
=============================================================================
