----------------------------- MODULE TaskState -----------------------------
(***************************************************************************)
(* The closed task state machine of p0/src/domain/task-state.ts: the       *)
(* twelve states, the five final ones and the table of legal edges that    *)
(* the reducer and, as a copy written in SQL, the update trigger of        *)
(* task_projections both enforce.                                          *)
(***************************************************************************)

FINAL_STATES ==
    {"sucesso_verificado", "falha", "bloqueado", "cancelado", "inconclusivo"}

TaskStates ==
    {"created", "preflight", "contextualizing", "planned", "running",
     "waiting_approval", "verifying"} \cup FINAL_STATES

\* The table validTransitions, as a set of edges.
validTransitions ==
         {"created"} \X {"preflight", "cancelado"}
    \cup {"preflight"} \X {"contextualizing", "bloqueado", "cancelado"}
    \cup {"contextualizing"} \X {"planned", "bloqueado", "cancelado"}
    \cup {"planned"} \X {"running", "bloqueado", "cancelado"}
    \cup {"running"} \X {"waiting_approval", "verifying", "falha",
                         "inconclusivo", "cancelado"}
    \cup {"waiting_approval"} \X {"running", "bloqueado", "cancelado"}
    \cup {"verifying"} \X {"sucesso_verificado", "falha", "bloqueado",
                           "inconclusivo", "cancelado"}

isFinalState(s) == s \in FINAL_STATES

\* validateTransition returns exactly when this holds, and throws otherwise:
\* a string that is no state has no row in the table.
canTransition(from, to) ==
    /\ ~isFinalState(from)
    /\ <<from, to>> \in validTransitions
=============================================================================
