--------------------------- MODULE MCTaskCatalog ---------------------------
(***************************************************************************)
(* Two tasks.  The first one may log up to four events, legal or not, and  *)
(* reach final states; the second one competes for ids and digests and is  *)
(* cited as a cause.  project() is run on every list of at most four       *)
(* events, each legal or wrong in one of the ways the reducer looks for.   *)
(* The two share no state, and each is explored while the other rests.     *)
(***************************************************************************)
EXTENDS TaskCatalog, TaskProjection

CONSTANTS t1, t2, e1, e2, e3, e4, d1, d2, d3, d4

MCTasks == {t1, t2}
MCEventIds == {e1, e2, e3, e4}
MCDigests == {d1, d2, d3, d4}

body(c, from, to) == [contract |-> c, from_state |-> from, to_state |-> to]

event(env, t, seq, type, pay, cause, prev) ==
    [event_id |-> env[1], task_id |-> t, correlation_id |-> t,
     sequence |-> seq, event_type |-> type, payload_contract |-> type,
     payload |-> pay, causation_event_id |-> cause,
     previous_event_digest |-> prev, event_digest |-> env[2]]

claims(e, contract) == [e EXCEPT !.payload_contract = contract]

Created(env, t, initial) ==
    event(env, t, 1, "task.created", body("task.created", NULL, initial),
          NULL, NULL)

Moved(env, seq, m, cause, prev) ==
    event(env, t1, seq, "task.transitioned",
          body("task.transitioned", m[1], m[2]), cause, prev)

LegalMoves == {<<"created", "preflight">>, <<"preflight", "bloqueado">>,
               <<"created", "cancelado">>}
IllegalMoves == {<<"created", "running">>, <<"bloqueado", "preflight">>,
                 <<"created", NULL>>}

\* Rows that no client should send: each is wrong in one column.
Broken ==
    LET ok == Moved(<<e2, d2>>, 2, <<"created", "preflight">>, NULL, d1) IN
    {[ok EXCEPT !.correlation_id = t2],
     [ok EXCEPT !.sequence = 1],
     [ok EXCEPT !.sequence = 3],
     [ok EXCEPT !.previous_event_digest = NULL],
     [ok EXCEPT !.previous_event_digest = d3],
     [ok EXCEPT !.event_id = e1],
     [ok EXCEPT !.event_digest = d1],
     [ok EXCEPT !.causation_event_id = e2],
     [ok EXCEPT !.payload_contract = "policy.decided"],
     [ok EXCEPT !.payload.contract = "policy.decided"],
     [ok EXCEPT !.event_type = "model.called"],
     [ok EXCEPT !.event_type = "task.created", !.payload.to_state = "created"],
     [Created(<<e1, d1>>, t1, "created") EXCEPT !.event_type = "policy.decided"]}

MCSubmissions ==
         {Created(<<e1, d1>>, t1, s) : s \in {"created", "preflight"}}
    \cup {Created(env, t2, "created") : env \in {<<e2, d2>>, <<e4, d4>>}}
    \cup {Moved(<<e2, d2>>, 2, m, c, d1) :
             m \in LegalMoves \cup IllegalMoves, c \in {NULL, e1, e4}}
    \cup {Moved(<<e3, d3>>, 3, m, c, d2) :
             m \in LegalMoves \cup IllegalMoves, c \in {NULL, e2, e4}}
    \cup {Moved(<<e4, d4>>, 4, m, NULL, d3) : m \in LegalMoves \cup IllegalMoves}
    \cup {event(<<e3, d3>>, t1, n, "policy.decided",
                body("policy.decided", NULL, NULL), NULL, p) :
             n \in {2, 3}, p \in {d1, d2}}
    \cup Broken

-----------------------------------------------------------------------------
CreatedBody == body("task.created", NULL, "created")

Moves == {<<"created", "preflight">>, <<"created", "cancelado">>,
          <<"preflight", "cancelado">>, <<"cancelado", "preflight">>,
          <<"created", "planned">>}

MCEvents ==
         {claims(event(<<e1, d1>>, t, 1, "task.created", b, NULL, p), c) :
             t \in MCTasks, c \in {"task.created", "policy.decided"},
             b \in {CreatedBody, body("task.created", NULL, "preflight")},
             p \in {NULL, d3}}
    \cup {event(<<id, dig>>, t1, seq, "task.transitioned",
                body("task.transitioned", m[1], m[2]), cause, prev) :
             id \in {e1, e2, e3}, seq \in {2, 3}, m \in Moves,
             cause \in {NULL, e1, e3}, prev \in {d1, d2}, dig \in {d2, d3}}
    \cup {claims(event(<<e3, d3>>, t, 3, type, b, NULL, d2), c) :
             t \in MCTasks, type \in EventTypes,
             c \in {"policy.decided", "task.transitioned"},
             b \in {CreatedBody, body("task.transitioned", NULL, "preflight")}}

-----------------------------------------------------------------------------
mcVars == <<vars, projectionVars>>

AllInit == Init /\ ProjectionInit

OneAtATime ==
    \/ ProjectionInit /\ Next /\ UNCHANGED projectionVars
    \/ Init /\ ProjectionNext /\ UNCHANGED vars

MCSpec == AllInit /\ [][OneAtATime]_mcVars
=============================================================================
