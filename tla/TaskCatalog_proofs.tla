------------------------- MODULE TaskCatalog_proofs -------------------------
(***************************************************************************)
(* Proofs about the task catalog and the reducer, for every set of tasks,  *)
(* ids, digests, submissions and event lists of any length.                *)
(*                                                                         *)
(* TypeOK is inductive as it stands: a row is bounded by the log of its    *)
(* task and every stored event sits at its own sequence.  RowIsReplay      *)
(* needs to know what the insert trigger made sure of when the events were *)
(* stored (StoredInOrder), and what project() remembers of a prefix it has *)
(* read (replayKnows).  The latter is an induction over the log: project() *)
(* is a recursive function, so the section on it shows that the function   *)
(* exists and that one event more is one step more, from the fact that a   *)
(* nonempty set of naturals has a least element.                           *)
(***************************************************************************)
EXTENDS TaskCatalog, TaskProjection, SequenceTheorems, WellFoundedInduction, TLAPS

(***************************************************************************)
(* Appending an event at sequence Len + 1 keeps the logs typed and keyed.  *)
(***************************************************************************)
LEMMA InsertEventTyped ==
    ASSUME TypeOK, NEW e \in Submissions, InsertEvent(e)
    PROVE  TypeOK'
<1> DEFINE t0 == e.task_id
           past == log[t0]
<1>1. e \in EventEnvelope /\ t0 \in Tasks
  BY SubmissionsAssumption DEF EventEnvelope
<1>2. past \in Seq(EventEnvelope) /\ Len(past) \in Nat
  BY <1>1 DEF TypeOK
<1>3. e.sequence = Len(past) + 1
  BY <1>2, past = <<>> => Len(past) = 0 DEF InsertEvent, chainsEvent
<1>4. log' = [log EXCEPT ![t0] = Append(past, e)] /\ row' = row
  BY DEF InsertEvent
<1>5. log' \in [Tasks -> Seq(EventEnvelope)]
  BY <1>1, <1>2, <1>4 DEF TypeOK
<1>6. \A t \in Tasks : \A i \in DOMAIN log'[t] : /\ log'[t][i].task_id = t
                                                 /\ log'[t][i].sequence = i
  BY <1>1, <1>2, <1>3, <1>4 DEF TypeOK
<1>7. \A t \in Tasks : Len(log'[t]) >= Len(log[t])
  BY <1>1, <1>2, <1>4 DEF TypeOK
<1>8. \A t \in Tasks : row[t] # NULL => row[t].last_sequence <= Len(log'[t])
  BY <1>5, <1>7 DEF TypeOK, Projection
<1> QED
  BY <1>4, <1>5, <1>6, <1>8 DEF TypeOK

(***************************************************************************)
(* A row statement replaces one row by the row it names, whose event is in *)
(* the log of its task.                                                    *)
(***************************************************************************)
LEMMA RowWriteTyped ==
    ASSUME TypeOK, NEW r \in RowSubmissions,
           InsertProjection(r) \/ UpdateProjection(r)
    PROVE  TypeOK'
<1>1. r \in Projection /\ r.task_id \in Tasks
  BY MaxSequenceAssumption DEF RowSubmissions, Projection
<1>2. log' = log /\ row' = [row EXCEPT ![r.task_id] = r] /\ namesEvent(r)
  BY DEF InsertProjection, UpdateProjection
<1>3. r.last_sequence <= Len(log[r.task_id])
  BY <1>1, <1>2 DEF namesEvent, TypeOK
<1> QED
  BY <1>1, <1>2, <1>3 DEF TypeOK

LEMMA TypeOKInductive == TypeOK /\ [Next]_vars => TypeOK'
<1> SUFFICES ASSUME TypeOK, [Next]_vars PROVE TypeOK'
  OBVIOUS
<1>1. CASE UNCHANGED vars
  BY <1>1 DEF vars, TypeOK
<1>2. ASSUME NEW e \in Submissions, InsertEvent(e) PROVE TypeOK'
  BY <1>2, InsertEventTyped
<1>3. ASSUME NEW r \in RowSubmissions, InsertProjection(r) \/ UpdateProjection(r)
      PROVE  TypeOK'
  BY <1>3, RowWriteTyped
<1> QED
  BY <1>1, <1>2, <1>3 DEF Next

(***************************************************************************)
(* Every reachable state of the catalog is typed, every event is stored at *)
(* its own sequence of its own task, and no row is ahead of its log.       *)
(***************************************************************************)
THEOREM CatalogTyped == Spec => []TypeOK
<1>1. Init => TypeOK
  BY DEF Init, TypeOK
<1> QED
  BY <1>1, TypeOKInductive, PTL DEF Spec

-----------------------------------------------------------------------------
(***************************************************************************)
(* The edge list written in the update trigger is the table of             *)
(* task-state.ts, and no edge leaves a final state.                        *)
(***************************************************************************)
LEMMA EdgesAgree ==
    ASSUME NEW from, NEW to, <<from, to>> \in projectionEdges
    PROVE  canTransition(from, to) /\ to \in TaskStates
  BY DEF projectionEdges, canTransition, validTransitions, isFinalState,
         FINAL_STATES, TaskStates

LEMMA InsertProjectionCreates ==
    ASSUME TypeOK, NEW r \in RowSubmissions, InsertProjection(r)
    PROVE  Lifecycle!Create(r.task_id)
<1>1. r \in Projection /\ r.task_id \in Tasks
  BY MaxSequenceAssumption DEF RowSubmissions, Projection
<1>2. r # NULL
  BY <1>1, NullAssumption
<1>3. row' = [row EXCEPT ![r.task_id] = r] /\ row[r.task_id] = NULL
  BY DEF InsertProjection
<1>4. rowState' = [rowState EXCEPT ![r.task_id] = r.current_state]
  BY <1>1, <1>2, <1>3 DEF rowState, TypeOK
<1> QED
  BY <1>1, <1>3, <1>4 DEF InsertProjection, Lifecycle!Create, rowState

LEMMA UpdateProjectionMoves ==
    ASSUME TypeOK, NEW r \in RowSubmissions, UpdateProjection(r)
    PROVE  \/ UNCHANGED rowState
           \/ Lifecycle!Move(r.task_id, r.current_state)
<1> DEFINE old == row[r.task_id]
           e == log[r.task_id][r.last_sequence]
<1>1. r \in Projection /\ r.task_id \in Tasks /\ r.current_state \in TaskStates
  BY MaxSequenceAssumption DEF RowSubmissions, Projection
<1>2. r # NULL /\ old # NULL
  BY <1>1, NullAssumption DEF UpdateProjection
<1>3. row' = [row EXCEPT ![r.task_id] = r] /\ followsEvent(old, r, e)
  BY DEF UpdateProjection
<1>4. rowState' = [rowState EXCEPT ![r.task_id] = r.current_state]
  BY <1>1, <1>2, <1>3 DEF rowState, TypeOK
<1>5. rowState[r.task_id] = old.current_state /\ old.current_state \in TaskStates
  BY <1>1, <1>2 DEF rowState, TypeOK, Projection
<1>6. CASE e.event_type = "task.transitioned"
  <2>1. <<old.current_state, r.current_state>> \in projectionEdges
    BY <1>3, <1>6 DEF followsEvent
  <2>2. canTransition(old.current_state, r.current_state)
    BY <2>1, EdgesAgree
  <2> QED
    BY <1>4, <1>5, <2>2, NullAssumption DEF Lifecycle!Move,
       Lifecycle!canTransition, Lifecycle!isFinalState, Lifecycle!FINAL_STATES,
       Lifecycle!validTransitions, canTransition, isFinalState, FINAL_STATES,
       validTransitions
<1>7. CASE e.event_type # "task.transitioned"
  BY <1>1, <1>3, <1>4, <1>5, <1>7 DEF followsEvent, rowState
<1> QED
  BY <1>6, <1>7

(***************************************************************************)
(* The two tables implement the lifecycle of every task: a row appears in  *)
(* state created, moves along the machine's edges one at a time and never  *)
(* leaves a final state, whatever statements the clients issue.            *)
(***************************************************************************)
THEOREM CatalogImplementsLifecycle == Spec => ImplementsLifecycle
<1>1. Init => Lifecycle!Init
  BY DEF Init, Lifecycle!Init, rowState
<1>2. TypeOK /\ [Next]_vars => [Lifecycle!Next]_rowState
  <2> SUFFICES ASSUME TypeOK, [Next]_vars PROVE [Lifecycle!Next]_rowState
    OBVIOUS
  <2>1. CASE UNCHANGED vars
    BY <2>1 DEF vars, rowState
  <2>2. ASSUME NEW e \in Submissions, InsertEvent(e) PROVE UNCHANGED rowState
    BY <2>2 DEF InsertEvent, rowState
  <2>3. ASSUME NEW r \in RowSubmissions, InsertProjection(r)
        PROVE  Lifecycle!Next
    BY <2>3, InsertProjectionCreates DEF Lifecycle!Next, RowSubmissions
  <2>4. ASSUME NEW r \in RowSubmissions, UpdateProjection(r)
        PROVE  [Lifecycle!Next]_rowState
    <3>1. r.task_id \in Tasks /\ r.current_state \in Lifecycle!TaskStates
      BY DEF RowSubmissions, TaskStates, FINAL_STATES, Lifecycle!TaskStates,
             Lifecycle!FINAL_STATES
    <3> QED
      BY <2>4, <3>1, UpdateProjectionMoves DEF Lifecycle!Next
  <2> QED
    BY <2>1, <2>2, <2>3, <2>4 DEF Next
<1> QED
  BY <1>1, <1>2, CatalogTyped, PTL DEF Spec, ImplementsLifecycle, Lifecycle!Spec

-----------------------------------------------------------------------------
(***************************************************************************)
(* The least element of a set of naturals, by which the inductions over a  *)
(* log are done.                                                           *)
(***************************************************************************)
LEMMA LeastExists ==
    ASSUME NEW T \in SUBSET Nat, T # {}
    PROVE  \E m \in T : \A k \in T : m <= k
<1> DEFINE R == {ss \in Nat \X Nat : ss[1] < ss[2]}
<1>1. IsWellFoundedOn(R, Nat)
  BY NatLessThanWellFounded DEF OpToRel
<1>2. \E m \in T : \A k \in T : ~ (<<k, m>> \in R)
  <2> HIDE DEF R
  <2> QED
    BY <1>1, WFMin
<1>3. PICK m \in T : \A k \in T : ~ (<<k, m>> \in R)
  BY <1>2
<1>4. ASSUME NEW k \in T PROVE m <= k
  <2>1. <<k, m>> \notin R /\ <<k, m>> \in Nat \X Nat
    BY <1>3
  <2>2. ~(<<k, m>>[1] < <<k, m>>[2])
    BY <2>1
  <2> QED
    BY <2>1, <2>2
<1> QED
  BY <1>3, <1>4

\* f holds the locals of project() after 0, 1, ..., n events of the list.
folds(f, events, n) ==
    f = [i \in 0..n |-> IF i = 0 THEN emptyFold ELSE foldEvent(f[i - 1], events[i])]

LEMMA FoldExists ==
    ASSUME NEW S, NEW events \in Seq(S), NEW n \in 0..Len(events)
    PROVE  \E f : folds(f, events, n)
<1> DEFINE Bad == {k \in 0..Len(events) : ~ \E f : folds(f, events, k)}
<1> SUFFICES ASSUME Bad # {} PROVE FALSE
  OBVIOUS
<1>1. Bad \in SUBSET Nat /\ Len(events) \in Nat
  BY LenProperties
<1>2. PICK k \in Bad : \A j \in Bad : k <= j
  <2> HIDE DEF Bad
  <2> QED
    BY <1>1, LeastExists
<1>3. CASE k = 0
  <2>1. folds([i \in 0..0 |-> emptyFold], events, 0)
    BY DEF folds
  <2> QED
    BY <1>3, <2>1
<1>4. CASE k # 0
  <2>1. k \in 0..Len(events) /\ k - 1 \in 0..Len(events) /\ k - 1 \notin Bad
    BY <1>1, <1>2, <1>4
  <2>2. PICK f : folds(f, events, k - 1)
    BY <2>1
  <2> DEFINE g == [i \in 0..k |-> IF i = k THEN foldEvent(f[k - 1], events[k])
                                           ELSE f[i]]
  <2>3. \A i \in 0..k :
           g[i] = IF i = 0 THEN emptyFold ELSE foldEvent(g[i - 1], events[i])
    BY <1>1, <1>4, <2>1, <2>2 DEF folds
  <2>4. folds(g, events, k)
    BY <2>3 DEF folds
  <2> QED
    BY <2>4
<1> QED
  BY <1>3, <1>4

sameUpTo(events, other, n) == \A i \in 1..n : events[i] = other[i]

LEMMA FoldsAgree ==
    ASSUME NEW n \in Nat, NEW events, NEW other, sameUpTo(events, other, n),
           NEW f, folds(f, events, n), NEW g, folds(g, other, n + 1)
    PROVE  f[n] = g[n]
<1> DEFINE Bad == {j \in 0..n : f[j] # g[j]}
<1> SUFFICES ASSUME Bad # {} PROVE FALSE
  OBVIOUS
<1>1. PICK j \in Bad : \A i \in Bad : j <= i
  <2>1. Bad \in SUBSET Nat
    OBVIOUS
  <2> HIDE DEF Bad
  <2> QED
    BY <2>1, LeastExists
<1>2. /\ f[j] = IF j = 0 THEN emptyFold ELSE foldEvent(f[j - 1], events[j])
      /\ g[j] = IF j = 0 THEN emptyFold ELSE foldEvent(g[j - 1], other[j])
  BY DEF folds
<1>3. CASE j = 0
  BY <1>2, <1>3
<1>4. CASE j # 0
  <2>1. j - 1 \in 0..n /\ j - 1 \notin Bad /\ j \in 1..n
    BY <1>1, <1>4
  <2> QED
    BY <1>2, <1>4, <2>1 DEF sameUpTo
<1> QED
  BY <1>3, <1>4

LEMMA ProjectFolds ==
    ASSUME NEW S, NEW events \in Seq(S)
    PROVE  \E f : folds(f, events, Len(events)) /\ project(events) = f[Len(events)]
<1>1. PICK f : folds(f, events, Len(events))
  BY FoldExists, LenProperties
<1>2. folds(CHOOSE h : folds(h, events, Len(events)), events, Len(events))
  BY <1>1
<1> QED
  BY <1>2 DEF folds, project

(***************************************************************************)
(* project() of no event, and of one event more.                           *)
(***************************************************************************)
LEMMA ProjectEmpty == project(<<>>) = emptyFold
<1>1. PICK f : folds(f, <<>>, 0) /\ project(<<>>) = f[0]
  BY ProjectFolds, EmptySeq
<1> QED
  BY <1>1 DEF folds

LEMMA ProjectAppend ==
    ASSUME NEW S, NEW events \in Seq(S), NEW e \in S
    PROVE  project(Append(events, e)) = foldEvent(project(events), e)
<1> DEFINE more == Append(events, e)
           n == Len(events)
<1>1. /\ more \in Seq(S) /\ Len(more) = n + 1 /\ more[n + 1] = e
      /\ n \in Nat /\ \A i \in 1..n : events[i] = more[i]
  BY AppendProperties, LenProperties
<1>2. PICK f : folds(f, events, n) /\ project(events) = f[n]
  BY ProjectFolds
<1>3. PICK g : folds(g, more, n + 1) /\ project(more) = g[n + 1]
  BY <1>1, ProjectFolds
<1>4. f[n] = g[n]
  <2>1. n \in Nat /\ sameUpTo(events, more, n)
    BY <1>1 DEF sameUpTo
  <2>2. folds(f, events, n) /\ folds(g, more, n + 1)
    BY <1>2, <1>3
  <2> HIDE DEF more, n
  <2> QED
    BY <2>1, <2>2, FoldsAgree
<1>5. g[n + 1] = foldEvent(g[n], more[n + 1])
  BY <1>1, <1>3 DEF folds
<1> QED
  BY <1>1, <1>2, <1>3, <1>4, <1>5

-----------------------------------------------------------------------------
(***************************************************************************)
(* What events_insert_guard, the keys and the checks of table events made  *)
(* sure of when an event was stored at place i of its task's log.          *)
(***************************************************************************)
storedAt(events, i) ==
    LET e == events[i] IN
    /\ i = 1 => /\ e.event_type = "task.created"
                /\ e.previous_event_digest = NULL
                /\ e.causation_event_id = NULL
    /\ i > 1 => e.previous_event_digest = events[i - 1].event_digest
    /\ e.causation_event_id # e.event_id
    /\ \/ e.causation_event_id = NULL
       \/ \E j \in 1..(i - 1) : events[j].event_id = e.causation_event_id
    /\ \A j \in 1..(i - 1) : /\ events[j].event_id # e.event_id
                             /\ events[j].event_digest # e.event_digest

StoredInOrder == \A t \in Tasks : \A i \in DOMAIN log[t] : storedAt(log[t], i)

LEMMA InsertEventInOrder ==
    ASSUME TypeOK, StoredInOrder, NEW e \in Submissions, InsertEvent(e)
    PROVE  StoredInOrder'
<1> DEFINE t0 == e.task_id
           past == log[t0]
           n == Len(past)
           more == Append(past, e)
<1>1. e \in EventEnvelope /\ t0 \in Tasks
  BY SubmissionsAssumption DEF EventEnvelope
<1>2. /\ past \in Seq(EventEnvelope) /\ n \in Nat /\ DOMAIN past = 1..n
      /\ past = <<>> <=> n = 0
  BY <1>1, LenProperties, EmptySeq DEF TypeOK
<1>3. log' = [log EXCEPT ![t0] = more]
  BY DEF InsertEvent
<1>4. /\ Len(more) = n + 1 /\ DOMAIN more = 1..(n + 1) /\ more[n + 1] = e
      /\ \A i \in 1..n : more[i] = past[i]
  BY <1>1, <1>2, AppendProperties, LenProperties
<1>5. e.sequence = n + 1
  BY <1>2 DEF InsertEvent, chainsEvent
<1>6. \A j \in 1..n : /\ past[j].event_id # e.event_id
                      /\ past[j].event_digest # e.event_digest
  BY <1>1, <1>2 DEF InsertEvent, freshEvent
<1>7. storedAt(more, n + 1)
  <2>1. n + 1 = 1 => /\ e.event_type = "task.created"
                     /\ e.previous_event_digest = NULL
    BY <1>2, <1>5 DEF InsertEvent, chainsEvent
  <2>2. n + 1 > 1 => e.previous_event_digest = more[n].event_digest
    BY <1>2, <1>4, <1>5 DEF InsertEvent, chainsEvent
  <2>3. \/ e.causation_event_id = NULL
        \/ \E j \in 1..n : past[j].event_id = e.causation_event_id
    BY <1>2, <1>5 DEF InsertEvent, causedInPast
  <2>4. e.causation_event_id # e.event_id
    BY DEF InsertEvent, checksEvent
  <2>5. (n + 1) - 1 = n
    BY <1>2
  <2> QED
    BY <1>2, <1>4, <1>6, <2>1, <2>2, <2>3, <2>4, <2>5 DEF storedAt
<1>8. ASSUME NEW i \in 1..n PROVE storedAt(more, i)
  <2>1. i \in DOMAIN past /\ n \in Nat
    BY <1>2
  <2>2. storedAt(past, i)
    BY <1>1, <2>1 DEF StoredInOrder
  <2>3. /\ more[i] = past[i] /\ (i > 1 => more[i - 1] = past[i - 1])
        /\ \A j \in 1..(i - 1) : more[j] = past[j]
    BY <1>4, <2>1
  <2> HIDE DEF more, past, n
  <2> QED
    BY <2>2, <2>3 DEF storedAt
<1>9. \A i \in 1..(n + 1) : storedAt(more, i)
  BY <1>2, <1>7, <1>8
<1>10. \A t \in Tasks : log'[t] = IF t = t0 THEN more ELSE log[t]
  BY <1>1, <1>3 DEF TypeOK
<1> QED
  BY <1>4, <1>9, <1>10 DEF StoredInOrder

LEMMA StoredInOrderStep ==
    TypeOK /\ StoredInOrder /\ [Next]_vars => StoredInOrder'
<1> SUFFICES ASSUME TypeOK, StoredInOrder, [Next]_vars PROVE StoredInOrder'
  OBVIOUS
<1>1. ASSUME NEW e \in Submissions, InsertEvent(e) PROVE StoredInOrder'
  BY <1>1, InsertEventInOrder
<1>2. ASSUME log' = log PROVE StoredInOrder'
  BY <1>2 DEF StoredInOrder
<1> QED
  BY <1>1, <1>2 DEF Next, InsertProjection, UpdateProjection, vars

-----------------------------------------------------------------------------
(***************************************************************************)
(* What the locals f of project() hold after the first n events of the log *)
(* of t, if it has not thrown: every id and digest, and the last event.    *)
(***************************************************************************)
idsUpTo(t, n) == {log[t][i].event_id : i \in 1..n}
digestsUpTo(t, n) == {log[t][i].event_digest : i \in 1..n}

rowAt(t, n, current) ==
    [task_id |-> t, current_state |-> current, last_sequence |-> n,
     last_event_id |-> log[t][n].event_id,
     last_event_digest |-> log[t][n].event_digest]

\* project() has not thrown.
live(f) == f.failed = FALSE

knows(f, t, n) ==
    /\ live(f) \/ f.failed = TRUE
    /\ DOMAIN f = DOMAIN emptyFold
    /\ live(f) =>
          /\ f.projection = rowAt(t, n, f.projection.current_state)
          /\ f.seenEventIds = idsUpTo(t, n)
          /\ f.seenEventDigests = digestsUpTo(t, n)

replayed(t, n) == project(SubSeq(log[t], 1, n))

LEMMA ReplayStep ==
    ASSUME TypeOK, NEW t \in Tasks, NEW n \in 1..Len(log[t])
    PROVE  replayed(t, n) = foldEvent(replayed(t, n - 1), log[t][n])
<1> DEFINE s == log[t]
<1>1. s \in Seq(EventEnvelope) /\ Len(s) \in Nat /\ n \in 1..Len(s)
  BY LenProperties DEF TypeOK
<1>2. /\ SubSeq(s, 1, n - 1) \in Seq(EventEnvelope) /\ s[n] \in EventEnvelope
      /\ SubSeq(s, 1, n) = Append(SubSeq(s, 1, n - 1), s[n])
  <2> HIDE DEF s
  <2>1. 1 \in 1..Len(s) + 1 /\ n \in 0..Len(s) /\ n - 1 \in 0..Len(s) /\ 1 <= n
    BY <1>1
  <2>2. SubSeq(s, 1, n - 1) \in Seq(EventEnvelope) /\ s[n] \in EventEnvelope
    BY <1>1, <2>1, SubSeqProperties, ElementOfSeq
  <2>3. SubSeq(s, 1, n) = Append(SubSeq(s, 1, n - 1), s[n])
    BY <1>1, <2>1
  <2> QED
    BY <2>2, <2>3
<1> QED
  BY <1>2, ProjectAppend DEF replayed

LEMMA ReplayNothing ==
    ASSUME TypeOK, NEW t \in Tasks
    PROVE  replayed(t, 0) = emptyFold
<1>1. SubSeq(log[t], 1, 0) = <<>>
  BY DEF TypeOK
<1> QED
  BY <1>1, ProjectEmpty DEF replayed

LEMMA FailedStays == ASSUME NEW f, f.failed = TRUE PROVE \A e : foldEvent(f, e) = f
  BY DEF foldEvent, emptyFold

(***************************************************************************)
(* The first event: createProjection, or nothing.                          *)
(***************************************************************************)
LEMMA FirstKnown ==
    ASSUME NEW t, NEW e, e = log[t][1], e.task_id = t, e.sequence = 1
    PROVE  /\ knows(foldEvent(emptyFold, e), t, 1)
           /\ createAccepts(e) <=> live(foldEvent(emptyFold, e))
           /\ createAccepts(e) =>
                 foldEvent(emptyFold, e).projection.current_state = "created"
<1>0. PICK g : g = foldEvent(emptyFold, e)
  OBVIOUS
<1>1. g = startFold(e)
  BY <1>0 DEF foldEvent, emptyFold
<1>2. idsUpTo(t, 1) = {e.event_id} /\ digestsUpTo(t, 1) = {e.event_digest}
  BY DEF idsUpTo, digestsUpTo
<1>3. CASE createAccepts(e)
  <2>1. createProjection(e) = rowAt(t, 1, "created")
    BY DEF createProjection, rowAt
  <2>2. /\ live(g) /\ g.projection = rowAt(t, 1, "created")
        /\ g.seenEventIds = idsUpTo(t, 1) /\ g.seenEventDigests = digestsUpTo(t, 1)
        /\ DOMAIN g = DOMAIN emptyFold
    BY <1>1, <1>2, <1>3, <2>1 DEF startFold, emptyFold, live
  <2>3. rowAt(t, 1, "created").current_state = "created"
    BY DEF rowAt
  <2> QED
    BY <1>0, <1>3, <2>2, <2>3 DEF knows
<1>4. CASE ~createAccepts(e)
  <2>1. g.failed = TRUE /\ DOMAIN g = DOMAIN emptyFold
    BY <1>1, <1>4 DEF startFold, emptyFold
  <2> QED
    BY <1>0, <1>4, <2>1 DEF knows, live
<1> QED
  BY <1>3, <1>4

(***************************************************************************)
(* A later event, after a prefix that was accepted: one turn of the loop.  *)
(***************************************************************************)
LEMMA LaterSteps ==
    ASSUME NEW t, NEW n \in Nat, n > 1, NEW e,
           NEW f, knows(f, t, n - 1), live(f)
    PROVE  foldEvent(f, e) = stepFold(f, e)
<1>1. 1 \in 1..(n - 1)
  OBVIOUS
<1>2. f.seenEventIds # {}
  BY <1>1 DEF knows, idsUpTo
<1>3. f # emptyFold
  BY <1>2 DEF emptyFold
<1> QED
  BY <1>3 DEF foldEvent, live

LEMMA LaterAccepted ==
    ASSUME NEW t, NEW n \in Nat, n > 1, NEW e, e = log[t][n],
           e.task_id = t, e.sequence = n,
           NEW f, knows(f, t, n - 1), live(f), loopAccepts(f, e),
           NEW g, g = foldEvent(f, e)
    PROVE  /\ knows(g, t, n) /\ live(g)
           /\ g.projection.current_state = nextState(f.projection, e)
<1>1. PICK p : p = f.projection
  OBVIOUS
<1> DEFINE to == nextState(p, e)
<1>2. /\ p = rowAt(t, n - 1, p.current_state)
      /\ f.seenEventIds = idsUpTo(t, n - 1)
      /\ f.seenEventDigests = digestsUpTo(t, n - 1)
  BY <1>1 DEF knows
<1>3. /\ idsUpTo(t, n) = idsUpTo(t, n - 1) \cup {e.event_id}
      /\ digestsUpTo(t, n) = digestsUpTo(t, n - 1) \cup {e.event_digest}
  <2>1. 1..n = 1..(n - 1) \cup {n}
    OBVIOUS
  <2> QED
    BY <2>1 DEF idsUpTo, digestsUpTo
<1>4. applyEvent(p, e) = rowAt(t, n, to)
  <2>1. applyEvent(p, e)
          = [p EXCEPT !.current_state     = nextState(p, e),
                      !.last_sequence     = n,
                      !.last_event_id     = log[t][n].event_id,
                      !.last_event_digest = log[t][n].event_digest]
    BY DEF applyEvent
  <2>2. PICK now : now = p.current_state
    OBVIOUS
  <2>3. p = [task_id |-> t, current_state |-> now, last_sequence |-> n - 1,
             last_event_id |-> log[t][n - 1].event_id,
             last_event_digest |-> log[t][n - 1].event_digest]
    BY <1>2, <2>2 DEF rowAt
  <2> QED
    BY <2>1, <2>3 DEF rowAt
<1>5. g = stepFold(f, e)
  BY LaterSteps
<1>6. /\ live(g) /\ g.projection = rowAt(t, n, to)
      /\ g.seenEventIds = idsUpTo(t, n) /\ g.seenEventDigests = digestsUpTo(t, n)
      /\ DOMAIN g = DOMAIN emptyFold
  BY <1>1, <1>2, <1>3, <1>4, <1>5 DEF stepFold, emptyFold, live
<1>7. rowAt(t, n, to).current_state = to
  BY DEF rowAt
<1> HIDE DEF to
<1>8. knows(g, t, n)
  BY <1>6, <1>7 DEF knows
<1> QED
  BY <1>1, <1>6, <1>7, <1>8 DEF to

LEMMA LaterRefused ==
    ASSUME NEW t, NEW n \in Nat, n > 1, NEW e,
           NEW f, knows(f, t, n - 1), live(f), ~loopAccepts(f, e)
    PROVE  knows(foldEvent(f, e), t, n)
<1>1. PICK g : g = foldEvent(f, e)
  OBVIOUS
<1>2. g = [f EXCEPT !.failed = TRUE]
  BY <1>1, LaterSteps DEF stepFold
<1>3. DOMAIN f = DOMAIN emptyFold /\ "failed" \in DOMAIN f
  BY DEF knows, emptyFold
<1>4. g.failed = TRUE /\ DOMAIN g = DOMAIN emptyFold
  BY <1>2, <1>3
<1> QED
  BY <1>1, <1>4 DEF knows, live

LEMMA ReplayKnows ==
    ASSUME TypeOK, NEW t \in Tasks, NEW n \in 1..Len(log[t])
    PROVE  knows(replayed(t, n), t, n)
<1> DEFINE Bad == {k \in 1..Len(log[t]) : ~knows(replayed(t, k), t, k)}
<1> SUFFICES ASSUME Bad # {} PROVE FALSE
  OBVIOUS
<1>1. Len(log[t]) \in Nat /\ DOMAIN log[t] = 1..Len(log[t]) /\ Bad \in SUBSET Nat
  BY LenProperties DEF TypeOK
<1>2. PICK k \in Bad : \A j \in Bad : k <= j
  <2> HIDE DEF Bad
  <2> QED
    BY <1>1, LeastExists
<1>3. k \in 1..Len(log[t]) /\ ~knows(replayed(t, k), t, k)
  BY <1>2
<1>4. /\ log[t][k].task_id = t /\ log[t][k].sequence = k
      /\ replayed(t, k) = foldEvent(replayed(t, k - 1), log[t][k])
  BY <1>1, <1>3, ReplayStep DEF TypeOK
<1>5. CASE k = 1
  <2>1. replayed(t, 0) = emptyFold /\ k - 1 = 0
    BY <1>5, ReplayNothing
  <2>2. knows(foldEvent(emptyFold, log[t][1]), t, 1)
    BY <1>4, <1>5, FirstKnown
  <2> QED
    BY <1>3, <1>4, <1>5, <2>1, <2>2
<1>6. CASE k # 1
  <2>1. k > 1 /\ k - 1 \in 1..Len(log[t]) /\ k - 1 \notin Bad
    BY <1>1, <1>2, <1>3, <1>6
  <2>2. PICK f : f = replayed(t, k - 1)
    OBVIOUS
  <2>3. knows(f, t, k - 1) /\ (live(f) \/ f.failed = TRUE)
    BY <2>1, <2>2 DEF knows
  <2>4. CASE f.failed = TRUE
    <3>1. replayed(t, k) = f
      BY <1>4, <2>2, <2>4, FailedStays
    <3>2. knows(f, t, k)
      BY <2>3, <2>4 DEF knows, live
    <3> QED
      BY <1>3, <3>1, <3>2
  <2>5. CASE live(f)
    <3>1. k \in Nat /\ k > 1
      BY <1>3, <2>1
    <3>2. knows(foldEvent(f, log[t][k]), t, k)
      BY <1>4, <2>3, <2>5, <3>1, LaterAccepted, LaterRefused
    <3> QED
      BY <1>3, <1>4, <2>2, <3>2
  <2> QED
    BY <2>3, <2>4, <2>5
<1> QED
  BY <1>5, <1>6

-----------------------------------------------------------------------------
(***************************************************************************)
(* A stored event is accepted by the reducer unless the registry refuses   *)
(* it or it does not follow the state: the triggers have made sure of the  *)
(* rest.                                                                   *)
(***************************************************************************)
LEMMA StoredTyped ==
    ASSUME TypeOK, NEW t \in Tasks, NEW n \in 1..Len(log[t])
    PROVE  /\ Len(log[t]) \in Nat /\ DOMAIN log[t] = 1..Len(log[t])
           /\ log[t][n] \in EventEnvelope
           /\ log[t][n].task_id = t /\ log[t][n].sequence = n
  BY LenProperties, ElementOfSeq DEF TypeOK

LEMMA CreateAcceptsStored ==
    ASSUME TypeOK, StoredInOrder, NEW t \in Tasks, Len(log[t]) >= 1,
           ~RefusedByRegistry(log[t][1], 1),
           log[t][1].payload.to_state = "created"
    PROVE  createAccepts(log[t][1])
<1>1. 1 \in 1..Len(log[t])
  BY LenProperties DEF TypeOK
<1>2. /\ log[t][1].event_type = "task.created"
      /\ log[t][1].previous_event_digest = NULL
      /\ log[t][1].sequence = 1
  BY <1>1, StoredTyped DEF StoredInOrder, storedAt
<1> QED
  BY <1>2 DEF createAccepts, readsTaskCreatedPayload, RefusedByRegistry

LEMMA LoopAcceptsStored ==
    ASSUME TypeOK, StoredInOrder, NEW t \in Tasks, NEW n \in 2..Len(log[t]),
           NEW e, e = log[t][n], ~RefusedByRegistry(e, n),
           NEW f, knows(f, t, n - 1), live(f),
           e.event_type = "task.transitioned" =>
               /\ e.payload.from_state = f.projection.current_state
               /\ canTransition(e.payload.from_state, e.payload.to_state)
    PROVE  loopAccepts(f, e)
<1>1. /\ Len(log[t]) \in Nat /\ n \in 1..Len(log[t]) /\ n > 1
      /\ n \in DOMAIN log[t]
      /\ e.task_id = t /\ e.sequence = n
  BY LenProperties, StoredTyped DEF TypeOK
<1>2. storedAt(log[t], n)
  BY <1>1 DEF StoredInOrder
<1>3. /\ f.projection = rowAt(t, n - 1, f.projection.current_state)
      /\ f.seenEventIds = idsUpTo(t, n - 1)
      /\ f.seenEventDigests = digestsUpTo(t, n - 1)
  BY DEF knows
<1>4. /\ e.event_id \notin f.seenEventIds
      /\ e.event_digest \notin f.seenEventDigests
      /\ e.causation_event_id \in f.seenEventIds \cup {NULL}
      /\ e.causation_event_id # e.event_id
      /\ e.previous_event_digest = log[t][n - 1].event_digest
  BY <1>1, <1>2, <1>3 DEF storedAt, idsUpTo, digestsUpTo
<1>5. /\ e.event_type \in Registry
      /\ e.event_type # "task.created"
      /\ e.payload_contract = e.event_type
      /\ e.event_type = "task.transitioned" => e.payload.contract = "task.transitioned"
  BY <1>1 DEF RefusedByRegistry
<1>6. e.event_type = "task.transitioned" => readsTaskTransitionedPayload(e.payload)
  <2>1. \A from, to : canTransition(from, to) => from # NULL /\ to # NULL
    BY NullAssumption DEF canTransition, validTransitions, isFinalState,
       FINAL_STATES, TaskStates
  <2> QED
    BY <1>5, <2>1 DEF readsTaskTransitionedPayload
<1>7. /\ e.task_id = f.projection.task_id
      /\ e.sequence = f.projection.last_sequence + 1
      /\ e.previous_event_digest = f.projection.last_event_digest
  <2>1. PICK now : now = f.projection.current_state
    OBVIOUS
  <2>2. f.projection = rowAt(t, n - 1, now)
    BY <1>3, <2>1
  <2> QED
    BY <1>1, <1>4, <2>2 DEF rowAt
<1>8. applyAccepts(f.projection, e)
  BY <1>4, <1>5, <1>6, <1>7 DEF applyAccepts
<1> QED
  BY <1>4, <1>8 DEF loopAccepts

(***************************************************************************)
(* Replay stops at content: a static consequence of how events are stored. *)
(***************************************************************************)
LEMMA StopsAtContent == TypeOK /\ StoredInOrder => ReplayStopsAtContent
<1> SUFFICES ASSUME TypeOK, StoredInOrder, NEW t \in Tasks, NEW n \in DOMAIN log[t],
                    ~replayed(t, n - 1).failed, replayed(t, n).failed,
                    NEW e, e = log[t][n],
                    ~RefusedByRegistry(e, n),
                    ~(n = 1 /\ e.payload.to_state # "created"),
                    ~ /\ e.event_type = "task.transitioned"
                      /\ \/ e.payload.from_state
                               # replayed(t, n - 1).projection.current_state
                         \/ ~canTransition(e.payload.from_state, e.payload.to_state)
             PROVE  FALSE
  BY DEF ReplayStopsAtContent, replayed
<1>1. /\ n \in 1..Len(log[t]) /\ Len(log[t]) \in Nat
      /\ e.task_id = t /\ e.sequence = n
      /\ replayed(t, n) = foldEvent(replayed(t, n - 1), e)
  BY LenProperties, StoredTyped, ReplayStep DEF TypeOK
<1>2. CASE n = 1
  <2>1. replayed(t, 0) = emptyFold /\ n - 1 = 0 /\ Len(log[t]) >= 1
    BY <1>1, <1>2, ReplayNothing
  <2>2. createAccepts(e)
    BY <1>2, <2>1, CreateAcceptsStored
  <2>3. live(foldEvent(emptyFold, e))
    BY <1>1, <1>2, <2>2, FirstKnown
  <2> QED
    BY <1>1, <2>1, <2>3 DEF live
<1>3. CASE n # 1
  <2>1. n > 1 /\ n - 1 \in 1..Len(log[t]) /\ n \in 2..Len(log[t])
    BY <1>1, <1>3
  <2>2. PICK f : f = replayed(t, n - 1)
    OBVIOUS
  <2>3. knows(f, t, n - 1)
    BY <2>1, <2>2, ReplayKnows
  <2>4. live(f)
    BY <2>2, <2>3 DEF knows, live
  <2>5. e.event_type = "task.transitioned" =>
               /\ e.payload.from_state = f.projection.current_state
               /\ canTransition(e.payload.from_state, e.payload.to_state)
    BY <2>2
  <2>6. loopAccepts(f, e)
    BY <2>1, <2>3, <2>4, <2>5, LoopAcceptsStored
  <2>7. live(foldEvent(f, e))
    <3>1. n \in Nat /\ n > 1 /\ e.task_id = t /\ e.sequence = n
      BY <1>1, <2>1
    <3> QED
      BY <2>3, <2>4, <2>6, <3>1, LaterAccepted
  <2> QED
    BY <1>1, <2>2, <2>7 DEF live
<1> QED
  BY <1>2, <1>3

-----------------------------------------------------------------------------
(***************************************************************************)
(* A row and the replay of the events it covers.                           *)
(***************************************************************************)
replays(r, events) ==
    LET past == SubSeq(events, 1, r.last_sequence) IN
    (\A i \in DOMAIN past : ~RefusedByRegistry(past[i], i))
    => ~project(past).failed /\ project(past).projection = r

LEMMA RowsReplay ==
    RowIsReplay <=> \A t \in Tasks : row[t] # NULL => replays(row[t], log[t])
  BY DEF RowIsReplay, replays, covered

LEMMA CoveredPrefix ==
    ASSUME TypeOK, NEW t \in Tasks, NEW n \in 0..Len(log[t])
    PROVE  /\ DOMAIN SubSeq(log[t], 1, n) = 1..n
           /\ \A i \in 1..n : SubSeq(log[t], 1, n)[i] = log[t][i]
  BY LenProperties DEF TypeOK

LEMMA InsertProjectionReplays ==
    ASSUME TypeOK, StoredInOrder, NEW r \in RowSubmissions, InsertProjection(r)
    PROVE  replays(r, log[r.task_id])
<1> DEFINE t == r.task_id
           e == log[t][1]
<1>1. r \in Projection /\ t \in Tasks
  BY MaxSequenceAssumption DEF RowSubmissions, Projection
<1>2. /\ r.current_state = "created" /\ r.last_sequence = 1
      /\ 1 \in DOMAIN log[t] /\ e.event_id = r.last_event_id
      /\ e.event_digest = r.last_event_digest
      /\ e.payload.to_state = "created"
  BY DEF InsertProjection, namesEvent
<1>3. 1 \in 1..Len(log[t]) /\ Len(log[t]) \in Nat
  BY <1>1, <1>2, LenProperties DEF TypeOK
<1>4. SUFFICES ASSUME ~RefusedByRegistry(e, 1)
               PROVE  ~replayed(t, 1).failed /\ replayed(t, 1).projection = r
  <2>1. /\ DOMAIN SubSeq(log[t], 1, 1) = 1..1
        /\ SubSeq(log[t], 1, 1)[1] = log[t][1]
    BY <1>1, <1>3, CoveredPrefix
  <2> QED
    BY <1>2, <2>1 DEF replays, replayed
<1>5. PICK g : g = foldEvent(emptyFold, e)
  OBVIOUS
<1>6. /\ replayed(t, 1) = g /\ e.task_id = t /\ e.sequence = 1
  <2>1. replayed(t, 1) = foldEvent(replayed(t, 1 - 1), e)
    BY <1>1, <1>3, ReplayStep
  <2>2. 1 - 1 = 0
    OBVIOUS
  <2> QED
    BY <1>1, <1>3, <1>5, <2>1, <2>2, ReplayNothing, StoredTyped
<1>7. createAccepts(e)
  BY <1>1, <1>2, <1>3, <1>4, CreateAcceptsStored
<1>8. /\ knows(g, t, 1) /\ live(g)
      /\ g.projection.current_state = "created"
  BY <1>5, <1>6, <1>7, FirstKnown
<1>9. g.projection = rowAt(t, 1, "created")
  BY <1>8 DEF knows
<1>10. rowAt(t, 1, "created") = r
  BY <1>2 DEF rowAt, RowSubmissions
<1> QED
  BY <1>6, <1>8, <1>9, <1>10 DEF live

LEMMA UpdateProjectionReplays ==
    ASSUME TypeOK, StoredInOrder, NEW r \in RowSubmissions, UpdateProjection(r),
           replays(row[r.task_id], log[r.task_id])
    PROVE  replays(r, log[r.task_id])
<1> DEFINE t == r.task_id
           n == r.last_sequence
           old == row[t]
           e == log[t][n]
<1>1. r \in Projection /\ t \in Tasks /\ old \in Projection
  BY MaxSequenceAssumption DEF RowSubmissions, Projection, UpdateProjection, TypeOK
<1>2. /\ n = old.last_sequence + 1 /\ n \in DOMAIN log[t]
      /\ e.event_id = r.last_event_id /\ e.event_digest = r.last_event_digest
      /\ followsEvent(old, r, e)
  BY DEF UpdateProjection, namesEvent
<1>3. /\ Len(log[t]) \in Nat /\ n \in 2..Len(log[t]) /\ n \in 1..Len(log[t])
      /\ n > 1 /\ old.last_sequence = n - 1 /\ n - 1 \in 1..Len(log[t])
      /\ n - 1 \in 0..Len(log[t]) /\ n \in 0..Len(log[t])
  BY <1>1, <1>2, LenProperties DEF TypeOK, Projection
<1>4. e.task_id = t /\ e.sequence = n
  BY <1>1, <1>3, StoredTyped
<1>5. SUFFICES ASSUME \A i \in 1..n : ~RefusedByRegistry(log[t][i], i)
               PROVE  ~replayed(t, n).failed /\ replayed(t, n).projection = r
  <2>1. /\ DOMAIN SubSeq(log[t], 1, n) = 1..n
        /\ \A i \in 1..n : SubSeq(log[t], 1, n)[i] = log[t][i]
    BY <1>1, <1>3, CoveredPrefix
  <2> QED
    BY <2>1 DEF replays, replayed
<1>6. PICK f : f = replayed(t, n - 1)
  OBVIOUS
<1>7. ~f.failed /\ f.projection = old
  <2>1. /\ DOMAIN SubSeq(log[t], 1, n - 1) = 1..(n - 1)
        /\ \A i \in 1..(n - 1) : SubSeq(log[t], 1, n - 1)[i] = log[t][i]
    BY <1>1, <1>3, CoveredPrefix
  <2>2. \A i \in 1..(n - 1) : i \in 1..n
    BY <1>3
  <2>3. \A i \in DOMAIN SubSeq(log[t], 1, n - 1) :
           ~RefusedByRegistry(SubSeq(log[t], 1, n - 1)[i], i)
    BY <1>5, <2>1, <2>2
  <2> HIDE DEF n, t, old
  <2> QED
    BY <1>3, <1>6, <2>3 DEF replays, replayed, n, t, old
<1>8. knows(f, t, n - 1) /\ live(f)
  <2>1. knows(f, t, n - 1)
    BY <1>1, <1>3, <1>6, ReplayKnows
  <2> QED
    BY <1>7, <2>1 DEF knows, live
<1>9. e.event_type = "task.transitioned" =>
               /\ e.payload.from_state = f.projection.current_state
               /\ canTransition(e.payload.from_state, e.payload.to_state)
  <2>1. e.event_type = "task.transitioned" =>
               /\ e.payload.from_state = old.current_state
               /\ e.payload.to_state = r.current_state
               /\ <<old.current_state, r.current_state>> \in projectionEdges
    BY <1>2 DEF followsEvent
  <2> HIDE DEF old, e
  <2> QED
    BY <1>7, <2>1, EdgesAgree
<1>10. loopAccepts(f, e)
  <2>1. /\ t \in Tasks /\ n \in 2..Len(log[t]) /\ e = log[t][n]
        /\ ~RefusedByRegistry(e, n)
    BY <1>1, <1>3, <1>5
  <2> HIDE DEF t, n, e, old
  <2> QED
    BY <1>8, <1>9, <2>1, LoopAcceptsStored
<1>11. PICK g : g = foldEvent(f, e)
  OBVIOUS
<1>12. /\ knows(g, t, n) /\ live(g)
       /\ g.projection.current_state = nextState(f.projection, e)
  <2>1. n \in Nat /\ n > 1 /\ e = log[t][n]
    BY <1>3
  <2> HIDE DEF t, n, e, old
  <2> QED
    BY <1>4, <1>8, <1>10, <1>11, <2>1, LaterAccepted
<1>13. nextState(f.projection, e) = r.current_state
  BY <1>2, <1>7 DEF nextState, followsEvent
<1>14. g.projection = rowAt(t, n, r.current_state)
  BY <1>12, <1>13 DEF knows
<1>15. rowAt(t, n, r.current_state) = r
  BY <1>2 DEF rowAt, RowSubmissions
<1>16. replayed(t, n) = g
  BY <1>1, <1>3, <1>6, <1>11, ReplayStep
<1> QED
  BY <1>12, <1>14, <1>15, <1>16 DEF live

LEMMA RowIsReplayStep ==
    TypeOK /\ StoredInOrder /\ RowIsReplay /\ [Next]_vars => RowIsReplay'
<1> SUFFICES ASSUME TypeOK, StoredInOrder, RowIsReplay, [Next]_vars,
                    NEW t \in Tasks, row'[t] # NULL
             PROVE  replays(row'[t], log'[t])
  BY DEF RowIsReplay, replays, covered
<1>1. row[t] # NULL => replays(row[t], log[t])
  BY RowsReplay
<1>2. CASE UNCHANGED vars
  BY <1>1, <1>2 DEF vars
<1>3. ASSUME NEW e \in Submissions, InsertEvent(e)
      PROVE  replays(row'[t], log'[t])
  <2>1. /\ row' = row /\ e \in EventEnvelope
        /\ log'[t] = IF t = e.task_id THEN Append(log[t], e) ELSE log[t]
    BY <1>3, SubmissionsAssumption DEF InsertEvent, TypeOK, EventEnvelope
  <2>2. /\ log[t] \in Seq(EventEnvelope) /\ row[t] \in Projection
        /\ row[t].last_sequence \in 0..Len(log[t])
    BY <2>1, LenProperties DEF TypeOK, Projection
  <2>3. SubSeq(log'[t], 1, row[t].last_sequence) = SubSeq(log[t], 1, row[t].last_sequence)
    <3>1. PICK s, n : s = log[t] /\ n = row[t].last_sequence
      OBVIOUS
    <3>2. SubSeq(Append(s, e), 1, n) = SubSeq(s, 1, n)
      BY <2>1, <2>2, <3>1
    <3> QED
      BY <2>1, <3>1, <3>2
  <2> QED
    BY <1>1, <2>1, <2>3 DEF replays
<1>4. ASSUME NEW r \in RowSubmissions, InsertProjection(r) \/ UpdateProjection(r)
      PROVE  replays(row'[t], log'[t])
  <2>1. /\ r.task_id \in Tasks /\ log' = log
        /\ row'[t] = IF t = r.task_id THEN r ELSE row[t]
    BY <1>4 DEF InsertProjection, UpdateProjection, RowSubmissions, TypeOK
  <2>2. CASE t # r.task_id
    BY <1>1, <2>1, <2>2
  <2>3. CASE t = r.task_id /\ InsertProjection(r)
    BY <2>1, <2>3, InsertProjectionReplays
  <2>4. CASE t = r.task_id /\ UpdateProjection(r)
    <3>1. row[t] # NULL
      BY <2>4 DEF UpdateProjection
    <3> QED
      BY <1>1, <2>1, <2>4, <3>1, UpdateProjectionReplays
  <2> QED
    BY <1>4, <2>2, <2>3, <2>4
<1> QED
  BY <1>2, <1>3, <1>4 DEF Next

LEMMA StoredAlways == Spec => [](TypeOK /\ StoredInOrder)
<1>1. Init => TypeOK /\ StoredInOrder
  BY DEF Init, TypeOK, StoredInOrder
<1> QED
  BY <1>1, TypeOKInductive, StoredInOrderStep, PTL DEF Spec

(***************************************************************************)
(* Every row is the replay of the events it covers, in every reachable     *)
(* state of every catalog: the SQL guards and project() compute one fold.  *)
(***************************************************************************)
THEOREM CatalogReplays == Spec => []RowIsReplay
<1>1. Init => RowIsReplay
  BY DEF Init, RowIsReplay
<1> QED
  BY <1>1, StoredAlways, RowIsReplayStep, PTL DEF Spec

(***************************************************************************)
(* The replay of a stored log stops only at an event of bad content.       *)
(***************************************************************************)
THEOREM ReplayStopsOnlyAtContent == Spec => []ReplayStopsAtContent
  BY StoredAlways, StopsAtContent, PTL

-----------------------------------------------------------------------------
(***************************************************************************)
(* project() over a list nobody vouches for.  The invariant adds what the  *)
(* loop remembers of the list to what the property says of its projection. *)
(***************************************************************************)
projectionOf(events) ==
    [task_id           |-> events[1].task_id,
     current_state     |-> StateBefore(events, Len(events) + 1),
     last_sequence     |-> Len(events),
     last_event_id     |-> events[Len(events)].event_id,
     last_event_digest |-> events[Len(events)].event_digest]

remembers(f, events) ==
    /\ f.projection = projectionOf(events)
    /\ f.seenEventIds = {events[i].event_id : i \in 1..Len(events)}
    /\ f.seenEventDigests = {events[i].event_digest : i \in 1..Len(events)}

ReadsHistories ==
    /\ input \in Seq(Events)
    /\ input = <<>> => fold = emptyFold
    /\ DOMAIN fold = DOMAIN emptyFold
    /\ live(fold) \/ fold.failed = TRUE
    /\ live(fold) <=> Coherent(input)
    /\ input # <<>> /\ live(fold) => remembers(fold, input)

(***************************************************************************)
(* The state before an element depends on the element before it only.      *)
(***************************************************************************)
LEMMA StateBeforeFirst == \A events : StateBefore(events, 1) = "created"
                                     /\ TransitionsBefore(events, 1) = {}
  BY DEF StateBefore, TransitionsBefore

LEMMA StateBeforeNext ==
    ASSUME NEW events, NEW n \in Nat, n > 0
    PROVE  StateBefore(events, n + 1)
             = IF events[n].event_type = "task.transitioned"
               THEN events[n].payload.to_state ELSE StateBefore(events, n)
<1> DEFINE S == TransitionsBefore(events, n)
           T == TransitionsBefore(events, n + 1)
<1>1. S \subseteq 1..(n - 1) /\ T \subseteq 1..n /\ 1..((n + 1) - 1) = 1..n
  BY DEF TransitionsBefore
<1>2. CASE events[n].event_type = "task.transitioned"
  <2>1. n \in T /\ \A y \in T : n >= y
    BY <1>1, <1>2 DEF TransitionsBefore
  <2>2. \A x \in T : (\A y \in T : x >= y) => x = n
    BY <1>1, <2>1
  <2>3. Max(T) = n
    BY <2>1, <2>2 DEF Max
  <2> QED
    BY <1>2, <2>1, <2>3 DEF StateBefore
<1>3. CASE events[n].event_type # "task.transitioned"
  <2>1. T = S
    <3>1. 1..((n + 1) - 1) = 1..(n - 1) \cup {n}
      OBVIOUS
    <3> QED
      BY <1>3, <3>1 DEF TransitionsBefore
  <2> QED
    BY <1>3, <2>1 DEF StateBefore
<1> QED
  BY <1>2, <1>3

LEMMA PrefixSameState ==
    ASSUME NEW S, NEW s \in Seq(S), NEW e \in S, NEW i \in 1..(Len(s) + 1)
    PROVE  StateBefore(Append(s, e), i) = StateBefore(s, i)
<1>1. PICK more : more = Append(s, e)
  OBVIOUS
<1>2. \A j \in 1..(i - 1) : more[j] = s[j]
  BY <1>1, AppendProperties, LenProperties
<1>3. i \in Nat
  BY LenProperties
<1>4. TransitionsBefore(more, i) = TransitionsBefore(s, i)
  BY <1>2 DEF TransitionsBefore
<1>5. StateBefore(more, i) = StateBefore(s, i)
  <2>1. CASE TransitionsBefore(s, i) = {}
    BY <1>4, <2>1 DEF StateBefore
  <2>2. CASE TransitionsBefore(s, i) # {}
    <3>1. TransitionsBefore(s, i) \in SUBSET (1..(i - 1))
      BY DEF TransitionsBefore
    <3>2. PICK x \in TransitionsBefore(s, i) : \A y \in TransitionsBefore(s, i) : x >= y
      <4> DEFINE Up == {i - x : x \in TransitionsBefore(s, i)}
      <4>1. Up \in SUBSET Nat /\ Up # {}
        BY <1>3, <2>2, <3>1
      <4>2. PICK m \in Up : \A k \in Up : m <= k
        <5> HIDE DEF Up
        <5> QED
          BY <4>1, LeastExists
      <4>3. PICK x \in TransitionsBefore(s, i) : m = i - x
        BY <4>2
      <4>4. \A y \in TransitionsBefore(s, i) : i - y \in Up
        OBVIOUS
      <4>5. \A y \in TransitionsBefore(s, i) : i - x <= i - y
        BY <4>2, <4>3, <4>4
      <4> QED
        BY <1>3, <3>1, <4>3, <4>5
    <3>3. Max(TransitionsBefore(s, i)) \in TransitionsBefore(s, i)
      BY <3>2 DEF Max
    <3>4. more[Max(TransitionsBefore(s, i))] = s[Max(TransitionsBefore(s, i))]
      BY <1>2, <3>1, <3>3
    <3> QED
      BY <1>4, <2>2, <3>4 DEF StateBefore
  <2> QED
    BY <2>1, <2>2
<1> QED
  BY <1>1, <1>5

LEMMA PrefixCoherent ==
    ASSUME NEW S, NEW s \in Seq(S), NEW e \in S, NEW i \in 1..Len(s)
    PROVE  CoherentAt(Append(s, e), i) <=> CoherentAt(s, i)
<1>1. PICK more : more = Append(s, e)
  OBVIOUS
<1>2. \A j \in 1..i : more[j] = s[j]
  BY <1>1, AppendProperties, LenProperties
<1>3. /\ i \in Nat /\ i \in 1..i /\ 1 \in 1..i /\ (i > 1 => i - 1 \in 1..i)
      /\ i \in 1..(Len(s) + 1) /\ \A j \in 1..(i - 1) : j \in 1..i
  BY LenProperties
<1>4. StateBefore(more, i) = StateBefore(s, i)
  BY <1>1, <1>3, PrefixSameState
<1>5. more[i] = s[i] /\ more[1] = s[1] /\ (i > 1 => more[i - 1] = s[i - 1])
      /\ \A j \in 1..(i - 1) : more[j] = s[j]
  BY <1>2, <1>3
<1>6. CoherentAt(more, i) <=> CoherentAt(s, i)
  BY <1>3, <1>4, <1>5 DEF CoherentAt
<1> QED
  BY <1>1, <1>6

LEMMA AppendCoherent ==
    ASSUME NEW S, NEW s \in Seq(S), NEW e \in S
    PROVE  Coherent(Append(s, e))
             <=> Coherent(s) /\ CoherentAt(Append(s, e), Len(s) + 1)
<1>1. /\ DOMAIN s = 1..Len(s) /\ DOMAIN Append(s, e) = 1..(Len(s) + 1)
      /\ Len(s) \in Nat /\ 1..(Len(s) + 1) = 1..Len(s) \cup {Len(s) + 1}
  BY LenProperties, AppendProperties
<1>2. \A i \in 1..Len(s) : CoherentAt(Append(s, e), i) <=> CoherentAt(s, i)
  BY PrefixCoherent
<1> QED
  BY <1>1, <1>2 DEF Coherent

(***************************************************************************)
(* The first event: createProjection accepts what a history may begin with.*)
(***************************************************************************)
LEMMA FirstCoherent ==
    ASSUME NEW e \in EventEnvelope, NEW f, f = startFold(e)
    PROVE  /\ DOMAIN f = DOMAIN emptyFold /\ (live(f) \/ f.failed = TRUE)
           /\ live(f) <=> Coherent(<<e>>)
           /\ live(f) => remembers(f, <<e>>)
<1>1. /\ Len(<<e>>) = 1 /\ <<e>>[1] = e /\ DOMAIN <<e>> = {1} /\ 1..1 = {1}
      /\ 1..(1 - 1) = {}
  OBVIOUS
<1>2. Coherent(<<e>>) <=> createAccepts(e)
  <2>1. Coherent(<<e>>) <=> CoherentAt(<<e>>, 1)
    BY <1>1 DEF Coherent
  <2>2. createAccepts(e) => e.event_type # "task.transitioned"
    BY DEF createAccepts
  <2> QED
    BY <1>1, <2>1, <2>2 DEF CoherentAt, createAccepts, readsTaskCreatedPayload,
       Registry, taskEvents
<1>3. CASE createAccepts(e)
  <2>1. StateBefore(<<e>>, 1 + 1) = "created"
    <3>1. e.event_type # "task.transitioned"
      BY <1>3 DEF createAccepts
    <3> QED
      BY <1>1, <3>1, StateBeforeFirst, StateBeforeNext
  <2>2. projectionOf(<<e>>) = createProjection(e)
    BY <1>1, <1>3, <2>1 DEF projectionOf, createProjection, createAccepts
  <2>3. /\ f.failed = FALSE /\ DOMAIN f = DOMAIN emptyFold
        /\ f.projection = createProjection(e)
        /\ f.seenEventIds = {e.event_id} /\ f.seenEventDigests = {e.event_digest}
    BY <1>3 DEF startFold, emptyFold
  <2>4. remembers(f, <<e>>)
    BY <1>1, <2>2, <2>3 DEF remembers
  <2> QED
    BY <1>2, <1>3, <2>3, <2>4 DEF live
<1>4. CASE ~createAccepts(e)
  <2>1. f.failed = TRUE /\ DOMAIN f = DOMAIN emptyFold
    BY <1>4 DEF startFold, emptyFold
  <2> QED
    BY <1>2, <1>4, <2>1 DEF live
<1> QED
  BY <1>3, <1>4

(***************************************************************************)
(* A later event: the loop and applyEvent accept exactly what continues    *)
(* the history read so far.                                                *)
(***************************************************************************)
LEMMA LoopAcceptsCoherent ==
    ASSUME NEW s \in Seq(EventEnvelope), Len(s) > 0, NEW e \in EventEnvelope,
           NEW f, remembers(f, s)
    PROVE  loopAccepts(f, e) <=> CoherentAt(Append(s, e), Len(s) + 1)
<1>1. PICK more, n : more = Append(s, e) /\ n = Len(s)
  OBVIOUS
<1>2. /\ n \in Nat /\ n > 0 /\ n + 1 > 1 /\ n + 1 # 1 /\ (n + 1) - 1 = n
      /\ more[n + 1] = e /\ more[1] = s[1] /\ more[n] = s[n]
      /\ \A j \in 1..n : more[j] = s[j]
  BY <1>1, AppendProperties, LenProperties
<1>3. PICK now : now = StateBefore(more, n + 1)
  OBVIOUS
<1>4. StateBefore(s, n + 1) = now
  <2>1. n + 1 \in 1..(Len(s) + 1)
    BY <1>1, <1>2
  <2> QED
    BY <1>1, <1>3, <2>1, PrefixSameState
<1>5. /\ f.projection.task_id = s[1].task_id
      /\ f.projection.current_state = now
      /\ f.projection.last_sequence = n
      /\ f.projection.last_event_digest = s[n].event_digest
      /\ f.seenEventIds = {s[i].event_id : i \in 1..n}
      /\ f.seenEventDigests = {s[i].event_digest : i \in 1..n}
  BY <1>1, <1>4 DEF remembers, projectionOf
<1>6. CoherentAt(more, n + 1) <=>
        /\ e.task_id = s[1].task_id
        /\ e.sequence = n + 1
        /\ e.event_type \in Registry
        /\ e.event_type # "task.created"
        /\ e.payload_contract = e.event_type
        /\ e.previous_event_digest = s[n].event_digest
        /\ \A j \in 1..n : /\ s[j].event_id # e.event_id
                            /\ s[j].event_digest # e.event_digest
        /\ \/ e.causation_event_id = NULL
           \/ \E j \in 1..n : s[j].event_id = e.causation_event_id
        /\ e.event_type = "task.transitioned" =>
             /\ e.payload.contract = "task.transitioned"
             /\ e.payload.from_state = now
             /\ canTransition(e.payload.from_state, e.payload.to_state)
  BY <1>2, <1>3 DEF CoherentAt
<1>7. loopAccepts(f, e) <=>
        /\ \A j \in 1..n : /\ s[j].event_id # e.event_id
                            /\ s[j].event_digest # e.event_digest
        /\ \/ e.causation_event_id = NULL
           \/ \E j \in 1..n : s[j].event_id = e.causation_event_id
        /\ e.task_id = s[1].task_id
        /\ e.event_type \in Registry
        /\ e.event_type # "task.created"
        /\ e.payload_contract = e.event_type
        /\ e.sequence = n + 1
        /\ e.previous_event_digest = s[n].event_digest
        /\ e.causation_event_id # e.event_id
        /\ e.event_type = "task.transitioned" =>
             /\ readsTaskTransitionedPayload(e.payload)
             /\ e.payload.from_state = now
             /\ canTransition(e.payload.from_state, e.payload.to_state)
  BY <1>5 DEF loopAccepts, applyAccepts
<1>8. \A from, to : canTransition(from, to) => from # NULL /\ to # NULL
  BY NullAssumption DEF canTransition, validTransitions, isFinalState,
     FINAL_STATES, TaskStates
<1>9. e.event_id # NULL
  BY NullAssumption DEF EventEnvelope
<1>10. canTransition(e.payload.from_state, e.payload.to_state) =>
          (readsTaskTransitionedPayload(e.payload)
             <=> e.payload.contract = "task.transitioned")
  BY <1>8 DEF readsTaskTransitionedPayload
<1>11. loopAccepts(f, e) <=> CoherentAt(more, n + 1)
  BY <1>6, <1>7, <1>9, <1>10
<1> QED
  BY <1>1, <1>11

LEMMA NextRemembers ==
    ASSUME NEW s \in Seq(EventEnvelope), Len(s) > 0, NEW e \in EventEnvelope,
           NEW f, remembers(f, s), loopAccepts(f, e),
           CoherentAt(Append(s, e), Len(s) + 1),
           NEW g, g = stepFold(f, e)
    PROVE  /\ remembers(g, Append(s, e)) /\ live(g)
           /\ DOMAIN g = DOMAIN emptyFold
<1>1. PICK more, n : more = Append(s, e) /\ n = Len(s)
  OBVIOUS
<1>2. /\ n \in Nat /\ n > 0 /\ Len(more) = n + 1
      /\ more[n + 1] = e /\ more[1] = s[1]
      /\ \A j \in 1..n : more[j] = s[j]
      /\ 1..(n + 1) = 1..n \cup {n + 1}
  BY <1>1, AppendProperties, LenProperties
<1>3. PICK p : p = f.projection
  OBVIOUS
<1>4. p = [task_id |-> s[1].task_id, current_state |-> StateBefore(s, n + 1),
           last_sequence |-> n, last_event_id |-> s[n].event_id,
           last_event_digest |-> s[n].event_digest]
  BY <1>1, <1>3 DEF remembers, projectionOf
<1>5. e.sequence = n + 1
  BY <1>3, <1>4 DEF loopAccepts, applyAccepts
<1>6. StateBefore(more, (n + 1) + 1) = nextState(p, e)
  <2>1. StateBefore(more, (n + 1) + 1)
          = IF e.event_type = "task.transitioned" THEN e.payload.to_state
            ELSE StateBefore(more, n + 1)
    <3>1. PICK m \in Nat : m = n + 1 /\ m > 0 /\ more[m] = e
      BY <1>2
    <3>2. StateBefore(more, m + 1)
            = IF more[m].event_type = "task.transitioned"
              THEN more[m].payload.to_state ELSE StateBefore(more, m)
      BY <3>1, StateBeforeNext
    <3> QED
      BY <3>1, <3>2
  <2>2. StateBefore(more, n + 1) = StateBefore(s, n + 1)
    <3>1. n + 1 \in 1..(Len(s) + 1)
      BY <1>1, <1>2
    <3> QED
      BY <1>1, <3>1, PrefixSameState
  <2>3. p.current_state = StateBefore(s, n + 1)
    BY <1>4
  <2> QED
    BY <2>1, <2>2, <2>3 DEF nextState
<1>7. applyEvent(p, e) = projectionOf(more)
  <2>1. PICK to : to = nextState(p, e)
    OBVIOUS
  <2>2. applyEvent(p, e) = [p EXCEPT !.current_state = to,
                                     !.last_sequence = n + 1,
                                     !.last_event_id = e.event_id,
                                     !.last_event_digest = e.event_digest]
    BY <1>5, <2>1 DEF applyEvent
  <2>3. PICK before : before = StateBefore(s, n + 1)
    OBVIOUS
  <2>4. applyEvent(p, e) = [task_id |-> s[1].task_id, current_state |-> to,
                            last_sequence |-> n + 1, last_event_id |-> e.event_id,
                            last_event_digest |-> e.event_digest]
    BY <1>4, <2>2, <2>3
  <2> QED
    BY <1>2, <1>6, <2>1, <2>4 DEF projectionOf
<1>8. /\ g.failed = FALSE /\ g.projection = applyEvent(p, e)
      /\ g.seenEventIds = f.seenEventIds \cup {e.event_id}
      /\ g.seenEventDigests = f.seenEventDigests \cup {e.event_digest}
      /\ DOMAIN g = DOMAIN emptyFold
  BY <1>3 DEF stepFold, emptyFold
<1>9. /\ {more[i].event_id : i \in 1..(n + 1)}
            = {s[i].event_id : i \in 1..n} \cup {e.event_id}
      /\ {more[i].event_digest : i \in 1..(n + 1)}
            = {s[i].event_digest : i \in 1..n} \cup {e.event_digest}
  BY <1>2
<1>10. remembers(g, more)
  BY <1>1, <1>2, <1>7, <1>8, <1>9 DEF remembers
<1> QED
  BY <1>1, <1>8, <1>10 DEF live

LEMMA StepReads ==
    ASSUME ReadsHistories, [ProjectionNext]_projectionVars
    PROVE  ReadsHistories'
<1>1. Events \subseteq EventEnvelope
  BY EventsAssumption
<1>2. input \in Seq(Events)
  BY DEF ReadsHistories
<1>3. ASSUME NEW e \in Events, CreateFirst(e) PROVE ReadsHistories'
  <2>1. e \in EventEnvelope /\ input' = <<e>> /\ fold' = startFold(e)
    BY <1>1, <1>3 DEF CreateFirst
  <2>2. /\ DOMAIN fold' = DOMAIN emptyFold /\ (live(fold') \/ fold'.failed = TRUE)
        /\ live(fold') <=> Coherent(input')
        /\ live(fold') => remembers(fold', input')
    BY <2>1, FirstCoherent
  <2>3. input' \in Seq(Events) /\ input' # <<>>
    BY <2>1
  <2> QED
    BY <2>2, <2>3 DEF ReadsHistories
<1>4. ASSUME NEW e \in Events, ApplyNext(e) PROVE ReadsHistories'
  <2>1. /\ e \in EventEnvelope /\ input # <<>> /\ ~fold.failed
        /\ input' = Append(input, e) /\ fold' = stepFold(fold, e)
    BY <1>1, <1>4 DEF ApplyNext
  <2>2. input \in Seq(EventEnvelope) /\ Len(input) > 0
    BY <1>1, <1>2, <2>1
  <2>3. live(fold) /\ remembers(fold, input) /\ Coherent(input)
        /\ DOMAIN fold = DOMAIN emptyFold
    BY <2>1 DEF ReadsHistories
  <2>4. input' \in Seq(Events) /\ input' # <<>>
    BY <1>2, <2>1
  <2>5. Coherent(input') <=> CoherentAt(Append(input, e), Len(input) + 1)
    BY <2>1, <2>2, <2>3, AppendCoherent
  <2>6. loopAccepts(fold, e) <=> CoherentAt(Append(input, e), Len(input) + 1)
    BY <2>1, <2>2, <2>3, LoopAcceptsCoherent
  <2>7. CASE loopAccepts(fold, e)
    <3>1. remembers(fold', input') /\ live(fold')
          /\ DOMAIN fold' = DOMAIN emptyFold
      BY <2>1, <2>2, <2>3, <2>6, <2>7, NextRemembers
    <3> QED
      BY <2>4, <2>5, <2>6, <2>7, <3>1 DEF ReadsHistories
  <2>8. CASE ~loopAccepts(fold, e)
    <3>1. fold' = [fold EXCEPT !.failed = TRUE]
      BY <2>1, <2>8 DEF stepFold
    <3>2. fold'.failed = TRUE /\ DOMAIN fold' = DOMAIN emptyFold
      BY <2>3, <3>1 DEF emptyFold
    <3>3. ~live(fold')
      BY <3>2 DEF live
    <3> QED
      BY <2>4, <2>5, <2>6, <2>8, <3>2, <3>3 DEF ReadsHistories
  <2> QED
    BY <2>7, <2>8
<1>5. CASE UNCHANGED projectionVars
  BY <1>5 DEF projectionVars, ReadsHistories, remembers, projectionOf, live,
     Coherent
<1> QED
  BY <1>3, <1>4, <1>5 DEF ProjectionNext

LEMMA HistoriesAreRead == ReadsHistories => AcceptsExactlyHistories
<1> SUFFICES ASSUME ReadsHistories PROVE AcceptsExactlyHistories
  OBVIOUS
<1>1. fold.failed <=> ~Coherent(input)
  BY DEF ReadsHistories, live
<1>2. ASSUME input # <<>>, ~fold.failed
      PROVE  fold.projection = projectionOf(input)
  <2>1. live(fold)
    BY <1>2 DEF ReadsHistories
  <2> QED
    BY <1>2, <2>1 DEF ReadsHistories, remembers
<1> QED
  BY <1>1, <1>2 DEF AcceptsExactlyHistories, projectionOf

(***************************************************************************)
(* For every set of events and every length: project() accepts exactly the *)
(* coherent histories and describes the last event of what it accepts.     *)
(***************************************************************************)
THEOREM ProjectAcceptsHistories == ProjectionSpec => []AcceptsExactlyHistories
<1>1. ProjectionInit => ReadsHistories
  <2> SUFFICES ASSUME ProjectionInit PROVE ReadsHistories
    OBVIOUS
  <2>1. input = <<>> /\ input \in Seq(Events) /\ DOMAIN input = {}
    BY DEF ProjectionInit
  <2>2. Coherent(input)
    BY <2>1 DEF Coherent
  <2>3. live(emptyFold)
    BY DEF live, emptyFold
  <2> QED
    BY <2>1, <2>2, <2>3 DEF ReadsHistories, ProjectionInit
<1> QED
  BY <1>1, StepReads, HistoriesAreRead, PTL DEF ProjectionSpec
=============================================================================
