------------------------- MODULE MCResourceCatalog --------------------------
(***************************************************************************)
(* A bounded instance of the reservation, artifact, effect, ledger and     *)
(* task tables of one P0 database, and of the budget arithmetic.  No       *)
(* trigger, key or column that is modelled relates two of these groups:    *)
(* steps on different groups commute and every property speaks of one      *)
(* group, so each is explored while the others are empty.                  *)
(***************************************************************************)
EXTENDS JournaledTables, EffectCatalog, Budget,
        RunCatalog, TLC

CONSTANTS s1, s2, e1, e2, e3, e4, u1, u2, w1, w2, x1, x2, o1, o2

\* Two tasks with a budget set each; the last event is of the second task.
MCtaskOfSet == s1 :> "t1" @@ s2 :> "t2"
MCtaskOfEvent == e1 :> "t1" @@ e2 :> "t1" @@ e3 :> "t1" @@ e4 :> "t2"
MCsetOfReservation == w1 :> s1 @@ w2 :> s2
MCtaskOfUsage == u1 :> "t1" @@ u2 :> "t2"
MCsetOfRunReservation == w1 :> o1 @@ w2 :> o2
MCtaskOfArtifact == x1 :> "t1" @@ x2 :> "t2"

MCAmounts == -1..4 \cup NotIntegers

mcVars == <<reservationVars, artifactVars, effectVars, ledgerVars, budgetVars, runVars>>

AllInit ==
    /\ ReservationInit /\ ArtifactInit /\ EffectInit /\ LedgerInit /\ BudgetInit
    /\ RunInit

\* All other groups are empty, and stay so.
Only(group) ==
    /\ group # "reservations" => ReservationInit /\ UNCHANGED reservationVars
    /\ group # "artifacts" => ArtifactInit /\ UNCHANGED artifactVars
    /\ group # "effects" => EffectInit /\ UNCHANGED effectVars
    /\ group # "ledgers" => LedgerInit /\ UNCHANGED ledgerVars
    /\ group # "budget" => BudgetInit /\ UNCHANGED budgetVars
    /\ group # "admission" => AdmissionInit /\ UNCHANGED admitted
    /\ group # "context" => ContextInit /\ UNCHANGED sent
    /\ group # "plans" => PlanInit /\ UNCHANGED planned
    /\ group # "recovery" => RecoveryInit /\ UNCHANGED recovered

OneAtATime ==
    \/ Only("reservations") /\ ReservationNext
    \/ Only("artifacts") /\ ArtifactNext
    \/ Only("effects") /\ EffectNext
    \/ Only("ledgers") /\ LedgerNext
    \/ Only("budget") /\ BudgetNext
    \/ Only("admission") /\ AdmissionNext
    \/ Only("context") /\ ContextNext
    \/ Only("plans") /\ PlanNext
    \/ Only("recovery") /\ RecoveryNext

MCSpec == AllInit /\ [][OneAtATime]_mcVars

\* Fingerprints are compared for equality only.
Symmetry == Permutations(Fingerprints)

(***************************************************************************)
(* The rows of every group of tables, and the last budget answer, have     *)
(* their types.                                                            *)
(***************************************************************************)
AllTypesOK ==
    /\ ReservationTypeOK
    /\ ArtifactTypeOK
    /\ EffectTypeOK
    /\ LedgerTypeOK
    /\ BudgetTypeOK
    /\ RunTypeOK

(***************************************************************************)
(* Row and journal tell one story: a reservation is settled once, with the *)
(* very snapshot its journal has, and the moves of an artifact are one     *)
(* path forward, each of them journaled.                                   *)
(***************************************************************************)
JournalsAgree ==
    SettledOnce /\ SnapshotsAgree /\ MovesAreJournaled /\ MovesArePath

(***************************************************************************)
(* What is spent is counted once and exactly: ledgers have no gap and no   *)
(* event twice, and the gate opens just when something is left.            *)
(***************************************************************************)
BudgetsCounted == LedgersContiguous /\ GateExact

(***************************************************************************)
(* "BudgetReservationLifecycle sequence 1 is null -> active, sequence 2    *)
(* closes it" and "ArtifactLifecycle sequence 1 is null -> staged; after   *)
(* that only declared edges are accepted" (invariantes_semanticos_v1.md).  *)
(***************************************************************************)
JournalsFollowEdges ==
    /\ \A r \in Reservations : \A i \in DOMAIN reservationJournal[r] :
          LET e == reservationJournal[r][i] IN
          IF i = 1 THEN e.from_status = NULL /\ e.to_status = "active"
          ELSE i = 2 /\ e.from_status = "active"
    /\ \A a \in Artifacts : \A i \in DOMAIN artifactJournal[a] :
          LET e == artifactJournal[a][i] IN
          IF i = 1 THEN e.from_state = NULL /\ e.to_state = "staged"
          ELSE e.from_state # NULL /\ e.to_state \in edges[e.from_state]
=============================================================================
