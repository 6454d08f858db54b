--------------------------- MODULE JournaledTables ---------------------------
(***************************************************************************)
(* The table pairs of docs/implementation/persistence/p0_v1.sql that keep  *)
(* a current row beside an append-only journal of its snapshots.  The      *)
(* actions are the statements the constraints and triggers let through,    *)
(* in any order.                                                           *)
(*                                                                         *)
(* A trigger that says WHEN NOT (...) aborts only when its condition is    *)
(* FALSE: SQL lets a statement through when it is NULL.                    *)
(***************************************************************************)
EXTENDS Naturals, Sequences, SequencesExt

CONSTANTS
    Fingerprints,     \* fingerprints of snapshots
    Times,            \* values of the time columns
    MaxJournal,       \* bound on the journal of one row
    NULL

ASSUME TimesAssumption == Times \subseteq Nat
ASSUME JournalAssumption == MaxJournal \in Nat

\* The column is UNIQUE over the whole journal, not per row.
fingerprintsIn(journal) ==
    UNION {{journal[k][i].fingerprint : i \in DOMAIN journal[k]} :
           k \in DOMAIN journal}

-----------------------------------------------------------------------------
(***************************************************************************)
(* budget_reservations and budget_reservation_lifecycle: a row per         *)
(* reservation, and the states it went through.                            *)
(***************************************************************************)
CONSTANTS
    Reservations,
    Terminal          \* the terminal statuses a run uses; all are treated alike

ASSUME TerminalAssumption ==
    Terminal \subseteq {"consumed", "released", "expired", "reconciled"}

Status == {"active"} \cup Terminal

ASSUME StatusAssumption == NULL \notin Status

ReservationRow == [status : Status, possible_overage : BOOLEAN,
                   fingerprint : Fingerprints, changed_at : Times]

ReservationEntry == [from_status : Status \cup {NULL}, to_status : Status,
                     possible_overage : BOOLEAN, fingerprint : Fingerprints,
                     changed_at : Times]

ASSUME RowAssumption == NULL \notin ReservationRow

VARIABLES
    reservation,         \* budget_reservations, NULL where there is no row
    reservationJournal,  \* budget_reservation_lifecycle, in sequence order
    settlements          \* history: the updates made to each row

reservationVars == <<reservation, reservationJournal, settlements>>

ReservationTypeOK ==
    /\ \A r \in Reservations : reservation[r] \in ReservationRow \cup {NULL}
    /\ reservationJournal \in [Reservations -> Seq(ReservationEntry)]
    /\ \A r \in Reservations :
          reservation[r] = NULL => reservationJournal[r] = <<>>
    /\ \A r, s \in Reservations :
          \A i \in DOMAIN reservationJournal[r], j \in DOMAIN reservationJournal[s] :
              reservationJournal[r][i].fingerprint = reservationJournal[s][j].fingerprint
              => r = s /\ i = j

ReservationInit ==
    /\ reservation = [r \in Reservations |-> NULL]
    /\ reservationJournal = [r \in Reservations |-> <<>>]
    /\ settlements = [r \in Reservations |-> <<>>]

-----------------------------------------------------------------------------
rowFingerprints(others) ==
    {reservation[r].fingerprint : r \in {s \in others : reservation[s] # NULL}}

\* The table has no insert guard: a row may be born in any status.
InsertReservation(r, new) ==
    /\ reservation[r] = NULL
    /\ new.fingerprint \notin rowFingerprints(Reservations)
    /\ reservation' = [reservation EXCEPT ![r] = new]
    /\ UNCHANGED <<reservationJournal, settlements>>

opensReservation(r, e) ==
    /\ reservationJournal[r] = <<>>
    /\ e.from_status = NULL /\ e.to_status = "active"
    /\ reservation[r] = [status |-> "active", fingerprint |-> e.fingerprint,
                         possible_overage |-> e.possible_overage,
                         changed_at |-> e.changed_at]

\* from_status = status AND from_status = 'active', NULL if from_status is.
mayLeave(r, e) ==
    e.from_status = NULL \/ (e.from_status = reservation[r].status
                             /\ e.from_status = "active")

\* Mutant: a fingerprint that is in the journal may be used again.
freshEntry_Any(e) == TRUE

freshEntry(e) == e.fingerprint \notin fingerprintsIn(reservationJournal)

InsertReservationLifecycle(r, e) ==
    /\ reservation[r] # NULL
    /\ Len(reservationJournal[r]) < MaxJournal
    /\ freshEntry(e)
    /\ opensReservation(r, e) \/ (mayLeave(r, e) /\ e.to_status \in Terminal)
    /\ reservationJournal' = [reservationJournal EXCEPT ![r] = Append(@, e)]
    /\ UNCHANGED <<reservation, settlements>>

\* The entry a row's change to new must have in the journal.
settlement(r, new) ==
    [from_status |-> reservation[r].status, to_status |-> new.status,
     possible_overage |-> new.possible_overage,
     fingerprint |-> new.fingerprint, changed_at |-> new.changed_at]

\* Mutant: the journal's latest state is compared, its snapshot is not.
settlementJournaled_StatusOnly(r, new) ==
    /\ reservationJournal[r] # <<>>
    /\ Last(reservationJournal[r]).from_status = reservation[r].status
    /\ Last(reservationJournal[r]).to_status = new.status

settlementJournaled(r, new) ==
    /\ reservationJournal[r] # <<>>
    /\ Last(reservationJournal[r]) = settlement(r, new)

mayMove(r, new) == reservation[r].status = "active" /\ new.status \in Terminal

UpdateReservation(r, new) ==
    /\ reservation[r] # NULL
    /\ mayMove(r, new)
    /\ new.fingerprint # reservation[r].fingerprint
    /\ new.changed_at >= reservation[r].changed_at
    /\ reservation[r].possible_overage => new.possible_overage
    /\ settlementJournaled(r, new)
    /\ new.fingerprint \notin rowFingerprints(Reservations \ {r})
    /\ reservation' = [reservation EXCEPT ![r] = new]
    /\ settlements' = [settlements EXCEPT ![r] = Append(@, settlement(r, new))]
    /\ UNCHANGED reservationJournal

ReservationNext ==
    \E r \in Reservations :
        \/ \E new \in ReservationRow :
              InsertReservation(r, new) \/ UpdateReservation(r, new)
        \/ \E e \in ReservationEntry : InsertReservationLifecycle(r, e)

ReservationSpec == ReservationInit /\ [][ReservationNext]_reservationVars

-----------------------------------------------------------------------------
(***************************************************************************)
(* A reservation is settled once, for good, and the journal has the very   *)
(* snapshot that the row then shows.                                       *)
(***************************************************************************)
SettledOnce ==
    \A r \in Reservations :
        /\ Len(settlements[r]) <= 1
        /\ settlements[r] # <<>> =>
              /\ reservation[r].status = settlements[r][1].to_status
              /\ Contains(reservationJournal[r], settlements[r][1])

(***************************************************************************)
(* The two tables agree on what a fingerprint stands for: once a row was   *)
(* settled, a journal entry with its fingerprint shows the row's state.    *)
(***************************************************************************)
SnapshotsAgree ==
    \A r \in Reservations : \A i \in DOMAIN reservationJournal[r] :
        LET e == reservationJournal[r][i] IN
        (settlements[r] # <<>> /\ e.fingerprint = reservation[r].fingerprint)
        => /\ e.to_status = reservation[r].status
           /\ e.possible_overage = reservation[r].possible_overage
           /\ e.changed_at = reservation[r].changed_at

-----------------------------------------------------------------------------
(***************************************************************************)
(* The tables artifacts and artifact_lifecycle of                          *)
(* docs/implementation/persistence/p0_v1.sql: like the reservations, a     *)
(* current row and an append-only journal, with a longer life.  The        *)
(* actions are the statements the constraints and triggers let through.    *)
(***************************************************************************)
CONSTANT Artifacts

Lifecycle == {"staged", "committed", "quarantined", "tombstoned"}

ASSUME LifecycleAssumption == NULL \notin Lifecycle

ArtifactRow == [lifecycle : Lifecycle, fingerprint : Fingerprints,
                changed_at : Times, quarantined_for : BOOLEAN]

ASSUME ArtifactAssumption == NULL \notin ArtifactRow

ArtifactEntry == [from_state : Lifecycle \cup {NULL}, to_state : Lifecycle,
                  fingerprint : Fingerprints, occurred_at : Times]

VARIABLES
    artifact,          \* artifacts, NULL where there is no row
    artifactJournal,   \* artifact_lifecycle, in sequence order
    artifactMoves      \* history: the updates made to each row

artifactVars == <<artifact, artifactJournal, artifactMoves>>

ArtifactTypeOK ==
    /\ artifactJournal \in [Artifacts -> Seq(ArtifactEntry)]
    /\ \A a \in Artifacts :
          /\ artifact[a] \in ArtifactRow \cup {NULL}
          /\ artifact[a] = NULL => artifactJournal[a] = <<>>
          /\ artifact[a] # NULL =>
                (artifact[a].lifecycle = "quarantined") = artifact[a].quarantined_for

ArtifactInit ==
    /\ artifact = [a \in Artifacts |-> NULL]
    /\ artifactJournal = [a \in Artifacts |-> <<>>]
    /\ artifactMoves = [a \in Artifacts |-> <<>>]

-----------------------------------------------------------------------------
\* The table's CHECK: a reason with a quarantine and with nothing else.
reasoned(r) == (r.lifecycle = "quarantined") = r.quarantined_for

\* The table has no insert guard: a row may be born at any stage.
InsertArtifact(a, new) ==
    /\ artifact[a] = NULL
    /\ reasoned(new)
    /\ artifact' = [artifact EXCEPT ![a] = new]
    /\ UNCHANGED <<artifactJournal, artifactMoves>>

opensArtifact(a, e) ==
    /\ artifactJournal[a] = <<>>
    /\ e.from_state = NULL /\ e.to_state = "staged"
    /\ artifact[a].lifecycle = "staged"
    /\ artifact[a].fingerprint = e.fingerprint
    /\ artifact[a].changed_at = e.occurred_at

\* The stages an artifact may go to next.
edges == [staged |-> {"committed", "quarantined"},
          committed |-> {"quarantined", "tombstoned"},
          quarantined |-> {"tombstoned"},
          tombstoned |-> {}]

\* from_state = lifecycle and an edge: NULL, not FALSE, when from_state is
\* NULL and some stage leads to to_state.
mayFollow(a, e) ==
    IF e.from_state = NULL
    THEN \E from \in Lifecycle : e.to_state \in edges[from]
    ELSE e.from_state = artifact[a].lifecycle /\ e.to_state \in edges[e.from_state]

InsertArtifactLifecycle(a, e) ==
    /\ artifact[a] # NULL
    /\ Len(artifactJournal[a]) < MaxJournal
    /\ e.fingerprint \notin fingerprintsIn(artifactJournal)
    /\ opensArtifact(a, e) \/ mayFollow(a, e)
    /\ artifactJournal' = [artifactJournal EXCEPT ![a] = Append(@, e)]
    /\ UNCHANGED <<artifact, artifactMoves>>

\* The entry a row's change to new must have in the journal.
move(a, new) ==
    [from_state |-> artifact[a].lifecycle, to_state |-> new.lifecycle,
     fingerprint |-> new.fingerprint, occurred_at |-> new.changed_at]

moveJournaled(a, new) ==
    /\ artifactJournal[a] # <<>>
    /\ Last(artifactJournal[a]) = move(a, new)

UpdateArtifact(a, new) ==
    /\ artifact[a] # NULL
    /\ reasoned(new)
    /\ new.fingerprint # artifact[a].fingerprint
    /\ new.changed_at >= artifact[a].changed_at
    /\ new.lifecycle \in edges[artifact[a].lifecycle]
    /\ moveJournaled(a, new)
    /\ artifact' = [artifact EXCEPT ![a] = new]
    /\ artifactMoves' = [artifactMoves EXCEPT ![a] = Append(@, move(a, new))]
    /\ UNCHANGED artifactJournal

ArtifactNext ==
    \E a \in Artifacts :
        \/ \E new \in ArtifactRow : InsertArtifact(a, new) \/ UpdateArtifact(a, new)
        \/ \E e \in ArtifactEntry : InsertArtifactLifecycle(a, e)

-----------------------------------------------------------------------------
(***************************************************************************)
(* The moves a row made are in its journal, whole and in their order,      *)
(* whatever else was journaled and never applied.                          *)
(***************************************************************************)
MovesAreJournaled ==
    \A a \in Artifacts :
        \E at \in [DOMAIN artifactMoves[a] -> DOMAIN artifactJournal[a]] :
            /\ \A i \in DOMAIN artifactMoves[a] :
                  artifactJournal[a][at[i]] = artifactMoves[a][i]
            /\ \A i, k \in DOMAIN artifactMoves[a] : i < k => at[i] < at[k]

(***************************************************************************)
(* The row is where its moves took it: they are one path, each from where  *)
(* the last one ended, with no stage visited twice and time not going back.*)
(***************************************************************************)
MovesArePath ==
    \A a \in Artifacts : LET m == artifactMoves[a] IN
        /\ m # <<>> => Last(m).to_state = artifact[a].lifecycle
        /\ \A i \in 1..(Len(m) - 1) :
              /\ m[i].to_state = m[i + 1].from_state
              /\ m[i].occurred_at <= m[i + 1].occurred_at
        /\ \A i, k \in DOMAIN m : i # k => m[i].to_state # m[k].to_state
=============================================================================
