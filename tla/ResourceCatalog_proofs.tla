----------------------- MODULE ResourceCatalog_proofs -----------------------
(***************************************************************************)
(* Proofs about the P0 tables that hold reservations, artifacts, effects,  *)
(* the ledger of charges and what a run is admitted and sent, and about    *)
(* the budget arithmetic, for any number of rows.  The table pairs with a  *)
(* journal come first, then the tables tied by keys, then what is counted, *)
(* and last the whole database of MCResourceCatalog.                       *)
(***************************************************************************)
EXTENDS MCResourceCatalog, SequenceTheorems, FiniteSetTheorems, TLAPS

\* A settled row is what its only settlement says, is not active any more,
\* and the journal has that settlement.
Settled(r) ==
    LET s == settlements[r][1] IN
    /\ Len(settlements[r]) = 1
    /\ reservation[r] = [status |-> s.to_status, fingerprint |-> s.fingerprint,
                         possible_overage |-> s.possible_overage,
                         changed_at |-> s.changed_at]
    /\ s.to_status # "active"
    /\ \E i \in DOMAIN reservationJournal[r] : reservationJournal[r][i] = s

\* The inductive invariant.
ReservationInv ==
    /\ ReservationTypeOK
    /\ reservation \in [Reservations -> ReservationRow \cup {NULL}]
    /\ settlements \in [Reservations -> Seq(ReservationEntry)]
    /\ \A r \in Reservations :
          settlements[r] = <<>> \/ (reservation[r] # NULL /\ Settled(r))

(***************************************************************************)
(* A first row, in whatever status, leaves the other rows as they are.     *)
(***************************************************************************)
LEMMA InsertKeeps ==
    ASSUME ReservationInv, NEW r \in Reservations, NEW new \in ReservationRow,
           InsertReservation(r, new)
    PROVE  ReservationInv'
  <1>1. /\ reservation[r] = NULL /\ reservation' = [reservation EXCEPT ![r] = new]
        /\ UNCHANGED <<reservationJournal, settlements>>
    BY DEF InsertReservation
  <1>2. settlements[r] = <<>>
    BY <1>1 DEF ReservationInv
  <1>3. reservation' \in [Reservations -> ReservationRow \cup {NULL}]
    BY <1>1 DEF ReservationInv
  <1>4. \A q \in Reservations : reservation'[q] = IF q = r THEN new ELSE reservation[q]
    BY <1>1 DEF ReservationInv
  <1>5. ReservationTypeOK'
    BY <1>1, <1>3, <1>4, RowAssumption DEF ReservationInv, ReservationTypeOK
  <1>6. \A q \in Reservations :
           settlements'[q] = <<>> \/ (reservation'[q] # NULL /\ Settled(q)')
    BY <1>1, <1>2, <1>4 DEF ReservationInv, Settled
  <1> QED
    BY <1>1, <1>3, <1>5, <1>6 DEF ReservationInv

(***************************************************************************)
(* A journal entry with a new fingerprint keeps the fingerprints apart and *)
(* the entries before it.                                                  *)
(***************************************************************************)
LEMMA JournalKeeps ==
    ASSUME ReservationInv, NEW r \in Reservations, NEW e \in ReservationEntry,
           InsertReservationLifecycle(r, e)
    PROVE  ReservationInv'
  <1>1. /\ reservation[r] # NULL
        /\ reservationJournal' = [reservationJournal EXCEPT ![r] = Append(@, e)]
        /\ UNCHANGED <<reservation, settlements>>
    BY DEF InsertReservationLifecycle
  <1>2. reservationJournal \in [Reservations -> Seq(ReservationEntry)]
    BY DEF ReservationInv, ReservationTypeOK
  <1>3. \A q \in Reservations : \A i \in DOMAIN reservationJournal[q] :
           reservationJournal[q][i].fingerprint # e.fingerprint
    BY <1>2 DEF InsertReservationLifecycle, freshEntry, fingerprintsIn
  <1>4. reservationJournal' \in [Reservations -> Seq(ReservationEntry)]
    BY <1>1, <1>2
  <1>5. \A q \in Reservations : q # r => reservationJournal'[q] = reservationJournal[q]
    BY <1>1, <1>2
  <1>6. /\ DOMAIN reservationJournal'[r] =
              DOMAIN reservationJournal[r] \cup {Len(reservationJournal[r]) + 1}
        /\ \A i \in DOMAIN reservationJournal[r] :
              reservationJournal'[r][i] = reservationJournal[r][i]
        /\ reservationJournal'[r][Len(reservationJournal[r]) + 1] = e
    <2> DEFINE j == reservationJournal[r]
    <2>1. j \in Seq(ReservationEntry)
      BY <1>2
    <2>2. reservationJournal'[r] = Append(j, e)
      BY <1>1, <1>2
    <2> QED
      BY <2>1, <2>2
  <1>7. \A q \in Reservations : \A i \in DOMAIN reservationJournal'[q] :
           \/ /\ i \in DOMAIN reservationJournal[q]
              /\ reservationJournal'[q][i] = reservationJournal[q][i]
           \/ /\ q = r /\ i = Len(reservationJournal[r]) + 1
              /\ reservationJournal'[q][i] = e
    BY <1>5, <1>6
  <1>8. \A q, s \in Reservations :
           \A i \in DOMAIN reservationJournal'[q], k \in DOMAIN reservationJournal'[s] :
              reservationJournal'[q][i].fingerprint = reservationJournal'[s][k].fingerprint
              => q = s /\ i = k
    <2>1. \A q, s \in Reservations :
             \A i \in DOMAIN reservationJournal[q], k \in DOMAIN reservationJournal[s] :
                reservationJournal[q][i].fingerprint = reservationJournal[s][k].fingerprint
                => q = s /\ i = k
      BY DEF ReservationInv, ReservationTypeOK
    <2>2. SUFFICES ASSUME NEW q \in Reservations, NEW s \in Reservations,
                          NEW i \in DOMAIN reservationJournal'[q],
                          NEW k \in DOMAIN reservationJournal'[s],
                          reservationJournal'[q][i].fingerprint
                          = reservationJournal'[s][k].fingerprint
                   PROVE  q = s /\ i = k
      OBVIOUS
    <2>3. CASE i \in DOMAIN reservationJournal[q]
               /\ reservationJournal'[q][i] = reservationJournal[q][i]
      <3>1. reservationJournal'[q][i].fingerprint # e.fingerprint
        BY <1>3, <2>3
      <3>2. k \in DOMAIN reservationJournal[s]
            /\ reservationJournal'[s][k] = reservationJournal[s][k]
        BY <1>7, <2>2, <3>1
      <3> QED
        BY <2>1, <2>2, <2>3, <3>2
    <2>4. CASE q = r /\ i = Len(reservationJournal[r]) + 1
               /\ reservationJournal'[q][i] = e
      <3>1. reservationJournal'[s][k].fingerprint = e.fingerprint
        BY <2>2, <2>4
      <3>2. s = r /\ k = Len(reservationJournal[r]) + 1
        BY <1>3, <1>7, <3>1
      <3> QED
        BY <2>4, <3>2
    <2> QED
      BY <1>7, <2>3, <2>4
  <1>9. ReservationTypeOK'
    BY <1>1, <1>4, <1>5, <1>8 DEF ReservationInv, ReservationTypeOK
  <1>10. \A q \in Reservations :
            settlements'[q] = <<>> \/ (reservation'[q] # NULL /\ Settled(q)')
    <2> SUFFICES ASSUME NEW q \in Reservations, settlements[q] # <<>>
                 PROVE  reservation[q] # NULL /\ Settled(q)'
      BY <1>1
    <2>1. reservation[q] # NULL /\ Settled(q)
      BY DEF ReservationInv
    <2>2. \A i \in DOMAIN reservationJournal[q] :
             /\ i \in DOMAIN reservationJournal'[q]
             /\ reservationJournal'[q][i] = reservationJournal[q][i]
      BY <1>5, <1>6
    <2> QED
      BY <1>1, <2>1, <2>2 DEF Settled
  <1> QED
    BY <1>1, <1>9, <1>10 DEF ReservationInv

(***************************************************************************)
(* The update a settlement needs is open to an active row only, which has  *)
(* no settlement yet; and it leaves a row that is not active.              *)
(***************************************************************************)
LEMMA UpdateKeeps ==
    ASSUME ReservationInv, NEW r \in Reservations, NEW new \in ReservationRow,
           UpdateReservation(r, new)
    PROVE  ReservationInv'
  <1> DEFINE s == settlement(r, new)
  <1>1. /\ reservation[r] # NULL
        /\ reservation[r].status = "active" /\ new.status \in Terminal
        /\ reservationJournal[r] # <<>> /\ Last(reservationJournal[r]) = s
        /\ reservation' = [reservation EXCEPT ![r] = new]
        /\ settlements' = [settlements EXCEPT ![r] = Append(@, s)]
        /\ UNCHANGED reservationJournal
    BY DEF UpdateReservation, mayMove, settlementJournaled
  <1>2. settlements[r] = <<>>
    <2>1. Settled(r) => reservation[r].status # "active"
      BY DEF Settled
    <2> QED
      BY <1>1, <2>1 DEF ReservationInv
  <1>3. reservation[r] \in ReservationRow
    BY <1>1 DEF ReservationInv
  <1>4. s \in ReservationEntry
    BY <1>3 DEF settlement, ReservationRow, ReservationEntry
  <1>5. settlements'[r] = <<s>>
    BY <1>1, <1>2 DEF ReservationInv
  <1>6. settlements' \in [Reservations -> Seq(ReservationEntry)]
    BY <1>1, <1>2, <1>4 DEF ReservationInv
  <1>7. reservation' \in [Reservations -> ReservationRow \cup {NULL}]
    BY <1>1 DEF ReservationInv
  <1>8. \A q \in Reservations :
           /\ reservation'[q] = IF q = r THEN new ELSE reservation[q]
           /\ q # r => settlements'[q] = settlements[q]
    BY <1>1 DEF ReservationInv
  <1>9. ReservationTypeOK'
    BY <1>1, <1>7, <1>8, RowAssumption DEF ReservationInv, ReservationTypeOK
  <1>10. reservation'[r] # NULL /\ Settled(r)'
    <2>1. reservationJournal[r] \in Seq(ReservationEntry)
      BY DEF ReservationInv, ReservationTypeOK
    <2>2. \E i \in DOMAIN reservationJournal[r] : reservationJournal[r][i] = s
      BY <1>1, <2>1 DEF Last
    <2>3. new = [status |-> s.to_status, fingerprint |-> s.fingerprint,
                 possible_overage |-> s.possible_overage,
                 changed_at |-> s.changed_at]
      BY DEF settlement, ReservationRow
    <2>4. s.to_status # "active"
      BY <1>1, TerminalAssumption DEF settlement
    <2>5. Len(settlements'[r]) = 1 /\ settlements'[r][1] = s
      BY <1>5
    <2>6. reservation'[r] = new /\ reservationJournal'[r] = reservationJournal[r]
      BY <1>1, <1>8
    <2> HIDE DEF s
    <2> QED
      BY <2>2, <2>3, <2>4, <2>5, <2>6, RowAssumption DEF Settled
  <1>11. \A q \in Reservations :
            settlements'[q] = <<>> \/ (reservation'[q] # NULL /\ Settled(q)')
    BY <1>1, <1>8, <1>10 DEF ReservationInv, Settled
  <1> QED
    BY <1>6, <1>7, <1>9, <1>11 DEF ReservationInv

(***************************************************************************)
(* A reservation is settled once, and its row and its journal agree, for   *)
(* any number of reservations, fingerprints and journal entries.           *)
(***************************************************************************)
THEOREM ReservationsSettleOnce ==
    ReservationSpec => [](ReservationTypeOK /\ SettledOnce /\ SnapshotsAgree)
  <1>1. ReservationInit => ReservationInv
    BY DEF ReservationInit, ReservationInv, ReservationTypeOK
  <1>2. ReservationInv /\ [ReservationNext]_reservationVars => ReservationInv'
    <2> SUFFICES ASSUME ReservationInv, [ReservationNext]_reservationVars
                 PROVE  ReservationInv'
      OBVIOUS
    <2>1. CASE ReservationNext
      BY <2>1, InsertKeeps, JournalKeeps, UpdateKeeps DEF ReservationNext
    <2>2. CASE UNCHANGED reservationVars
      BY <2>2 DEF reservationVars, ReservationInv, ReservationTypeOK, Settled
    <2> QED
      BY <2>1, <2>2
  <1>3. ReservationInv => SettledOnce
    <2> SUFFICES ASSUME ReservationInv, NEW r \in Reservations, settlements[r] # <<>>
                 PROVE  /\ Len(settlements[r]) <= 1
                        /\ reservation[r].status = settlements[r][1].to_status
                        /\ Contains(reservationJournal[r], settlements[r][1])
      BY DEF SettledOnce
    <2>1. Settled(r)
      BY DEF ReservationInv
    <2>2. reservationJournal[r] \in Seq(ReservationEntry)
      BY DEF ReservationInv, ReservationTypeOK
    <2> QED
      BY <2>1, <2>2 DEF Settled, Contains
  <1>4. ReservationInv => SnapshotsAgree
    <2> SUFFICES ASSUME ReservationInv, NEW r \in Reservations,
                        NEW i \in DOMAIN reservationJournal[r], settlements[r] # <<>>,
                        reservationJournal[r][i].fingerprint = reservation[r].fingerprint
                 PROVE  /\ reservationJournal[r][i].to_status = reservation[r].status
                        /\ reservationJournal[r][i].possible_overage
                              = reservation[r].possible_overage
                        /\ reservationJournal[r][i].changed_at = reservation[r].changed_at
      BY DEF SnapshotsAgree
    <2>1. PICK k \in DOMAIN reservationJournal[r] :
             reservationJournal[r][k] = settlements[r][1]
      BY DEF ReservationInv, Settled
    <2>2. /\ reservation[r].status = settlements[r][1].to_status
          /\ reservation[r].fingerprint = settlements[r][1].fingerprint
          /\ reservation[r].possible_overage = settlements[r][1].possible_overage
          /\ reservation[r].changed_at = settlements[r][1].changed_at
      BY DEF ReservationInv, Settled
    <2>3. i = k
      BY <2>1, <2>2 DEF ReservationInv, ReservationTypeOK
    <2> QED
      BY <2>1, <2>2, <2>3
  <1>5. ReservationInv => ReservationTypeOK
    BY DEF ReservationInv
  <1> QED
    BY <1>1, <1>2, <1>3, <1>4, <1>5, PTL DEF ReservationSpec

-----------------------------------------------------------------------------
\* The keys each statement checks, over all rows of the tables.
Keyed(T) ==
    /\ \A x, y \in T.decisions : x.of.call = y.of.call => x = y
    /\ \A g \in T.grants : \E d \in T.decisions : d.of = g.of
    /\ \A i \in T.intents : \E d \in T.decisions : d.of = i.of
    /\ \A u \in T.uses : \E g \in T.grants : g.of = u.of
    /\ \A r \in T.results :
          \E i \in T.intents : i.id = r.intent /\ i.of.call = r.call
    /\ \A r \in T.reconciliations :
          \E i \in T.intents : i.id = r.intent /\ i.of.task = r.task
    /\ \A u, v \in T.uses : u # v => u.approval # v.approval /\ u.intent # v.intent

\* The inductive invariant: the deferred key holds on disk only.
EffectInv ==
    /\ EffectTypeOK
    /\ Keyed(tx)
    /\ Keyed(committed)
    /\ deferredKeysHold(committed)

(***************************************************************************)
(* Every statement keeps the types and the keys of the tables the open     *)
(* transaction sees, and leaves the disk alone.                            *)
(***************************************************************************)
LEMMA StatementKeepsKeys ==
    ASSUME EffectTypeOK, Keyed(tx), Statement
    PROVE  /\ tx' \in Tables /\ Keyed(tx')
           /\ inTx /\ UNCHANGED <<committed, inTx>>
  <1>0. tx \in Tables
    BY DEF EffectTypeOK
  <1>1. ASSUME NEW d \in Decision, InsertDecision(d)
        PROVE  tx' \in Tables /\ Keyed(tx')
    <2>1. tx' = [tx EXCEPT !.decisions = @ \cup {d}]
      BY <1>1 DEF InsertDecision, inserts
    <2>2. tx' \in Tables
      BY <1>0, <2>1 DEF Tables
    <2>3. /\ tx'.decisions = tx.decisions \cup {d} /\ tx'.grants = tx.grants
          /\ tx'.intents = tx.intents /\ tx'.uses = tx.uses
          /\ tx'.results = tx.results /\ tx'.reconciliations = tx.reconciliations
      BY <1>0, <2>1 DEF Tables
    <2>4. \A x \in tx.decisions : x.of.call # d.of.call
      BY <1>1 DEF InsertDecision, newCall
    <2> QED
      BY <2>2, <2>3, <2>4 DEF Keyed
  <1>2. ASSUME NEW g \in Grant, InsertGrant(g)
        PROVE  tx' \in Tables /\ Keyed(tx')
    <2>1. tx' = [tx EXCEPT !.grants = @ \cup {g}]
      BY <1>2 DEF InsertGrant, inserts
    <2>2. tx' \in Tables
      BY <1>0, <2>1 DEF Tables
    <2>3. /\ tx'.decisions = tx.decisions /\ tx'.grants = tx.grants \cup {g}
          /\ tx'.intents = tx.intents /\ tx'.uses = tx.uses
          /\ tx'.results = tx.results /\ tx'.reconciliations = tx.reconciliations
      BY <1>0, <2>1 DEF Tables
    <2>4. \E d \in tx.decisions : d.of = g.of
      BY <1>2 DEF InsertGrant, references
    <2> QED
      BY <2>2, <2>3, <2>4 DEF Keyed
  <1>3. ASSUME NEW i \in Intent, InsertIntent(i)
        PROVE  tx' \in Tables /\ Keyed(tx')
    <2>1. tx' = [tx EXCEPT !.intents = @ \cup {i}]
      BY <1>3 DEF InsertIntent, inserts
    <2>2. tx' \in Tables
      BY <1>0, <2>1 DEF Tables
    <2>3. /\ tx'.decisions = tx.decisions /\ tx'.grants = tx.grants
          /\ tx'.intents = tx.intents \cup {i} /\ tx'.uses = tx.uses
          /\ tx'.results = tx.results /\ tx'.reconciliations = tx.reconciliations
      BY <1>0, <2>1 DEF Tables
    <2>4. \E d \in tx.decisions : d.of = i.of
      BY <1>3 DEF InsertIntent, references
    <2> QED
      BY <2>2, <2>3, <2>4 DEF Keyed
  <1>4. ASSUME NEW u \in Use, InsertUse(u)
        PROVE  tx' \in Tables /\ Keyed(tx')
    <2>1. tx' = [tx EXCEPT !.uses = @ \cup {u}]
      BY <1>4 DEF InsertUse, inserts
    <2>2. tx' \in Tables
      BY <1>0, <2>1 DEF Tables
    <2>3. /\ tx'.decisions = tx.decisions /\ tx'.grants = tx.grants
          /\ tx'.intents = tx.intents /\ tx'.uses = tx.uses \cup {u}
          /\ tx'.results = tx.results /\ tx'.reconciliations = tx.reconciliations
      BY <1>0, <2>1 DEF Tables
    <2>4. \E g \in tx.grants : g.of = u.of
      BY <1>4 DEF InsertUse, references
    <2>5. \A v \in tx.uses : v.approval # u.approval /\ v.intent # u.intent
      BY <1>4 DEF InsertUse
    <2> QED
      BY <2>2, <2>3, <2>4, <2>5 DEF Keyed
  <1>5. ASSUME NEW r \in ToolResult, InsertResult(r)
        PROVE  tx' \in Tables /\ Keyed(tx')
    <2>1. tx' = [tx EXCEPT !.results = @ \cup {r}]
      BY <1>5 DEF InsertResult, inserts
    <2>2. tx' \in Tables
      BY <1>0, <2>1 DEF Tables
    <2>3. /\ tx'.decisions = tx.decisions /\ tx'.grants = tx.grants
          /\ tx'.intents = tx.intents /\ tx'.uses = tx.uses
          /\ tx'.results = tx.results \cup {r}
          /\ tx'.reconciliations = tx.reconciliations
      BY <1>0, <2>1 DEF Tables
    <2>4. \E i \in tx.intents : i.id = r.intent /\ i.of.call = r.call
      BY <1>5 DEF InsertResult
    <2> QED
      BY <2>2, <2>3, <2>4 DEF Keyed
  <1>6. ASSUME NEW r \in Reconciliation, InsertReconciliation(r)
        PROVE  tx' \in Tables /\ Keyed(tx')
    <2>1. tx' = [tx EXCEPT !.reconciliations = @ \cup {r}]
      BY <1>6 DEF InsertReconciliation, inserts
    <2>2. tx' \in Tables
      BY <1>0, <2>1 DEF Tables
    <2>3. /\ tx'.decisions = tx.decisions /\ tx'.grants = tx.grants
          /\ tx'.intents = tx.intents /\ tx'.uses = tx.uses
          /\ tx'.results = tx.results
          /\ tx'.reconciliations = tx.reconciliations \cup {r}
      BY <1>0, <2>1 DEF Tables
    <2>4. \E i \in tx.intents : i.id = r.intent /\ i.of.task = r.task
      BY <1>6 DEF InsertReconciliation
    <2> QED
      BY <2>2, <2>3, <2>4 DEF Keyed
  <1>7. inTx /\ UNCHANGED <<committed, inTx>>
    BY DEF Statement, InsertDecision, InsertGrant, InsertIntent, InsertUse,
           InsertResult, InsertReconciliation, inserts
  <1> QED
    BY <1>1, <1>2, <1>3, <1>4, <1>5, <1>6, <1>7 DEF Statement

(***************************************************************************)
(* EffectInv is inductive: a statement touches the transaction only, and   *)
(* COMMIT moves it to the disk after the deferred key was checked.         *)
(***************************************************************************)
THEOREM EffectInvariance == EffectSpec => []EffectInv
  <1>1. EffectInit => EffectInv
    <2> SUFFICES ASSUME EffectInit PROVE EffectInv
      OBVIOUS
    <2>1. /\ NoRows.decisions = {} /\ NoRows.grants = {} /\ NoRows.intents = {}
          /\ NoRows.uses = {} /\ NoRows.results = {} /\ NoRows.reconciliations = {}
      BY DEF NoRows
    <2>2. NoRows \in Tables
      BY DEF NoRows, Tables
    <2>3. Keyed(NoRows) /\ deferredKeysHold(NoRows)
      BY <2>1 DEF Keyed, deferredKeysHold
    <2> QED
      BY <2>2, <2>3 DEF EffectInit, EffectInv, EffectTypeOK
  <1>2. EffectInv /\ [EffectNext]_effectVars => EffectInv'
    <2> SUFFICES ASSUME EffectInv, [EffectNext]_effectVars
                 PROVE  EffectInv'
      OBVIOUS
    <2> USE DEF EffectInv
    <2>1. CASE Statement
      <3>1. tx' \in Tables /\ Keyed(tx') /\ inTx /\ UNCHANGED <<committed, inTx>>
        BY <2>1, StatementKeepsKeys
      <3> QED
        BY <3>1 DEF EffectTypeOK, Keyed, deferredKeysHold
    <2>2. CASE Begin
      BY <2>2 DEF Begin, EffectTypeOK, Keyed, deferredKeysHold
    <2>3. CASE Commit
      BY <2>3 DEF Commit, EffectTypeOK, Keyed, deferredKeysHold
    <2>4. CASE Rollback
      BY <2>4 DEF Rollback, EffectTypeOK, Keyed, deferredKeysHold
    <2>5. CASE UNCHANGED effectVars
      BY <2>5 DEF effectVars, EffectTypeOK, Keyed, deferredKeysHold
    <2> QED
      BY <2>1, <2>2, <2>3, <2>4, <2>5 DEF EffectNext
  <1> QED
    BY <1>1, <1>2, PTL DEF EffectSpec

(***************************************************************************)
(* Every binding goes back to a decision of its call, and a call has one   *)
(* decision: whatever is on disk about a call is about one request.        *)
(***************************************************************************)
THEOREM EffectsOfOneRequest == EffectSpec => []OneRequestPerCall
  <1>1. EffectInv => OneRequestPerCall
    <2> SUFFICES ASSUME EffectInv PROVE OneRequestPerCall
      OBVIOUS
    <2>1. \A b \in bindings(committed) : \E d \in committed.decisions : d.of = b
      BY DEF EffectInv, Keyed, bindings
    <2>2. \A x, y \in bindings(committed) : x.call = y.call => x = y
      BY <2>1 DEF EffectInv, Keyed
    <2> QED
      BY <2>2 DEF EffectInv, Keyed, OneRequestPerCall
  <1> QED
    BY <1>1, EffectInvariance, PTL

(***************************************************************************)
(* The disk never has a spent approval without the intent it was spent on, *)
(* nor an approval or an intent with two uses.                             *)
(***************************************************************************)
THEOREM EffectsSpentOnce == EffectSpec => []SpentWithItsIntent
  <1>1. EffectInv => SpentWithItsIntent
    BY DEF EffectInv, Keyed, deferredKeysHold, references, SpentWithItsIntent
  <1> QED
    BY <1>1, EffectInvariance, PTL

-----------------------------------------------------------------------------
(***************************************************************************)
(* The keys, over all rows of the tables: they are inductive, since rows   *)
(* are only added and each INSERT checks the keys of its row.              *)
(***************************************************************************)
AdmissionKeys ==
    /\ \A r, s \in admitted.runs :
          r # s => r.id # s.id /\ r.of.manifest # s.of.manifest /\ r.of.budget # s.of.budget
    /\ \A b \in admitted.sets : \E r \in admitted.runs : r.id = b.task /\ r.of.budget = b.id
    /\ \A p \in admitted.profiles :
          \E r \in admitted.runs : r.id = p.task /\ r.of.sandbox = p.id
    /\ \A g \in admitted.grants :
          \E r \in admitted.runs : r.id = g.task /\ r.of.sandbox = g.profile
    /\ \A v \in admitted.revocations : \E g \in admitted.grants :
          g.id = v.id /\ g.task = v.task

ContextKeys ==
    /\ \A p, q \in sent.packages : p.id = q.id => p = q
    /\ \A c, d \in sent.snapshots : c.id = d.id => c = d
    /\ \A r \in sent.requests :
          ofTask(sent.packages, r.package, r.task) /\ ofTask(sent.snapshots, r.snapshot, r.task)
    /\ \A r, s \in sent.requests : r # s => r.reservation # s.reservation

PlanKeys ==
    /\ \A p, q \in planned.plans : p.id = q.id /\ p.revision = q.revision => p = q
    /\ \A s \in planned.steps : \E p \in planned.plans :
          p.id = s.plan /\ p.revision = s.revision /\ p.task = s.task

RunInv ==
    /\ RunTypeOK
    /\ AdmissionKeys /\ ContextKeys /\ PlanKeys

(***************************************************************************)
(* Admission: each INSERT keeps the keys of these tables.                  *)
(***************************************************************************)
LEMMA AdmissionKeeps ==
    ASSUME admitted \in AdmissionTables, AdmissionKeys, AdmissionNext
    PROVE  admitted' \in AdmissionTables /\ AdmissionKeys'
  <1>1. ASSUME NEW of \in Admission, InsertManifest(of)
        PROVE  admitted' \in AdmissionTables /\ AdmissionKeys'
    <2>1. admitted' = [admitted EXCEPT !.manifests = @ \cup {of}]
      BY <1>1 DEF InsertManifest, admits
    <2> QED
      BY <2>1 DEF AdmissionTables, AdmissionKeys
  <1>2. ASSUME NEW task \in RunTasks, NEW of \in Admission, InsertRun(task, of)
        PROVE  admitted' \in AdmissionTables /\ AdmissionKeys'
    <2>1. admitted' = [admitted EXCEPT !.runs = @ \cup {[id |-> task, of |-> of]}]
      BY <1>2 DEF InsertRun, admits
    <2> QED
      BY <1>2, <2>1 DEF AdmissionTables, AdmissionKeys, InsertRun, named
  <1>3. ASSUME NEW task \in RunTasks, NEW id \in RunIds, InsertBudgetSet(id, task)
        PROVE  admitted' \in AdmissionTables /\ AdmissionKeys'
    <2>1. admitted' = [admitted EXCEPT !.sets = @ \cup {[id |-> id, task |-> task]}]
      BY <1>3 DEF InsertBudgetSet, admits
    <2> QED
      BY <1>3, <2>1 DEF AdmissionTables, AdmissionKeys, InsertBudgetSet
  <1>4. ASSUME NEW task \in RunTasks, NEW id \in RunIds, InsertProfile(id, task)
        PROVE  admitted' \in AdmissionTables /\ AdmissionKeys'
    <2>1. admitted' = [admitted EXCEPT !.profiles = @ \cup {[id |-> id, task |-> task]}]
      BY <1>4 DEF InsertProfile, admits
    <2> QED
      BY <1>4, <2>1 DEF AdmissionTables, AdmissionKeys, InsertProfile
  <1>5. ASSUME NEW task \in RunTasks, NEW id \in RunIds, NEW profile \in RunIds,
               InsertCapability(id, task, profile)
        PROVE  admitted' \in AdmissionTables /\ AdmissionKeys'
    <2>1. admitted' = [admitted EXCEPT !.grants = @ \cup
                          {[id |-> id, task |-> task, profile |-> profile]}]
      BY <1>5 DEF InsertCapability, admits
    <2>2. \E r \in admitted.runs : r.id = task /\ r.of.sandbox = profile
      BY <1>5 DEF InsertCapability, ofTask, AdmissionKeys
    <2> QED
      BY <2>1, <2>2 DEF AdmissionTables, AdmissionKeys
  <1>6. ASSUME NEW task \in RunTasks, NEW id \in RunIds, InsertCapabilityRevocation(id, task)
        PROVE  admitted' \in AdmissionTables /\ AdmissionKeys'
    <2>1. admitted' = [admitted EXCEPT !.revocations = @ \cup {[id |-> id, task |-> task]}]
      BY <1>6 DEF InsertCapabilityRevocation, admits
    <2>2. \E g \in admitted.grants : g.id = id /\ g.task = task
      BY <1>6 DEF InsertCapabilityRevocation, ofTask
    <2> QED
      BY <2>1, <2>2 DEF AdmissionTables, AdmissionKeys
  <1> QED
    BY <1>1, <1>2, <1>3, <1>4, <1>5, <1>6 DEF AdmissionNext

(***************************************************************************)
(* Contexts and provider requests: each INSERT keeps the keys.             *)
(***************************************************************************)
LEMMA ContextKeeps ==
    ASSUME sent \in ContextTables, ContextKeys, ContextNext
    PROVE  sent' \in ContextTables /\ ContextKeys'
  <1>1. ASSUME NEW id \in RunIds, NEW task \in RunTasks, InsertContextQuery(id, task)
        PROVE  sent' \in ContextTables /\ ContextKeys'
    <2>1. sent' = [sent EXCEPT !.queries = @ \cup {[id |-> id, task |-> task]}]
      BY <1>1 DEF InsertContextQuery, sends
    <2> QED
      BY <2>1 DEF ContextTables, ContextKeys, ofTask
  <1>2. ASSUME NEW id \in RunIds, NEW task \in RunTasks, InsertPackage(id, task)
        PROVE  sent' \in ContextTables /\ ContextKeys'
    <2>1. sent' = [sent EXCEPT !.packages = @ \cup {[id |-> id, task |-> task]}]
      BY <1>2 DEF InsertPackage, sends
    <2> QED
      BY <1>2, <2>1 DEF ContextTables, ContextKeys, ofTask, InsertPackage, named
  <1>3. ASSUME NEW id \in RunIds, NEW task \in RunTasks, InsertSnapshot(id, task)
        PROVE  sent' \in ContextTables /\ ContextKeys'
    <2>1. sent' = [sent EXCEPT !.snapshots = @ \cup {[id |-> id, task |-> task]}]
      BY <1>3 DEF InsertSnapshot, sends
    <2> QED
      BY <1>3, <2>1 DEF ContextTables, ContextKeys, ofTask, InsertSnapshot, named
  <1>4. ASSUME NEW id \in RunIds, NEW task \in RunTasks, NEW query \in RunIds \cup {NoId},
               NEW content \in DOMAIN taskOfArtifact,
               InsertContextItem(id, task, query, content)
        PROVE  sent' \in ContextTables /\ ContextKeys'
    <2>1. sent' = [sent EXCEPT !.items = @ \cup
                      {[id |-> id, task |-> task, query |-> query, artifact |-> content]}]
      BY <1>4 DEF InsertContextItem, sends
    <2> QED
      BY <2>1 DEF ContextTables, ContextKeys, ofTask
  <1>5. ASSUME NEW id \in RunIds, NEW task \in RunTasks, NEW package \in RunIds,
               NEW snapshot \in RunIds, NEW reserved \in ReservationIds,
               InsertRequest(id, task, package, snapshot, reserved)
        PROVE  sent' \in ContextTables /\ ContextKeys'
    <2> DEFINE row == [id |-> id, task |-> task, package |-> package,
                       snapshot |-> snapshot, reservation |-> reserved,
                       set |-> setOfReservationId[reserved]]
    <2>1. sent' = [sent EXCEPT !.requests = @ \cup {row}]
      BY <1>5 DEF InsertRequest, sends
    <2>2. setOfReservationId[reserved] \in RunIds
      BY ReservationsAssumption
    <2>3. sent' \in ContextTables
      BY <2>1, <2>2 DEF ContextTables
    <2>4. /\ sent'.packages = sent.packages /\ sent'.snapshots = sent.snapshots
          /\ sent'.requests = sent.requests \cup {row}
      BY <2>1 DEF ContextTables
    <2>5. /\ ofTask(sent.packages, package, task) /\ ofTask(sent.snapshots, snapshot, task)
          /\ \A r \in sent.requests : r.reservation # reserved
      BY <1>5 DEF InsertRequest
    <2>6. /\ row.package = package /\ row.snapshot = snapshot
          /\ row.task = task /\ row.reservation = reserved
      OBVIOUS
    <2> HIDE DEF row
    <2> QED
      BY <2>3, <2>4, <2>5, <2>6 DEF ContextKeys
  <1>6. ASSUME NEW id \in RunIds, NEW position \in Position, NEW item \in RunIds,
               InsertPackageItem(id, position, item)
        PROVE  sent' \in ContextTables /\ ContextKeys'
    <2>1. sent' = [sent EXCEPT !.packed = @ \cup
                      {[package |-> id, position |-> position, item |-> item]}]
      BY <1>6 DEF InsertPackageItem, sends
    <2> QED
      BY <2>1 DEF ContextTables, ContextKeys, ofTask
  <1>7. ASSUME NEW id \in RunIds, InsertOutcome(id)
        PROVE  sent' \in ContextTables /\ ContextKeys'
    <2>1. sent' = [sent EXCEPT !.outcomes = @ \cup {[id |-> id]}]
      BY <1>7 DEF InsertOutcome, sends
    <2> QED
      BY <2>1 DEF ContextTables, ContextKeys, ofTask
  <1> QED
    BY <1>1, <1>2, <1>3, <1>4, <1>5, <1>6, <1>7 DEF ContextNext

(***************************************************************************)
(* Plans: each INSERT keeps the keys.                                      *)
(***************************************************************************)
LEMMA PlanKeeps ==
    ASSUME planned \in PlanTables, PlanKeys, PlanNext
    PROVE  planned' \in PlanTables /\ PlanKeys'
  <1>1. ASSUME NEW id \in RunIds, NEW task \in RunTasks, NEW revision \in Revision,
               NEW previous \in RunIds \cup {NoId}, InsertPlan(id, revision, task, previous)
        PROVE  planned' \in PlanTables /\ PlanKeys'
    <2>1. planned' = [planned EXCEPT !.plans = @ \cup
                 {[id |-> id, revision |-> revision, task |-> task, previous |-> previous]}]
      BY <1>1 DEF InsertPlan, plans
    <2> QED
      BY <1>1, <2>1 DEF PlanTables, PlanKeys, InsertPlan
  <1>2. ASSUME NEW id \in RunIds, NEW task \in RunTasks, NEW revision \in Revision,
               NEW plan \in RunIds, NEW position \in Position,
               InsertStep(id, plan, revision, task, position)
        PROVE  planned' \in PlanTables /\ PlanKeys'
    <2>1. planned' = [planned EXCEPT !.steps = @ \cup
                 {[id |-> id, plan |-> plan, revision |-> revision, task |-> task,
                   position |-> position]}]
      BY <1>2 DEF InsertStep, plans
    <2> QED
      BY <1>2, <2>1 DEF PlanTables, PlanKeys, InsertStep
  <1> QED
    BY <1>1, <1>2 DEF PlanNext

(***************************************************************************)
(* Recoveries have no key to another group; their rows keep their types.   *)
(***************************************************************************)
LEMMA RecoveryKeeps ==
    ASSUME recovered \in RecoveryTables, RecoveryNext
    PROVE  recovered' \in RecoveryTables
  <1>1. ASSUME NEW id \in RunIds, NEW task \in RunTasks, InsertRecovery(id, task)
        PROVE  recovered' \in RecoveryTables
    BY <1>1 DEF InsertRecovery, recovers, RecoveryTables
  <1>2. ASSUME NEW id \in RunIds, NEW position \in Position, NEW subject \in RunIds,
               InsertRecoveryItem(id, position, subject)
        PROVE  recovered' \in RecoveryTables
    BY <1>2 DEF InsertRecoveryItem, recovers, RecoveryTables
  <1>3. ASSUME NEW id \in RunIds, InsertReport(id)
        PROVE  recovered' \in RecoveryTables
    BY <1>3 DEF InsertReport, recovers, RecoveryTables
  <1> QED
    BY <1>1, <1>2, <1>3 DEF RecoveryNext

(***************************************************************************)
(* Whatever order the rows of any number of tasks are inserted in, what a  *)
(* task uses is what it was admitted with, and what is sent and planned    *)
(* for it is its own.                                                      *)
(***************************************************************************)
THEOREM RunsStaySeparate == RunSpec => [](RunTypeOK /\ TasksStaySeparate)
  <1>1. RunInit => RunInv
    BY DEF RunInit, AdmissionInit, ContextInit, PlanInit, RecoveryInit, RunInv, RunTypeOK,
           AdmissionTables, ContextTables, PlanTables, RecoveryTables, AdmissionKeys,
           ContextKeys, PlanKeys
  <1>2. RunInv /\ [RunNext]_runVars => RunInv'
    <2> SUFFICES ASSUME RunInv, [RunNext]_runVars
                 PROVE  RunInv'
      OBVIOUS
    <2>1. CASE AdmissionNext
      <3>1. UNCHANGED <<sent, planned, recovered>>
        BY <2>1 DEF AdmissionNext, InsertManifest, InsertRun, InsertBudgetSet, InsertProfile,
                    InsertCapability, InsertCapabilityRevocation, admits
      <3>2. admitted' \in AdmissionTables /\ AdmissionKeys'
        BY <2>1, AdmissionKeeps DEF RunInv, RunTypeOK
      <3> QED
        BY <3>1, <3>2 DEF RunInv, RunTypeOK, ContextKeys, PlanKeys
    <2>2. CASE ContextNext
      <3>1. UNCHANGED <<admitted, planned, recovered>>
        BY <2>2 DEF ContextNext, InsertContextQuery, InsertContextItem, InsertPackage,
                    InsertPackageItem, InsertSnapshot, InsertRequest, InsertOutcome, sends
      <3>2. sent' \in ContextTables /\ ContextKeys'
        BY <2>2, ContextKeeps DEF RunInv, RunTypeOK
      <3> QED
        BY <3>1, <3>2 DEF RunInv, RunTypeOK, AdmissionKeys, PlanKeys
    <2>3. CASE PlanNext
      <3>1. UNCHANGED <<admitted, sent, recovered>>
        BY <2>3 DEF PlanNext, InsertPlan, InsertStep, plans
      <3>2. planned' \in PlanTables /\ PlanKeys'
        BY <2>3, PlanKeeps DEF RunInv, RunTypeOK
      <3> QED
        BY <3>1, <3>2 DEF RunInv, RunTypeOK, AdmissionKeys, ContextKeys
    <2>4. CASE RecoveryNext \/ UNCHANGED runVars
      <3>1. UNCHANGED <<admitted, sent, planned>>
        BY <2>4 DEF RecoveryNext, InsertRecovery, InsertRecoveryItem, InsertReport, recovers,
                    runVars
      <3>2. recovered' \in RecoveryTables
        BY <2>4, RecoveryKeeps DEF RunInv, RunTypeOK, runVars
      <3> QED
        BY <3>1, <3>2 DEF RunInv, RunTypeOK, AdmissionKeys, ContextKeys, PlanKeys
    <2> QED
      BY <2>1, <2>2, <2>3, <2>4 DEF RunNext
  <1>3. RunInv => TasksStaySeparate
    <2> SUFFICES ASSUME RunInv
                 PROVE  TasksStaySeparate
      OBVIOUS
    <2>1. UsesWhatWasAdmitted
      BY DEF RunInv, AdmissionKeys, UsesWhatWasAdmitted
    <2>2. SentForOneTask
      BY DEF RunInv, ContextKeys, PlanKeys, ofTask, SentForOneTask
    <2> QED
      BY <2>1, <2>2 DEF TasksStaySeparate
  <1>4. RunInv => RunTypeOK
    BY DEF RunInv
  <1> QED
    BY <1>1, <1>2, <1>3, <1>4, PTL DEF RunSpec

-----------------------------------------------------------------------------
(***************************************************************************)
(* What computeBudget accepts adds up exactly within the safe integers,    *)
(* and the gate opens just when something is left of the limit.            *)
(***************************************************************************)
LEMMA ComputeExact ==
    ASSUME NEW h \in Amounts, NEW c \in Amounts, NEW r \in Amounts, NEW p \in Amounts,
           computeBudget(h, c, r, p) # InvalidBudget
    PROVE  LET b == computeBudget(h, c, r, p) IN
           /\ b \in BudgetState
           /\ b.accounted = b.confirmed + b.reserved
           /\ b.accounted <= MAX_SAFE_INTEGER
           /\ b.decision = "can_start" <=> b.remaining > 0
           /\ b.remaining > 0 => b.accounted + b.remaining = b.hardLimit
  <1> USE MaxSafeAssumption
  <1>1. /\ \A v \in {h, c, r, p} : validateNonNegativeSafeInteger(v)
        /\ canAdd(c, r)
    BY DEF computeBudget
  <1>2. h \in Safe /\ c \in Safe /\ r \in Safe /\ p \in Safe
    BY <1>1, AmountsAssumption DEF validateNonNegativeSafeInteger, Safe
  <1>3. accounted(c, r) \in Safe /\ accounted(c, r) = c + r
    BY <1>1, <1>2 DEF canAdd, accounted, Safe
  <1>4. /\ remainingOf(h, accounted(c, r)) \in Safe
        /\ decisionOf(h, accounted(c, r)) = "can_start"
              <=> remainingOf(h, accounted(c, r)) > 0
        /\ remainingOf(h, accounted(c, r)) > 0
              => accounted(c, r) + remainingOf(h, accounted(c, r)) = h
        /\ decisionOf(h, accounted(c, r)) \in {"can_start", "hard_limit_reached"}
    BY <1>2, <1>3 DEF remainingOf, decisionOf, Safe
  <1>5. computeBudget(h, c, r, p) =
          [hardLimit |-> h, confirmed |-> c, reserved |-> r, possibleOverage |-> p,
           accounted |-> accounted(c, r),
           remaining |-> remainingOf(h, accounted(c, r)),
           decision |-> decisionOf(h, accounted(c, r))]
    BY <1>1 DEF computeBudget
  <1> QED
    BY <1>2, <1>3, <1>4, <1>5 DEF BudgetState, Safe

(***************************************************************************)
(* Every answer of the budget gate is exact.                               *)
(***************************************************************************)
THEOREM BudgetGateExact == BudgetSpec => [](BudgetTypeOK /\ GateExact)
  <1>1. BudgetInit => BudgetTypeOK /\ GateExact
    BY DEF BudgetInit, BudgetTypeOK, GateExact
  <1>2. BudgetTypeOK /\ GateExact /\ [BudgetNext]_budgetVars
          => (BudgetTypeOK /\ GateExact)'
    <2> SUFFICES ASSUME BudgetTypeOK, GateExact, [BudgetNext]_budgetVars
                 PROVE  (BudgetTypeOK /\ GateExact)'
      OBVIOUS
    <2>1. CASE BudgetNext
      <3>1. PICK h, c, r, p \in Amounts : budget' = computeBudget(h, c, r, p)
        BY <2>1 DEF BudgetNext, Compute
      <3>2. CASE budget' = InvalidBudget
        BY <3>2 DEF BudgetTypeOK, GateExact
      <3>3. CASE budget' # InvalidBudget
        BY <3>1, <3>3, ComputeExact DEF BudgetTypeOK, GateExact
      <3> QED
        BY <3>2, <3>3
    <2>2. CASE UNCHANGED budgetVars
      BY <2>2 DEF budgetVars, BudgetTypeOK, GateExact
    <2> QED
      BY <2>1, <2>2
  <1> QED
    BY <1>1, <1>2, PTL DEF BudgetSpec

-----------------------------------------------------------------------------
(***************************************************************************)
(* Artifacts.  What is inductive about their moves is a rank that every    *)
(* edge raises: an entry of the journal that was applied led to a stage    *)
(* not above the row's, and so is not the one that an update finds last.   *)
(***************************************************************************)
stageRank == [staged |-> 0, committed |-> 1, quarantined |-> 2, tombstoned |-> 3]

LEMMA EdgesRise ==
    /\ stageRank \in [Lifecycle -> 0..3]
    /\ \A from \in Lifecycle : \A to \in edges[from] :
          to \in Lifecycle /\ stageRank[from] < stageRank[to]
  BY DEF stageRank, Lifecycle, edges

\* The moves of a row are one path upwards, and end where the row is.
PathOf(a) ==
    LET m == artifactMoves[a] IN
    /\ m # <<>> =>
          /\ artifact[a] # NULL
          /\ m[Len(m)].to_state = artifact[a].lifecycle
          /\ m[Len(m)].occurred_at = artifact[a].changed_at
    /\ \A i \in 1..(Len(m) - 1) :
          m[i].to_state = m[i + 1].from_state /\ m[i].occurred_at <= m[i + 1].occurred_at
    /\ \A i, k \in 1..Len(m) :
          i < k => stageRank[m[i].to_state] < stageRank[m[k].to_state]

\* at says where in the journal each move of the row is.
Places(a, at) ==
    /\ at \in [DOMAIN artifactMoves[a] -> DOMAIN artifactJournal[a]]
    /\ \A i \in DOMAIN artifactMoves[a] : artifactJournal[a][at[i]] = artifactMoves[a][i]
    /\ \A i, k \in DOMAIN artifactMoves[a] : i < k => at[i] < at[k]

ArtifactsTyped ==
    /\ ArtifactTypeOK
    /\ artifact \in [Artifacts -> ArtifactRow \cup {NULL}]
    /\ artifactMoves \in [Artifacts -> Seq(ArtifactEntry)]

\* The inductive invariant.
ArtifactInv ==
    /\ ArtifactsTyped
    /\ \A a \in Artifacts : PathOf(a) /\ \E at : Places(a, at)

(***************************************************************************)
(* What one more member does to a sequence.                                *)
(***************************************************************************)
LEMMA OneMore ==
    ASSUME NEW S, NEW seq \in Seq(S), NEW x \in S, NEW longer, longer = Append(seq, x),
           NEW n \in Nat, n = Len(seq)
    PROVE  /\ longer \in Seq(S) /\ longer # <<>>
           /\ Len(longer) = n + 1
           /\ DOMAIN seq = 1..n /\ DOMAIN longer = 1..(n + 1)
           /\ \A i \in 1..n : longer[i] = seq[i]
           /\ longer[n + 1] = x
  BY AppendProperties

(***************************************************************************)
(* A row is born without moves.                                            *)
(***************************************************************************)
LEMMA ArtifactInsertKeeps ==
    ASSUME ArtifactInv, NEW a \in Artifacts, NEW new \in ArtifactRow,
           InsertArtifact(a, new)
    PROVE  ArtifactInv'
  <1>1. /\ artifact[a] = NULL /\ artifact' = [artifact EXCEPT ![a] = new]
        /\ UNCHANGED <<artifactJournal, artifactMoves>>
        /\ reasoned(new)
    BY DEF InsertArtifact
  <1>2. artifactMoves[a] = <<>>
    BY <1>1 DEF ArtifactInv, PathOf
  <1>3. artifact' \in [Artifacts -> ArtifactRow \cup {NULL}]
    BY <1>1 DEF ArtifactInv, ArtifactsTyped
  <1>4. \A b \in Artifacts : artifact'[b] = IF b = a THEN new ELSE artifact[b]
    BY <1>1 DEF ArtifactInv, ArtifactsTyped
  <1>5. new # NULL
    BY ArtifactAssumption
  <1>6. ArtifactTypeOK'
    BY <1>1, <1>3, <1>4, <1>5 DEF ArtifactInv, ArtifactsTyped, ArtifactTypeOK, reasoned
  <1>7. \A b \in Artifacts : PathOf(b)'
    <2> SUFFICES ASSUME NEW b \in Artifacts PROVE PathOf(b)'
      OBVIOUS
    <2>1. CASE b = a
      BY <1>1, <1>2, <2>1 DEF PathOf
    <2>2. CASE b # a
      BY <1>1, <1>4, <2>2 DEF PathOf, ArtifactInv
    <2> QED
      BY <2>1, <2>2
  <1>8. \A b \in Artifacts : \E at : Places(b, at)'
    BY <1>1 DEF ArtifactInv, Places
  <1> QED
    BY <1>1, <1>3, <1>6, <1>7, <1>8 DEF ArtifactInv, ArtifactsTyped

(***************************************************************************)
(* An entry more in the journal leaves the moves at their places.          *)
(***************************************************************************)
LEMMA ArtifactJournalKeeps ==
    ASSUME ArtifactInv, NEW a \in Artifacts, NEW e \in ArtifactEntry,
           InsertArtifactLifecycle(a, e)
    PROVE  ArtifactInv'
  <1>1. /\ artifact[a] # NULL
        /\ artifactJournal' = [artifactJournal EXCEPT ![a] = Append(@, e)]
        /\ UNCHANGED <<artifact, artifactMoves>>
    BY DEF InsertArtifactLifecycle
  <1>2. artifactJournal \in [Artifacts -> Seq(ArtifactEntry)]
    BY DEF ArtifactInv, ArtifactsTyped, ArtifactTypeOK
  <1>3. \A b \in Artifacts : b # a => artifactJournal'[b] = artifactJournal[b]
    BY <1>1, <1>2
  <1>4. artifactJournal'[a] = Append(artifactJournal[a], e) /\ artifactJournal[a] \in Seq(ArtifactEntry)
    BY <1>1, <1>2
  <1>5. PICK n \in Nat : n = Len(artifactJournal[a])
    BY <1>4, LenProperties
  <1>6. /\ artifactJournal'[a] \in Seq(ArtifactEntry)
        /\ DOMAIN artifactJournal[a] = 1..n /\ DOMAIN artifactJournal'[a] = 1..(n + 1)
        /\ \A i \in 1..n : artifactJournal'[a][i] = artifactJournal[a][i]
    BY <1>4, <1>5, OneMore
  <1>7. artifactJournal' \in [Artifacts -> Seq(ArtifactEntry)]
    BY <1>1, <1>2, <1>6
  <1>8. ArtifactTypeOK'
    BY <1>1, <1>3, <1>7 DEF ArtifactInv, ArtifactsTyped, ArtifactTypeOK
  <1>9. \A b \in Artifacts : PathOf(b)'
    BY <1>1 DEF ArtifactInv, PathOf
  <1>10. \A b \in Artifacts : \E at : Places(b, at)'
    <2> SUFFICES ASSUME NEW b \in Artifacts PROVE \E at : Places(b, at)'
      OBVIOUS
    <2>1. PICK at : Places(b, at)
      BY DEF ArtifactInv
    <2>2. CASE b # a
      BY <1>1, <1>3, <2>1, <2>2 DEF Places
    <2>3. CASE b = a
      <3>1. at \in [DOMAIN artifactMoves[a] -> 1..n]
        BY <1>6, <2>1, <2>3 DEF Places
      <3>2. at \in [DOMAIN artifactMoves[a] -> 1..(n + 1)]
        BY <3>1
      <3>3. \A i \in DOMAIN artifactMoves[a] : artifactJournal'[a][at[i]] = artifactMoves[a][i]
        BY <1>6, <2>1, <2>3, <3>1 DEF Places
      <3>4. Places(b, at)'
        BY <1>1, <1>6, <2>1, <2>3, <3>2, <3>3 DEF Places
      <3> QED
        BY <3>4
    <2> QED
      BY <2>2, <2>3
  <1> QED
    BY <1>1, <1>8, <1>9, <1>10 DEF ArtifactInv, ArtifactsTyped

(***************************************************************************)
(* An update follows an edge and finds its own entry last in the journal:  *)
(* the path grows by it, and it is placed after every earlier move.        *)
(***************************************************************************)
LEMMA ArtifactUpdateKeeps ==
    ASSUME ArtifactInv, NEW a \in Artifacts, NEW new \in ArtifactRow,
           UpdateArtifact(a, new)
    PROVE  ArtifactInv'
  <1> DEFINE x == move(a, new)
  <1>1. /\ artifact[a] # NULL /\ reasoned(new)
        /\ new.changed_at >= artifact[a].changed_at
        /\ new.lifecycle \in edges[artifact[a].lifecycle]
        /\ artifactJournal[a] # <<>> /\ Last(artifactJournal[a]) = x
        /\ artifact' = [artifact EXCEPT ![a] = new]
        /\ artifactMoves' = [artifactMoves EXCEPT ![a] = Append(@, x)]
        /\ UNCHANGED artifactJournal
    BY DEF UpdateArtifact, moveJournaled
  <1>2. /\ artifact \in [Artifacts -> ArtifactRow \cup {NULL}]
        /\ artifactMoves \in [Artifacts -> Seq(ArtifactEntry)]
        /\ artifactJournal \in [Artifacts -> Seq(ArtifactEntry)]
        /\ artifact[a] \in ArtifactRow /\ new # NULL
    BY <1>1, ArtifactAssumption DEF ArtifactInv, ArtifactsTyped, ArtifactTypeOK
  <1>3. /\ x \in ArtifactEntry
        /\ x.from_state = artifact[a].lifecycle /\ x.to_state = new.lifecycle
        /\ x.occurred_at = new.changed_at
        /\ new.lifecycle \in Lifecycle /\ artifact[a].lifecycle \in Lifecycle
    BY <1>2 DEF move, ArtifactEntry, ArtifactRow
  <1> HIDE DEF x
  <1>4. /\ \A b \in Artifacts : b # a =>
              artifact'[b] = artifact[b] /\ artifactMoves'[b] = artifactMoves[b]
        /\ artifact'[a] = new /\ artifactMoves'[a] = Append(artifactMoves[a], x)
    BY <1>1, <1>2
  <1>5. PICK n \in Nat : n = Len(artifactMoves[a])
    BY <1>2, LenProperties
  <1>6. PICK old \in Seq(ArtifactEntry) : old = artifactMoves[a]
    BY <1>2
  <1>7. PICK m : m = artifactMoves'[a]
    OBVIOUS
  <1>8. /\ m \in Seq(ArtifactEntry) /\ m # <<>> /\ Len(m) = n + 1 /\ Len(old) = n
        /\ DOMAIN old = 1..n /\ DOMAIN m = 1..(n + 1)
        /\ \A i \in 1..n : m[i] = old[i]
        /\ m[n + 1] = x
    BY <1>3, <1>4, <1>5, <1>6, <1>7, OneMore
  <1>9. /\ n > 0 => /\ old[n].to_state = artifact[a].lifecycle
                    /\ old[n].occurred_at = artifact[a].changed_at
        /\ \A i \in 1..(n - 1) :
              old[i].to_state = old[i + 1].from_state
              /\ old[i].occurred_at <= old[i + 1].occurred_at
        /\ \A i, k \in 1..n :
              i < k => stageRank[old[i].to_state] < stageRank[old[k].to_state]
    <2>1. PathOf(a)
      BY DEF ArtifactInv
    <2>2. n > 0 => old # <<>>
      BY <1>8
    <2> QED
      BY <1>5, <1>6, <2>1, <2>2 DEF PathOf
  <1>10. \A i \in 1..n : stageRank[old[i].to_state] < stageRank[x.to_state]
    <2> SUFFICES ASSUME NEW i \in 1..n
                 PROVE  stageRank[old[i].to_state] < stageRank[x.to_state]
      OBVIOUS
    <2>1. /\ stageRank[artifact[a].lifecycle] < stageRank[x.to_state]
          /\ stageRank[artifact[a].lifecycle] \in 0..3 /\ stageRank[x.to_state] \in 0..3
      BY <1>1, <1>3, EdgesRise
    <2>2. old[i] \in ArtifactEntry
      BY <1>8
    <2>3. stageRank[old[i].to_state] \in 0..3
      BY <2>2, EdgesRise DEF ArtifactEntry
    <2>4. i = n \/ stageRank[old[i].to_state] < stageRank[old[n].to_state]
      BY <1>9
    <2>5. old[n].to_state = artifact[a].lifecycle
      BY <1>9
    <2> QED
      BY <2>1, <2>3, <2>4, <2>5
  <1>11. PathOf(a)'
    <2>1. m[Len(m)].to_state = artifact'[a].lifecycle
          /\ m[Len(m)].occurred_at = artifact'[a].changed_at
      BY <1>3, <1>4, <1>8
    <2>2. \A i \in 1..(Len(m) - 1) :
             m[i].to_state = m[i + 1].from_state /\ m[i].occurred_at <= m[i + 1].occurred_at
      <3> SUFFICES ASSUME NEW i \in 1..n
                   PROVE  /\ m[i].to_state = m[i + 1].from_state
                          /\ m[i].occurred_at <= m[i + 1].occurred_at
        BY <1>8
      <3>1. CASE i = n
        <4>1. new.changed_at \in Nat /\ artifact[a].changed_at \in Nat
          BY <1>2, TimesAssumption DEF ArtifactRow
        <4>2. artifact[a].changed_at <= new.changed_at
          BY <1>1, <4>1
        <4>3. n > 0 /\ m[i] = old[n] /\ m[i + 1] = x
          BY <1>8, <3>1
        <4> QED
          BY <1>3, <1>9, <4>2, <4>3
      <3>2. CASE i # n
        <4>1. i \in 1..(n - 1) /\ i \in 1..n /\ i + 1 \in 1..n
          BY <3>2
        <4>2. m[i] = old[i] /\ m[i + 1] = old[i + 1]
          BY <1>8, <4>1
        <4> QED
          BY <1>9, <4>1, <4>2
      <3> QED
        BY <3>1, <3>2
    <2>3. \A i, k \in 1..Len(m) :
             i < k => stageRank[m[i].to_state] < stageRank[m[k].to_state]
      <3> SUFFICES ASSUME NEW i \in 1..(n + 1), NEW k \in 1..(n + 1), i < k
                   PROVE  stageRank[m[i].to_state] < stageRank[m[k].to_state]
        BY <1>8
      <3>1. i \in 1..n /\ m[i] = old[i]
        BY <1>8
      <3>2. CASE k = n + 1
        BY <1>8, <1>10, <3>1, <3>2
      <3>3. CASE k # n + 1
        <4>1. k \in 1..n /\ m[k] = old[k]
          BY <1>8, <3>3
        <4> QED
          BY <1>9, <3>1, <4>1
      <3> QED
        BY <3>2, <3>3
    <2> QED
      BY <1>2, <1>4, <1>7, <2>1, <2>2, <2>3 DEF PathOf
  <1>12. \E at : Places(a, at)'
    <2>1. PICK at : Places(a, at)
      BY DEF ArtifactInv
    <2>2. PICK j \in Seq(ArtifactEntry) : j = artifactJournal[a]
      BY <1>2
    <2>3. PICK last \in Nat : last = Len(j)
      BY <2>2, LenProperties
    <2>4. DOMAIN j = 1..last /\ last \in 1..last /\ j[last] = x
      BY <1>1, <2>2, <2>3, EmptySeq DEF Last
    <2>5. /\ at \in [1..n -> 1..last]
          /\ \A i \in 1..n : j[at[i]] = old[i]
          /\ \A i, k \in 1..n : i < k => at[i] < at[k]
      BY <1>6, <1>8, <2>1, <2>2, <2>4 DEF Places
    <2>6. \A i \in 1..n : at[i] < last
      <3> SUFFICES ASSUME NEW i \in 1..n, at[i] = last PROVE FALSE
        BY <2>5
      <3>1. old[i] = x
        BY <2>4, <2>5
      <3>2. stageRank[x.to_state] \in 0..3
        BY <1>3, EdgesRise
      <3> QED
        BY <1>10, <3>1, <3>2
    <2> DEFINE next == [i \in 1..(n + 1) |-> IF i = n + 1 THEN last ELSE at[i]]
    <2>7. /\ next \in [1..(n + 1) -> 1..last]
          /\ next[n + 1] = last /\ \A i \in 1..n : next[i] = at[i]
      BY <2>4, <2>5
    <2> HIDE DEF next
    <2>8. \A i \in 1..(n + 1) : j[next[i]] = m[i]
      <3> SUFFICES ASSUME NEW i \in 1..(n + 1) PROVE j[next[i]] = m[i]
        OBVIOUS
      <3>1. i = n + 1 \/ i \in 1..n
        OBVIOUS
      <3>2. ASSUME i = n + 1 PROVE j[next[i]] = m[i]
        BY <1>8, <2>4, <2>7, <3>2
      <3>3. ASSUME i \in 1..n PROVE j[next[i]] = m[i]
        <4>1. next[i] = at[i] /\ m[i] = old[i] /\ j[at[i]] = old[i]
          BY <1>8, <2>5, <2>7, <3>3
        <4> QED
          BY <4>1
      <3> QED
        BY <3>1, <3>2, <3>3
    <2>9. \A i, k \in 1..(n + 1) : i < k => next[i] < next[k]
      BY <2>5, <2>6, <2>7
    <2>10. Places(a, next)'
      BY <1>1, <1>7, <1>8, <2>2, <2>4, <2>7, <2>8, <2>9 DEF Places
    <2> QED
      BY <2>10
  <1>13. \A b \in Artifacts : PathOf(b)' /\ \E at : Places(b, at)'
    <2> SUFFICES ASSUME NEW b \in Artifacts, b # a
                 PROVE  PathOf(b)' /\ \E at : Places(b, at)'
      BY <1>11, <1>12
    <2>1. PathOf(b)'
      <3>1. PathOf(b) /\ artifact'[b] = artifact[b] /\ artifactMoves'[b] = artifactMoves[b]
        BY <1>4 DEF ArtifactInv
      <3> QED
        BY <3>1 DEF PathOf
    <2>2. PICK at : Places(b, at)
      BY DEF ArtifactInv
    <2>3. Places(b, at)'
      BY <1>1, <1>4, <2>2 DEF Places
    <2> QED
      BY <2>1, <2>3
  <1>14. ArtifactsTyped'
    <2>1. artifact' \in [Artifacts -> ArtifactRow \cup {NULL}]
      BY <1>1, <1>2
    <2>2. artifactMoves' \in [Artifacts -> Seq(ArtifactEntry)]
      BY <1>1, <1>2, <1>7, <1>8
    <2>3. ArtifactTypeOK'
      BY <1>1, <1>2, <1>4, <2>1 DEF ArtifactInv, ArtifactsTyped, ArtifactTypeOK, reasoned
    <2> QED
      BY <2>1, <2>2, <2>3 DEF ArtifactsTyped
  <1> QED
    BY <1>13, <1>14 DEF ArtifactInv

(***************************************************************************)
(* Whatever statements come, in whatever order, ArtifactInv stays.         *)
(***************************************************************************)
THEOREM ArtifactsFollow ==
    ArtifactInit /\ [][ArtifactNext]_artifactVars => []ArtifactInv
  <1>1. ArtifactInit => ArtifactInv
    <2> SUFFICES ASSUME ArtifactInit PROVE ArtifactInv
      OBVIOUS
    <2>1. \A a \in Artifacts :
             artifact[a] = NULL /\ artifactJournal[a] = <<>> /\ artifactMoves[a] = <<>>
      BY DEF ArtifactInit
    <2>2. ArtifactsTyped
      <3>1. /\ artifact \in [Artifacts -> ArtifactRow \cup {NULL}]
            /\ artifactMoves \in [Artifacts -> Seq(ArtifactEntry)]
            /\ artifactJournal \in [Artifacts -> Seq(ArtifactEntry)]
        BY EmptySeq DEF ArtifactInit
      <3> QED
        BY <2>1, <3>1 DEF ArtifactsTyped, ArtifactTypeOK
    <2>3. ASSUME NEW a \in Artifacts PROVE PathOf(a) /\ \E at : Places(a, at)
      <3>1. artifactMoves[a] = <<>> /\ Len(artifactMoves[a]) = 0
            /\ DOMAIN artifactMoves[a] = {}
        BY <2>1, EmptySeq
      <3>2. PathOf(a)
        BY <3>1 DEF PathOf
      <3>3. Places(a, [i \in {} |-> i])
        BY <3>1 DEF Places
      <3> QED
        BY <3>2, <3>3
    <2> QED
      BY <2>2, <2>3 DEF ArtifactInv
  <1>2. ArtifactInv /\ [ArtifactNext]_artifactVars => ArtifactInv'
    <2> SUFFICES ASSUME ArtifactInv, [ArtifactNext]_artifactVars PROVE ArtifactInv'
      OBVIOUS
    <2>1. CASE UNCHANGED artifactVars
      <3>1. UNCHANGED <<artifact, artifactJournal, artifactMoves>>
        BY <2>1 DEF artifactVars
      <3>2. ArtifactsTyped'
        BY <3>1 DEF ArtifactInv, ArtifactsTyped, ArtifactTypeOK
      <3>3. ASSUME NEW a \in Artifacts PROVE PathOf(a)' /\ \E at : Places(a, at)'
        BY <3>1 DEF ArtifactInv, PathOf, Places
      <3> QED
        BY <3>2, <3>3 DEF ArtifactInv
    <2>2. CASE ArtifactNext
      BY <2>2, ArtifactInsertKeeps, ArtifactJournalKeeps, ArtifactUpdateKeeps
      DEF ArtifactNext
    <2> QED
      BY <2>1, <2>2
  <1> QED
    BY <1>1, <1>2, PTL

(***************************************************************************)
(* The moves of an artifact are journaled, whole and in order, and are one *)
(* path: what ArtifactInv says of the path implies that no stage comes     *)
(* twice.                                                                  *)
(***************************************************************************)
LEMMA ArtifactInvImplies ==
    ASSUME ArtifactInv
    PROVE  ArtifactTypeOK /\ MovesAreJournaled /\ MovesArePath
  <1>1. ArtifactTypeOK
    BY DEF ArtifactInv, ArtifactsTyped
  <1>2. MovesAreJournaled
    BY DEF ArtifactInv, MovesAreJournaled, Places
  <1>3. MovesArePath
    <2> DEFINE OnePath(a, m) ==
            /\ m # <<>> => Last(m).to_state = artifact[a].lifecycle
            /\ \A i \in 1..(Len(m) - 1) :
                  /\ m[i].to_state = m[i + 1].from_state
                  /\ m[i].occurred_at <= m[i + 1].occurred_at
            /\ \A i, k \in DOMAIN m : i # k => m[i].to_state # m[k].to_state
    <2> SUFFICES ASSUME NEW a \in Artifacts PROVE OnePath(a, artifactMoves[a])
      BY DEF MovesArePath
    <2>0. PICK m : m = artifactMoves[a]
      OBVIOUS
    <2>1. m \in Seq(ArtifactEntry) /\ PathOf(a)
      BY <2>0 DEF ArtifactInv, ArtifactsTyped
    <2>2. PICK n \in Nat : n = Len(m) /\ DOMAIN m = 1..n
      BY <2>1, LenProperties
    <2>3. \A i, k \in 1..n : i < k => stageRank[m[i].to_state] < stageRank[m[k].to_state]
      BY <2>0, <2>1, <2>2 DEF PathOf
    <2>4. \A i \in 1..n : m[i].to_state \in Lifecycle
      <3>1. \A i \in 1..n : m[i] \in ArtifactEntry
        BY <2>1, <2>2, ElementOfSeq
      <3> QED
        BY <3>1 DEF ArtifactEntry
    <2>5. \A i \in 1..n : stageRank[m[i].to_state] \in 0..3
      BY <2>4, EdgesRise
    <2>6. ASSUME NEW i \in 1..n, NEW k \in 1..n, i # k
          PROVE  m[i].to_state # m[k].to_state
      <3>1. \/ stageRank[m[i].to_state] < stageRank[m[k].to_state]
            \/ stageRank[m[k].to_state] < stageRank[m[i].to_state]
        BY <2>3, <2>6
      <3> QED
        BY <2>5, <3>1
    <2> QED
      BY <2>0, <2>1, <2>2, <2>6 DEF PathOf, Last
  <1> QED
    BY <1>1, <1>2, <1>3

-----------------------------------------------------------------------------
(***************************************************************************)
(* The ledger.  Rows are only added, each numbered one above the last of   *)
(* its set.                                                                *)
(***************************************************************************)
LEMMA MaxOfInterval ==
    ASSUME NEW n \in Nat, NEW S, S = (1..n) \cup {0}
    PROVE  Max(S) = n
  <1>1. n \in S /\ \A y \in S : n >= y
    OBVIOUS
  <1>2. \A x \in S : (\A y \in S : x >= y) => x = n
    OBVIOUS
  <1> QED
    BY <1>1, <1>2 DEF Max

numbers(s) == {e.sequence : e \in entriesOf(s)}

\* The n rows of a set have the numbers 1..n.
NumberedTo(s, n) ==
    /\ n \in Nat
    /\ numbers(s) = 1..n
    /\ IsFiniteSet(entriesOf(s)) /\ Cardinality(entriesOf(s)) = n

\* The inductive invariant.
LedgerInv ==
    /\ LedgerTypeOK
    /\ \A s \in BudgetSets : \E n : NumberedTo(s, n)
    /\ \A e, f \in budget_ledger : e.event = f.event => e = f
    /\ \A e \in budget_ledger : inScope(e)

(***************************************************************************)
(* A row more keeps the numbers of its set without a gap, and those of the *)
(* other sets as they are.                                                 *)
(***************************************************************************)
LEMMA LedgerEntryKeeps ==
    ASSUME LedgerInv, NEW e \in Entry, InsertLedgerEntry(e)
    PROVE  LedgerInv'
  <1>1. /\ e.sequence = lastSequence(e.set) + 1 /\ inScope(e)
        /\ \A other \in budget_ledger : other.event # e.event
        /\ budget_ledger' = budget_ledger \cup {e}
        /\ e.set \in BudgetSets
    BY DEF InsertLedgerEntry, nextSequence, unposted, Entry
  <1>2. LedgerTypeOK'
    BY <1>1 DEF LedgerInv, LedgerTypeOK
  <1>3. \A d, f \in budget_ledger' : d.event = f.event => d = f
    BY <1>1 DEF LedgerInv
  <1>4. \A d \in budget_ledger' : inScope(d)'
    BY <1>1 DEF LedgerInv, inScope
  <1>5. ASSUME NEW s \in BudgetSets PROVE \E n : NumberedTo(s, n)'
    <2>1. PICK n \in Nat : NumberedTo(s, n)
      BY DEF LedgerInv, NumberedTo
    <2>2. CASE s # e.set
      <3>1. entriesOf(s)' = entriesOf(s)
        BY <1>1, <2>2 DEF entriesOf
      <3>2. numbers(s)' = numbers(s)
        BY <3>1 DEF numbers
      <3> QED
        BY <2>1, <3>1, <3>2 DEF NumberedTo
    <2>3. CASE s = e.set
      <3>1. entriesOf(s)' = entriesOf(s) \cup {e}
        BY <1>1, <2>3 DEF entriesOf
      <3>2. numbers(s)' = numbers(s) \cup {e.sequence}
        BY <3>1 DEF numbers
      <3>3. lastSequence(s) = n
        BY <2>1, MaxOfInterval DEF lastSequence, NumberedTo, numbers
      <3>4. e.sequence = n + 1
        BY <1>1, <2>3, <3>3
      <3>5. numbers(s)' = 1..(n + 1)
        BY <2>1, <3>2, <3>4 DEF NumberedTo
      <3>6. e \notin entriesOf(s)
        <4>1. e \in entriesOf(s) => n + 1 \in 1..n
          BY <2>1, <3>4 DEF numbers, NumberedTo
        <4> QED
          BY <4>1
      <3>7. IsFiniteSet(entriesOf(s)') /\ Cardinality(entriesOf(s)') = n + 1
        BY <2>1, <3>1, <3>6, FS_AddElement DEF NumberedTo
      <3>8. NumberedTo(s, n + 1)'
        BY <3>5, <3>7 DEF NumberedTo
      <3> QED
        BY <3>8
    <2> QED
      BY <2>2, <2>3
  <1> QED
    BY <1>2, <1>3, <1>4, <1>5 DEF LedgerInv

(***************************************************************************)
(* The ledger of every set stays numbered without a gap, and no charge is  *)
(* counted twice or against another task's budget.                         *)
(***************************************************************************)
THEOREM LedgersStayContiguous == LedgerSpec => [](LedgerTypeOK /\ LedgersContiguous)
  <1>1. LedgerInit => LedgerInv
    <2> SUFFICES ASSUME LedgerInit PROVE LedgerInv
      OBVIOUS
    <2>1. ASSUME NEW s \in BudgetSets PROVE NumberedTo(s, 0)
      <3>1. entriesOf(s) = {} /\ numbers(s) = {}
        BY DEF LedgerInit, entriesOf, numbers
      <3> QED
        BY <3>1, FS_EmptySet DEF NumberedTo
    <2> QED
      BY <2>1 DEF LedgerInit, LedgerInv, LedgerTypeOK
  <1>2. LedgerInv /\ [LedgerNext]_ledgerVars => LedgerInv'
    <2> SUFFICES ASSUME LedgerInv, [LedgerNext]_ledgerVars PROVE LedgerInv'
      OBVIOUS
    <2>1. CASE UNCHANGED ledgerVars
      <3>1. UNCHANGED budget_ledger
        BY <2>1 DEF ledgerVars
      <3> QED
        BY <3>1 DEF LedgerInv, LedgerTypeOK, NumberedTo, numbers, entriesOf, inScope
    <2>2. CASE LedgerNext
      BY <2>2, LedgerEntryKeeps DEF LedgerNext
    <2> QED
      BY <2>1, <2>2
  <1>3. LedgerInv => LedgerTypeOK /\ LedgersContiguous
    <2> SUFFICES ASSUME LedgerInv PROVE LedgerTypeOK /\ LedgersContiguous
      OBVIOUS
    <2>1. ASSUME NEW s \in BudgetSets
          PROVE  {e.sequence : e \in entriesOf(s)} = 1..Cardinality(entriesOf(s))
      BY DEF LedgerInv, NumberedTo, numbers
    <2>2. ASSUME NEW e \in budget_ledger, NEW f \in budget_ledger
          PROVE  /\ e.event = f.event => e = f
                 /\ taskOfSet[e.set] # taskOfSet[f.set] =>
                       /\ taskOfEvent[e.event] # taskOfEvent[f.event]
                       /\ e.usage = f.usage => e.usage = NoReference
      BY DEF LedgerInv, inScope
    <2> QED
      BY <2>1, <2>2 DEF LedgerInv, LedgersContiguous
  <1> QED
    BY <1>1, <1>2, <1>3, PTL DEF LedgerSpec

-----------------------------------------------------------------------------
(***************************************************************************)
(* The whole database.  A step of one group leaves the others as they are, *)
(* so that each group takes its own steps and no more.                     *)
(***************************************************************************)
LEMMA EachTakesItsSteps ==
    ASSUME [OneAtATime]_mcVars
    PROVE  /\ [ReservationNext]_reservationVars
           /\ [ArtifactNext]_artifactVars
           /\ [EffectNext]_effectVars
           /\ [LedgerNext]_ledgerVars
           /\ [BudgetNext]_budgetVars
           /\ [RunNext]_runVars
  <1>1. CASE UNCHANGED mcVars
    BY <1>1 DEF mcVars
  <1>2. CASE Only("reservations") /\ ReservationNext
    BY <1>2 DEF Only, runVars
  <1>3. CASE Only("artifacts") /\ ArtifactNext
    BY <1>3 DEF Only, runVars
  <1>4. CASE Only("effects") /\ EffectNext
    BY <1>4 DEF Only, runVars
  <1>5. CASE Only("ledgers") /\ LedgerNext
    BY <1>5 DEF Only, runVars
  <1>6. CASE Only("budget") /\ BudgetNext
    BY <1>6 DEF Only, runVars
  <1>7. CASE Only("admission") /\ AdmissionNext
    BY <1>7 DEF Only, RunNext
  <1>8. CASE Only("context") /\ ContextNext
    BY <1>8 DEF Only, RunNext
  <1>9. CASE Only("plans") /\ PlanNext
    BY <1>9 DEF Only, RunNext
  <1>10. CASE Only("recovery") /\ RecoveryNext
    BY <1>10 DEF Only, RunNext
  <1> QED
    BY <1>1, <1>2, <1>3, <1>4, <1>5, <1>6, <1>7, <1>8, <1>9, <1>10 DEF OneAtATime

(***************************************************************************)
(* Row and journal tell one story, of reservations and of artifacts.       *)
(***************************************************************************)
THEOREM JournalsStayTrue == MCSpec => []JournalsAgree
  <1>1. AllInit => ReservationInit /\ ArtifactInit
    BY DEF AllInit
  <1>2. [OneAtATime]_mcVars => [ReservationNext]_reservationVars /\ [ArtifactNext]_artifactVars
    BY EachTakesItsSteps
  <1>3. MCSpec => ReservationSpec
    BY <1>1, <1>2, PTL DEF MCSpec, ReservationSpec
  <1>4. MCSpec => []ArtifactInv
    BY <1>1, <1>2, ArtifactsFollow, PTL DEF MCSpec
  <1>5. ArtifactInv => MovesAreJournaled /\ MovesArePath
    BY ArtifactInvImplies
  <1>6. SettledOnce /\ SnapshotsAgree /\ MovesAreJournaled /\ MovesArePath => JournalsAgree
    BY DEF JournalsAgree
  <1> QED
    BY <1>3, <1>4, <1>5, <1>6, ReservationsSettleOnce, PTL

(***************************************************************************)
(* What is spent is counted once and exactly.                              *)
(***************************************************************************)
THEOREM BudgetsStayCounted == MCSpec => []BudgetsCounted
  <1>1. AllInit => LedgerInit /\ BudgetInit
    BY DEF AllInit
  <1>2. [OneAtATime]_mcVars => [LedgerNext]_ledgerVars /\ [BudgetNext]_budgetVars
    BY EachTakesItsSteps
  <1>3. MCSpec => LedgerSpec /\ BudgetSpec
    BY <1>1, <1>2, PTL DEF MCSpec, LedgerSpec, BudgetSpec
  <1>4. LedgersContiguous /\ GateExact => BudgetsCounted
    BY DEF BudgetsCounted
  <1> QED
    BY <1>3, <1>4, LedgersStayContiguous, BudgetGateExact, PTL

(***************************************************************************)
(* Every row of every table has its type, and what the tables tie together *)
(* by keys stays together: effects to what was approved, a run to its task.*)
(***************************************************************************)
THEOREM CatalogHoldsTogether ==
    MCSpec => [](AllTypesOK /\ OneRequestPerCall /\ SpentWithItsIntent /\ TasksStaySeparate)
  <1>1. AllInit => /\ ReservationInit /\ ArtifactInit /\ EffectInit /\ LedgerInit
                   /\ BudgetInit /\ RunInit
    BY DEF AllInit
  <1>2. [OneAtATime]_mcVars =>
           /\ [ReservationNext]_reservationVars /\ [ArtifactNext]_artifactVars
           /\ [EffectNext]_effectVars /\ [LedgerNext]_ledgerVars
           /\ [BudgetNext]_budgetVars /\ [RunNext]_runVars
    BY EachTakesItsSteps
  <1>3. MCSpec => /\ ReservationSpec /\ EffectSpec /\ LedgerSpec /\ BudgetSpec /\ RunSpec
                  /\ []ArtifactInv
    BY <1>1, <1>2, ArtifactsFollow, PTL
    DEF MCSpec, ReservationSpec, EffectSpec, LedgerSpec, BudgetSpec, RunSpec
  <1>4. EffectInv => EffectTypeOK
    BY DEF EffectInv
  <1>5. ArtifactInv => ArtifactTypeOK
    BY ArtifactInvImplies
  <1>6. /\ ReservationTypeOK /\ ArtifactTypeOK /\ EffectTypeOK /\ LedgerTypeOK
        /\ BudgetTypeOK /\ RunTypeOK
        => AllTypesOK
    BY DEF AllTypesOK
  <1> QED
    BY <1>3, <1>4, <1>5, <1>6, ReservationsSettleOnce, EffectInvariance, EffectsOfOneRequest,
       EffectsSpentOnce, LedgersStayContiguous, BudgetGateExact, RunsStaySeparate, PTL
=============================================================================
