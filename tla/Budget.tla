------------------------------- MODULE Budget -------------------------------
(***************************************************************************)
(* p0/src/domain/budget.ts: the accounting of one unit of a budget, in     *)
(* numbers that are exact only up to MAX_SAFE_INTEGER.  A value that is    *)
(* not an integer (a fraction, NaN, Infinity) is a member of NotIntegers.  *)
(* The table of what was charged, budget_ledger, follows it.               *)
(***************************************************************************)
EXTENDS Integers, FiniteSets, FiniteSetsExt

CONSTANTS
    MAX_SAFE_INTEGER,
    Amounts,          \* the numbers a caller may pass
    NotIntegers,
    InvalidBudget     \* InvalidBudgetError was thrown

ASSUME MaxSafeAssumption == MAX_SAFE_INTEGER \in Nat
ASSUME AmountsAssumption == Amounts \subseteq Int \cup NotIntegers
ASSUME NotIntegersAssumption == NotIntegers \cap Int = {}

Safe == 0..MAX_SAFE_INTEGER

BudgetState ==
    [hardLimit : Safe, confirmed : Safe, reserved : Safe, possibleOverage : Safe,
     accounted : Safe, remaining : Safe,
     decision : {"can_start", "hard_limit_reached"}]

ASSUME InvalidAssumption == InvalidBudget \notin BudgetState

VARIABLE budget    \* what the last call returned

budgetVars == <<budget>>

BudgetTypeOK == budget \in BudgetState \cup {InvalidBudget}

BudgetInit == budget = InvalidBudget

-----------------------------------------------------------------------------
validateNonNegativeSafeInteger(value) ==
    value \notin NotIntegers /\ value >= 0 /\ value <= MAX_SAFE_INTEGER

\* a > MAX_SAFE_INTEGER - b throws.
canAdd(a, b) == a <= MAX_SAFE_INTEGER - b

accounted(confirmed, reserved) == confirmed + reserved

decisionOf(hardLimit, total) ==
    IF total >= hardLimit THEN "hard_limit_reached" ELSE "can_start"

remainingOf(hardLimit, total) == IF total < hardLimit THEN hardLimit - total ELSE 0

computeBudget(hardLimit, confirmed, reserved, possibleOverage) ==
    IF /\ \A v \in {hardLimit, confirmed, reserved, possibleOverage} :
             validateNonNegativeSafeInteger(v)
       /\ canAdd(confirmed, reserved)
    THEN LET total == accounted(confirmed, reserved) IN
         [hardLimit |-> hardLimit, confirmed |-> confirmed, reserved |-> reserved,
          possibleOverage |-> possibleOverage, accounted |-> total,
          remaining |-> remainingOf(hardLimit, total),
          decision |-> decisionOf(hardLimit, total)]
    ELSE InvalidBudget

Compute ==
    \E hardLimit, confirmed, reserved, possibleOverage \in Amounts :
        budget' = computeBudget(hardLimit, confirmed, reserved, possibleOverage)

BudgetNext == Compute

BudgetSpec == BudgetInit /\ [][BudgetNext]_budgetVars

-----------------------------------------------------------------------------
(***************************************************************************)
(* An answer is exact, and starts an operation just when something is left *)
(* of the limit, whatever possible overage is on record.                   *)
(***************************************************************************)
GateExact ==
    budget # InvalidBudget =>
        /\ budget.accounted = budget.confirmed + budget.reserved
        /\ budget.accounted <= MAX_SAFE_INTEGER
        /\ budget.decision = "can_start" <=> budget.remaining > 0
        /\ budget.remaining > 0 =>
              budget.accounted + budget.remaining = budget.hardLimit

-----------------------------------------------------------------------------
(***************************************************************************)
(* The table budget_ledger of docs/implementation/persistence/p0_v1.sql:   *)
(* entries numbered per budget set, guarded by a trigger on INSERT.  The   *)
(* events, reservations and usage records an entry names are rows that are *)
(* there already and never change: they are constants.                     *)
(***************************************************************************)
CONSTANTS
    BudgetSets,
    LedgerEvents, LedgerReservations, LedgerUsages,
    taskOfSet, taskOfEvent, setOfReservation, taskOfUsage,
    EntryFingerprints,
    MaxSequence,      \* bound on the entries of one set
    NoReference       \* the value of a NULL column

ASSUME MaxSequenceAssumption == MaxSequence \in Nat
ASSUME NoReferenceAssumption == NoReference \notin LedgerReservations \cup LedgerUsages

Entry == [set : BudgetSets, sequence : 1..MaxSequence, event : LedgerEvents,
          reservation : LedgerReservations \cup {NoReference},
          usage : LedgerUsages \cup {NoReference},
          fingerprint : EntryFingerprints]

VARIABLE budget_ledger    \* the rows of the table

ledgerVars == <<budget_ledger>>

LedgerTypeOK == budget_ledger \in SUBSET Entry

LedgerInit == budget_ledger = {}

-----------------------------------------------------------------------------
entriesOf(s) == {e \in budget_ledger : e.set = s}

\* COALESCE(MAX(sequence), 0)
lastSequence(s) == Max({e.sequence : e \in entriesOf(s)} \cup {0})

\* Mutant: any greater number will do.
nextSequence_Greater(e) == e.sequence > lastSequence(e.set)

nextSequence(e) == e.sequence = lastSequence(e.set) + 1

\* The event and the usage are of the set's task, the reservation of the set.
inScope(e) ==
    /\ taskOfEvent[e.event] = taskOfSet[e.set]
    /\ e.reservation # NoReference => setOfReservation[e.reservation] = e.set
    /\ e.usage # NoReference => taskOfUsage[e.usage] = taskOfSet[e.set]

\* The UNIQUE columns.
unposted(e) ==
    \A other \in budget_ledger :
        other.event # e.event /\ other.fingerprint # e.fingerprint

InsertLedgerEntry(e) ==
    /\ nextSequence(e) /\ inScope(e) /\ unposted(e)
    /\ budget_ledger' = budget_ledger \cup {e}

LedgerNext == \E e \in Entry : InsertLedgerEntry(e)

LedgerSpec == LedgerInit /\ [][LedgerNext]_ledgerVars

-----------------------------------------------------------------------------
(***************************************************************************)
(* The ledger of each set is numbered 1..n without a gap or a repetition,  *)
(* and an event is posted to one set only, the set of its own task, so     *)
(* that no charge is counted twice or against another budget.              *)
(***************************************************************************)
LedgersContiguous ==
    /\ \A s \in BudgetSets :
          {e.sequence : e \in entriesOf(s)} = 1..Cardinality(entriesOf(s))
    /\ \A e, f \in budget_ledger :
          /\ e.event = f.event => e = f
          /\ taskOfSet[e.set] # taskOfSet[f.set] =>
                /\ taskOfEvent[e.event] # taskOfEvent[f.event]
                /\ e.usage = f.usage => e.usage = NoReference

=============================================================================
