--------------------------- MODULE EffectCatalog ---------------------------
(***************************************************************************)
(* The tables of docs/implementation/persistence/p0_v1.sql that bind an    *)
(* external effect to what was decided and approved: policy_decisions,     *)
(* approval_grants, approval_uses, effect_intents, tool_results and        *)
(* effect_reconciliations.  One transaction is open at a time; its         *)
(* statements may come in any order, and it may be lost before COMMIT.     *)
(*                                                                         *)
(* Left out: the principal (a foreign key ties it to the task), the        *)
(* policy fingerprint and the nonce (tied to a decision and to a grant     *)
(* exactly as the request is), and columns no constraint relates.          *)
(***************************************************************************)
EXTENDS Naturals

CONSTANTS
    EffectTasks, EffectCalls, RequestFingerprints,
    DecisionIds, ApprovalIds, IntentIds,
    NoApproval

ASSUME NoApprovalAssumption == NoApproval \notin ApprovalIds

\* What every row about an effect repeats.
Binding == [task : EffectTasks, call : EffectCalls, request : RequestFingerprints]

Decision == [id : DecisionIds, of : Binding]
Grant == [id : ApprovalIds, decision : DecisionIds, of : Binding]
Intent == [id : IntentIds, decision : DecisionIds,
           approval : ApprovalIds \cup {NoApproval}, of : Binding]
Use == [approval : ApprovalIds, intent : IntentIds, of : Binding]
ToolResult == [intent : IntentIds, call : EffectCalls]
Reconciliation == [intent : IntentIds, task : EffectTasks, call : EffectCalls]

Tables == [decisions : SUBSET Decision, grants : SUBSET Grant,
           intents : SUBSET Intent, uses : SUBSET Use,
           results : SUBSET ToolResult, reconciliations : SUBSET Reconciliation]

VARIABLES
    committed,   \* the tables on disk
    tx,          \* the tables as the open transaction sees them
    inTx         \* a transaction is open

effectVars == <<committed, tx, inTx>>

EffectTypeOK ==
    /\ committed \in Tables
    /\ tx \in Tables
    /\ inTx \in BOOLEAN
    /\ ~inTx => tx = committed

NoRows == [decisions |-> {}, grants |-> {}, intents |-> {}, uses |-> {},
           results |-> {}, reconciliations |-> {}]

EffectInit == committed = NoRows /\ tx = NoRows /\ inTx = FALSE

-----------------------------------------------------------------------------
\* A composite foreign key: a row of that id with that very binding.
\* Mutant: the key leaves the request out.
references_AnyRequest(rows, id, of) ==
    \E row \in rows : /\ row.id = id
                      /\ row.of.task = of.task /\ row.of.call = of.call

references(rows, id, of) == \E row \in rows : row.id = id /\ row.of = of

newId(rows, id) == \A row \in rows : row.id # id
newCall(rows, call) == \A row \in rows : row.of.call # call

\* Triggers abort UPDATE and DELETE on all six tables: only INSERT is left.
inserts(table, row) ==
    /\ inTx
    /\ tx' = [tx EXCEPT ![table] = @ \cup {row}]
    /\ UNCHANGED <<committed, inTx>>

InsertDecision(d) ==
    /\ newId(tx.decisions, d.id) /\ newCall(tx.decisions, d.of.call)
    /\ inserts("decisions", d)

InsertGrant(g) ==
    /\ newId(tx.grants, g.id)
    /\ references(tx.decisions, g.decision, g.of)
    /\ inserts("grants", g)

InsertIntent(i) ==
    /\ newId(tx.intents, i.id) /\ newCall(tx.intents, i.of.call)
    /\ references(tx.decisions, i.decision, i.of)
    /\ i.approval # NoApproval => references(tx.grants, i.approval, i.of)
    /\ inserts("intents", i)

\* The key to effect_intents is deferred: COMMIT checks it.
InsertUse(u) ==
    /\ \A other \in tx.uses : other.approval # u.approval /\ other.intent # u.intent
    /\ references(tx.grants, u.approval, u.of)
    /\ inserts("uses", u)

InsertResult(r) ==
    /\ \A other \in tx.results : other.intent # r.intent /\ other.call # r.call
    /\ \E i \in tx.intents : i.id = r.intent /\ i.of.call = r.call
    /\ inserts("results", r)

InsertReconciliation(r) ==
    /\ \A other \in tx.reconciliations : other.intent # r.intent
    /\ \E i \in tx.intents :
          i.id = r.intent /\ i.of.task = r.task /\ i.of.call = r.call
    /\ inserts("reconciliations", r)

Begin ==
    /\ ~inTx /\ inTx' = TRUE
    /\ UNCHANGED <<committed, tx>>

\* Mutant: the deferred key is never checked.
deferredKeysHold_Never(tables) == TRUE

deferredKeysHold(tables) ==
    \A u \in tables.uses : references(tables.intents, u.intent, u.of)

\* A COMMIT that fails leaves the transaction open.
Commit ==
    /\ inTx /\ deferredKeysHold(tx)
    /\ committed' = tx /\ inTx' = FALSE
    /\ UNCHANGED tx

\* ROLLBACK, or a crash: nothing of the transaction stays.
Rollback ==
    /\ inTx /\ inTx' = FALSE
    /\ tx' = committed
    /\ UNCHANGED committed

Statement ==
    \/ \E d \in Decision : InsertDecision(d)
    \/ \E g \in Grant : InsertGrant(g)
    \/ \E i \in Intent : InsertIntent(i)
    \/ \E u \in Use : InsertUse(u)
    \/ \E r \in ToolResult : InsertResult(r)
    \/ \E r \in Reconciliation : InsertReconciliation(r)

EffectNext == Begin \/ Statement \/ Commit \/ Rollback

EffectSpec == EffectInit /\ [][EffectNext]_effectVars

-----------------------------------------------------------------------------
bindings(tables) ==
    {row.of : row \in tables.decisions \cup tables.grants
                      \cup tables.intents \cup tables.uses}

(***************************************************************************)
(* Whatever is committed about a call is about one task and one request:   *)
(* the decision, the approvals, their use, the intent, its result and its  *)
(* reconciliation, however transactions were cut.  An approval given for   *)
(* one request can not carry an effect of another.                         *)
(***************************************************************************)
OneRequestPerCall ==
    /\ \A x, y \in bindings(committed) : x.call = y.call => x = y
    /\ \A r \in committed.results :
          \E i \in committed.intents : i.id = r.intent /\ i.of.call = r.call
    /\ \A r \in committed.reconciliations :
          \E i \in committed.intents : i.id = r.intent /\ i.of.task = r.task

(***************************************************************************)
(* A crash never leaves a spent approval without its effect: each use on   *)
(* disk has one intent, of its own request, and no approval or intent has  *)
(* two uses.                                                               *)
(***************************************************************************)
SpentWithItsIntent ==
    \A u \in committed.uses :
        /\ \E i \in committed.intents : i.id = u.intent /\ i.of = u.of
        /\ \A v \in committed.uses \ {u} :
              v.approval # u.approval /\ v.intent # u.intent
=============================================================================
