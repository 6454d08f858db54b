---------------------------- MODULE PortDoubles ----------------------------
(***************************************************************************)
(* p0/src/testing: the scripted stand-ins for the provider, tool and       *)
(* verifier ports, and the errors of the ports.  A call runs to its end    *)
(* but for the sinks it gives signals to: code in a sink may call again,   *)
(* abort, reset or script anew.  Calls under way form a stack.  Doubles    *)
(* share no state: one of them is explored.                                *)
(***************************************************************************)
EXTENDS Naturals, Sequences, SequencesExt, FiniteSets

CONSTANTS
    MaxSignals,       \* bound on the signals of a script item
    MaxNesting,        \* bound on the calls under way
    MaxRecorded       \* bound on the calls on record

ASSUME PortBounds == {MaxSignals, MaxNesting, MaxRecorded} \subseteq Nat

VARIABLES
    port,             \* the double explored
    calls,            \* how many calls are on record
    script,           \* operation -> items left
    running,          \* calls under way, the innermost last
    answer,           \* the last call that ended
    given, taken      \* history: operation -> its script, and items taken of it

portVars == <<port, calls, script, running, answer, given, taken>>

Streaming == {"generate", "invoke"}

\* The ports' operations, and what a double has a script for.
ProviderPort == {"probe", "generate"}
ToolPort == {"invoke", "reconcile"}
VerifierPort == {"verify"}

operations == [provider |-> ProviderPort, tool |-> ToolPort, verifier |-> VerifierPort]

Operation == operations[port]

\* The codes the type lists, and those isPortError() finds in its table.
PortErrorCode ==
    {"unknown", "invalid_input", "not_found", "conflict", "forbidden", "timeout",
     "aborted"}
    \cup {"provider.unavailable", "provider.invalid_response", "provider.timeout",
          "provider.cancelled"}
    \cup {"tool.not_found", "tool.invalid_version", "tool.execution_failed",
          "tool.timeout", "tool.cancelled"}
    \cup {"policy.denied", "policy.approval_required", "policy.invalid_request"}
    \cup {"catalog.transaction_failed", "catalog.constraint_violation",
          "catalog.not_found"}
    \cup {"artifact.not_found", "artifact.invalid_digest", "artifact.quarantined",
          "artifact.size_exceeded"}
    \cup {"governance.bundle_not_found", "governance.bundle_expired",
          "governance.bundle_divergent"}
    \cup {"budget.insufficient", "budget.reservation_failed"}
    \cup {"verification.failed", "verification.timeout",
          "verification.evidence_missing"}

RetryValue == {"never", "safe", "ambiguous", "manual"}

VALID_CODES ==
    {"unknown", "invalid_input", "not_found", "conflict", "forbidden", "timeout",
     "aborted", "provider.unavailable", "provider.invalid_response",
     "provider.timeout", "provider.cancelled", "tool.not_found",
     "tool.invalid_version", "tool.execution_failed", "tool.timeout",
     "tool.cancelled", "policy.denied", "policy.approval_required",
     "policy.invalid_request", "catalog.transaction_failed",
     "catalog.constraint_violation", "catalog.not_found", "artifact.not_found",
     "artifact.invalid_digest", "artifact.quarantined", "artifact.size_exceeded",
     "governance.bundle_not_found", "governance.bundle_expired",
     "governance.bundle_divergent", "budget.insufficient",
     "budget.reservation_failed", "verification.failed", "verification.timeout",
     "verification.evidence_missing"}

VALID_RETRY == {"never", "safe", "ambiguous", "manual"}

error(code, retry) == [code |-> code, retry |-> retry]

isPortError(e) == e.code \in VALID_CODES /\ e.retry \in VALID_RETRY

Success == error("", "never")

\* What the author of a test scripts, or a sink answers: errors of the ports.
Scripted == {Success, error("tool.execution_failed", "manual")}
sinkError == error("conflict", "safe")

Item(op) == [signals : IF op \in Streaming THEN {0, MaxSignals} ELSE {0}, error : Scripted]

NoItem == [signals |-> 0, error |-> error("unknown", "never")]
NoAnswer == [how |-> "none", begun |-> FALSE, all |-> FALSE, error |-> Success]

PortTypeOK ==
    /\ port \in DOMAIN operations /\ calls \in 0..MaxRecorded
    /\ \A op \in Operation :
          script[op] \in Seq(Item(op)) /\ given[op] \in Seq(Item(op))
          /\ taken[op] \in Seq(Item(op))
    /\ \A i \in DOMAIN running :
          /\ running[i].op \in Streaming /\ running[i].item \in Item(running[i].op)
          /\ running[i].sent \in 0..running[i].item.signals
          /\ {running[i].aborted, running[i].inSink} \subseteq BOOLEAN

PortInit ==
    /\ port \in DOMAIN operations /\ calls = 0
    /\ script = [op \in Operation |-> <<>>]
    /\ running = <<>> /\ answer = NoAnswer
    /\ given = [op \in Operation |-> <<>>] /\ taken = [op \in Operation |-> <<>>]

-----------------------------------------------------------------------------
\* Code of a test runs while no call is under way, or in the innermost sink.
testRuns == IF running = <<>> THEN TRUE ELSE Last(running).inSink

\* Each call is put on record before anything else.
recordCall ==
    /\ testRuns /\ calls < MaxRecorded
    /\ calls' = calls + 1

answers(item, sent, how, e) ==
    answer' = [how |-> how, begun |-> sent > 0, all |-> sent = item.signals, error |-> e]

setScript(op, items) ==
    /\ testRuns
    /\ script' = [script EXCEPT ![op] = items]
    /\ given' = [given EXCEPT ![op] = items] /\ taken' = [taken EXCEPT ![op] = <<>>]
    /\ UNCHANGED <<port, calls, running, answer>>

resetDouble ==
    LET none == [op \in Operation |-> <<>>] IN
    /\ testRuns
    /\ calls' = 0 /\ script' = none /\ given' = none /\ taken' = none
    /\ UNCHANGED <<port, running, answer>>

takenOff(items) == Tail(items)

takes(op) ==
    /\ script' = [script EXCEPT ![op] = takenOff(@)]
    /\ taken' = [taken EXCEPT ![op] = Append(@, Head(script[op]))]
    /\ UNCHANGED given

\* The signal is looked at before the script is.
callAborted ==
    /\ recordCall
    /\ answers(NoItem, 0, "aborted", error("aborted", "never"))
    /\ UNCHANGED <<port, script, running, given, taken>>

callExhausted(op) ==
    /\ recordCall /\ script[op] = <<>>
    /\ answers(NoItem, 0, "exhausted", error("unknown", "never"))
    /\ UNCHANGED <<port, script, running, given, taken>>

\* probe(), reconcile(), verify().
callAnswered(op) ==
    /\ op \notin Streaming
    /\ recordCall /\ script[op] # <<>>
    /\ takes(op)
    /\ answers(Head(script[op]), 0, "scripted", Head(script[op]).error)
    /\ UNCHANGED <<port, running>>

\* generate(), invoke().
callStreams(op) ==
    /\ op \in Streaming
    /\ recordCall /\ script[op] # <<>>
    /\ Len(running) < MaxNesting
    /\ takes(op)
    /\ running' = Append(running, [op |-> op, item |-> Head(script[op]), sent |-> 0,
                                   aborted |-> FALSE, inSink |-> FALSE])
    /\ UNCHANGED <<port, answer>>

abort(i) ==
    /\ testRuns /\ i \in DOMAIN running
    /\ running' = [running EXCEPT ![i].aborted = TRUE]
    /\ UNCHANGED <<port, calls, script, answer, given, taken>>

current == Last(running)

ends(how, e) ==
    /\ answers(current.item, current.sent, how, e)
    /\ running' = Front(running)
    /\ UNCHANGED <<port, calls, script, given, taken>>

\* The loop over the signals: an abort is seen before the next signal only.
sendSignal ==
    /\ running # <<>> /\ ~current.inSink
    /\ current.sent < current.item.signals /\ ~current.aborted
    /\ running' = [running EXCEPT ![Len(running)].sent = @ + 1,
                                  ![Len(running)].inSink = TRUE]
    /\ UNCHANGED <<port, calls, script, answer, given, taken>>

stopAborted ==
    /\ running # <<>> /\ ~current.inSink
    /\ current.sent < current.item.signals /\ current.aborted
    /\ ends("stopped", error("aborted", "never"))

finish ==
    /\ running # <<>> /\ ~current.inSink
    /\ current.sent = current.item.signals
    /\ ends("scripted", current.item.error)

accept ==
    /\ running # <<>> /\ current.inSink
    /\ running' = [running EXCEPT ![Len(running)].inSink = FALSE]
    /\ UNCHANGED <<port, calls, script, answer, given, taken>>

refuse ==
    /\ running # <<>> /\ current.inSink
    /\ ends("refused", sinkError)

\* No item, or one that succeeds and one that fails.
Scripts(op) ==
    {<<>>} \cup {<<i, j>> : i \in {k \in Item(op) : k.error = Success},
                         j \in {k \in Item(op) : k.error # Success}}

PortNext ==
    \/ \E op \in Operation :
          \/ \E items \in Scripts(op) : setScript(op, items)
          \/ callExhausted(op) \/ callAnswered(op) \/ callStreams(op)
    \/ callAborted \/ resetDouble
    \/ \E i \in 1..MaxNesting : abort(i)
    \/ sendSignal \/ stopAborted \/ finish \/ accept \/ refuse

PortSpec == PortInit /\ [][PortNext]_portVars

-----------------------------------------------------------------------------
itemsTaken == UNION {{<<op, i>> : i \in DOMAIN taken[op]} : op \in Operation}

(***************************************************************************)
(* However calls nest, each item of a script is given to one call, in the  *)
(* order of the script, and to none that is not on record.                 *)
(***************************************************************************)
ItemsOnce ==
    /\ \A op \in Operation : taken[op] \o script[op] = given[op]
    /\ Cardinality(itemsTaken) <= calls

(***************************************************************************)
(* A call that answers from its script has sent all of the signals of its  *)
(* item; one aborted on the way had begun and not sent all; one refused    *)
(* had begun.  Every failure is an error of the ports, and a code is one   *)
(* for the compiler when it is one at run time (port-error.ts:22, 69).     *)
(***************************************************************************)
AnswersAreOwn ==
    /\ answer.how = "scripted" => answer.all
    /\ answer.how = "stopped" => answer.begun /\ ~answer.all
    /\ answer.how = "refused" => answer.begun
    /\ answer.error # Success => isPortError(answer.error)
    /\ VALID_CODES = PortErrorCode /\ VALID_RETRY = RetryValue
=============================================================================
