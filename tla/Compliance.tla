----------------------------- MODULE Compliance -----------------------------
(***************************************************************************)
(* packages/compliance: the registry of controls, the score of a framework *)
(* and the chain of evidence.  Of a control only its framework and status  *)
(* matter to the score, so the registry is how many there are of each.     *)
(* The registry hands out the records it keeps: a caller changes a status, *)
(* or the content of a piece of evidence, by assigning it.                 *)
(***************************************************************************)
EXTENDS Integers, Sequences, FiniteSets

CONSTANTS
    MaxRegistered,      \* bound on the controls registered after the defaults
    MaxEvidence         \* bound on the pieces of evidence collected

ASSUME ComplianceAssumption == {MaxRegistered, MaxEvidence} \subseteq Nat

Frameworks == {"SOC2", "LGPD", "HIPAA", "GDPR"}

ControlStatus == {"missing", "partial", "implemented", "not_applicable"}

VARIABLES
    scored,             \* the controls the calculator was given, by status
    unscored,           \* those registered since
    evidence,           \* in the order of the chain: [content, hash, previous]
    registrations       \* controls registered so far

complianceVars == <<scored, unscored, evidence, registrations>>

Controls == [Frameworks -> [ControlStatus -> Nat]]

Genesis == <<0, "">>    \* the previousHash of the first link

ComplianceTypeOK ==
    /\ scored \in Controls
    /\ unscored \in Controls
    /\ registrations \in 0..MaxRegistered
    /\ Len(evidence) \in 0..MaxEvidence

-----------------------------------------------------------------------------
Statuses(missing, implemented, none) ==
    [missing |-> missing, partial |-> 0,
     implemented |-> implemented, not_applicable |-> none]

soc2Controls == Statuses(13, 0, 2)

lgpdControls == Statuses(13, 2, 0)

hipaaControls == Statuses(17, 0, 1)

noControls == [f \in Frameworks |-> Statuses(0, 0, 0)]

createDefaultRegistry ==
    [SOC2 |-> soc2Controls, LGPD |-> lgpdControls, HIPAA |-> hipaaControls,
     GDPR |-> Statuses(0, 0, 0)]

ComplianceInit ==
    /\ scored = createDefaultRegistry
    /\ unscored = noControls
    /\ evidence = <<>>
    /\ registrations = 0

-----------------------------------------------------------------------------
\* The controls of a framework: a status, and a number among those that have it.
frameworkControls(f) == UNION {{s} \X (1..scored[f][s]) : s \in ControlStatus}

\* Mutant: a control that does not apply counts against the framework.
applicable_All(f) == Cardinality(frameworkControls(f))

applicable(f) == Cardinality({c \in frameworkControls(f) : c[1] # "not_applicable"})

\* In hundredths: Math.round(rawScore * 100).
score(f) ==
    IF applicable(f) = 0 THEN 0
    ELSE LET points == 100 * scored[f]["implemented"] + 50 * scored[f]["partial"]
             total == applicable(f)
         IN  (200 * points + total) \div (2 * total)

getLevel(hundredths) ==
    CASE hundredths >= 9000 -> "A"
      [] hundredths \in 7500..8999 -> "B"
      [] hundredths \in 6000..7499 -> "C"
      [] hundredths \in 4000..5999 -> "D"
      [] OTHER -> "F"

level(f) == getLevel(score(f))

statistics(f) == [s \in ControlStatus |-> scored[f][s] + unscored[f][s]]

-----------------------------------------------------------------------------
\* The calculator keeps the list it was made with: what is registered later
\* is not in it.
registerControl(f, status) ==
    /\ registrations < MaxRegistered
    /\ unscored' = [unscored EXCEPT ![f][status] = @ + 1]
    /\ registrations' = registrations + 1
    /\ UNCHANGED <<scored, evidence>>

newCalculator ==
    /\ scored' = [f \in Frameworks |-> statistics(f)]
    /\ unscored' = noControls
    /\ UNCHANGED <<evidence, registrations>>

\* The list shares its records with the registry.
Assess(f, from, to) ==
    /\ scored[f][from] > 0
    /\ scored' = [scored EXCEPT ![f][from] = @ - 1, ![f][to] = @ + 1]
    /\ UNCHANGED <<unscored, evidence, registrations>>

-----------------------------------------------------------------------------
\* A fresh identifier in every hash: the position stands for it.
hashOf(i, content) == <<i, content>>

collect(content) ==
    LET i == Len(evidence) + 1 IN
    /\ i <= MaxEvidence
    /\ evidence' = Append(evidence,
            [content |-> content, hash |-> hashOf(i, content),
             previous |-> IF i = 1 THEN Genesis ELSE evidence[i - 1].hash])
    /\ UNCHANGED <<scored, unscored, registrations>>

Rewrite(i, content) ==
    /\ evidence' = [evidence EXCEPT ![i].content = content]
    /\ UNCHANGED <<scored, unscored, registrations>>

verifyChain ==
    \A i \in DOMAIN evidence :
        /\ hashOf(i, evidence[i].content) = evidence[i].hash
        /\ i > 1 => evidence[i].previous = evidence[i - 1].hash

-----------------------------------------------------------------------------
ComplianceNext ==
    \/ \E f \in Frameworks :
        /\ \A g \in Frameworks \ {f} :
              scored[g] = createDefaultRegistry[g] /\ unscored[g] = noControls[g]
        /\ evidence = <<>>
        /\ \/ \E s \in ControlStatus : registerControl(f, s)
           \/ \E s, t \in ControlStatus : s # t /\ Assess(f, s, t)
    \/ newCalculator
    \/ /\ scored = createDefaultRegistry
       /\ \/ \E content \in {"log", "policy"} : collect(content)
          \/ \E i \in DOMAIN evidence, content \in {"log", "policy"} :
                Rewrite(i, content)

(***************************************************************************)
(* The controls counted under the three statuses of a score are its total, *)
(* a score is within its scale, and a framework is graded "A" only when at *)
(* most 20.01% of its applicable controls are not fully implemented (a     *)
(* fifth, and what rounding to hundredths before grading adds): what does  *)
(* not apply weighs on neither side (score-calculator.ts:12).  The chain   *)
(* of evidence verifies exactly while every piece is as it was collected   *)
(* (evidence-collector.ts:51).                                             *)
(***************************************************************************)
ScoresAddUp ==
    /\ \A f \in Frameworks :
        LET given == scored[f]
            total == applicable(f)
        IN  /\ total = given["implemented"] + given["partial"] + given["missing"]
            /\ score(f) \in 0..10000
            /\ level(f) = "A" => 10000 * (given["partial"] + given["missing"]) <= 2001 * total
    /\ verifyChain <=>
        \A i \in DOMAIN evidence : evidence[i].hash[2] = evidence[i].content
=============================================================================
