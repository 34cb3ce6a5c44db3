------------------------------ MODULE Evaluation ------------------------------
(***************************************************************************)
(* The two suites of evaluation_lab.py and what running one decides: which *)
(* documents are refused, which policy fails on which case, and the status *)
(* of the regression gate.                                                 *)
(*                                                                         *)
(* A closure suite is [id, mitigation, safeguard, cases] with cases        *)
(* [variant, children, close]; children is the set of their statuses.  A   *)
(* historical suite is [id, mechanisms, declared, cases] with cases        *)
(* [mechanism, kind, confidence, evidence, constraints, accept].           *)
(***************************************************************************)
EXTENDS Naturals, FiniteSets

----------------------------------------------------------------------------
(* What the loaders accept *)

ValidSpec(spec) ==
    /\ spec.target = "premature_parent_closure"
    /\ spec.terminal # {} /\ spec.blocking # {}
    /\ spec.terminal \cap spec.blocking = {}

\* The suite and the MitigationSpec name each other.
Registered(suite, spec) ==
    /\ spec.mitigation = suite.mitigation
    /\ spec.safeguard = suite.safeguard
    /\ suite.id \in spec.regressionCases

ValidClosureCases(suite) ==
    /\ suite.cases # {}
    /\ \A c \in suite.cases : c.children # {}
    /\ \A c, d \in suite.cases : c.variant = d.variant => c = d

\* One TRAP and one CONTROL per mechanism, and as many of each as declared; that a
\* TRAP is to be rejected is not asked.
ValidHistoricalCases(suite) ==
    /\ suite.mechanisms # {}
    /\ \A c \in suite.cases : c.mechanism \in suite.mechanisms /\ c.constraints # {}
    /\ \A m \in suite.mechanisms, kind \in {"TRAP", "CONTROL"} :
          Cardinality({c \in suite.cases : c.mechanism = m /\ c.kind = kind}) = 1
    /\ suite.declared = <<Cardinality(suite.mechanisms), Cardinality(suite.cases)>>

----------------------------------------------------------------------------
(* The policies *)

NaiveAnyDone(c) == "DONE" \in c.children

\* companion_mind.runtime.ClosureGuard
ClosureGuard(c, spec) == c.children \subseteq spec.terminal

ConfidenceOnly(c) == c.confidence = "HIGH"

ConstraintGate(c) == c.evidence = "SUPPORTED" /\ c.constraints = {"PASS"}

\* Correct per hundred.
Accuracy(failures, cases) ==
    (100 * (Cardinality(cases) - Cardinality(failures))) \div Cardinality(cases)

PassIf(condition) == IF condition THEN "PASS" ELSE "FAIL"

\* The baseline must be caught somewhere, the guard nowhere.
ClosureResult(suite, spec) ==
    LET baseline == {c \in suite.cases : NaiveAnyDone(c) # c.close}
        guard == {c \in suite.cases : ClosureGuard(c, spec) # c.close}
    IN  [baseline |-> Accuracy(baseline, suite.cases),
         treatment |-> Accuracy(guard, suite.cases),
         integration |-> PassIf(guard = {}),
         status |-> PassIf(baseline # {} /\ guard = {})]

Traps(suite) == {c \in suite.cases : ~c.accept}

\* As many baseline failures as traps, no failure of the gate, a trap and a control
\* for each mechanism.
HistoricalResult(suite) ==
    LET baseline == {c \in suite.cases : ConfidenceOnly(c) # c.accept}
        gate == {c \in suite.cases : ConstraintGate(c) # c.accept}
        traps == Cardinality(Traps(suite))
    IN  [baseline |-> Accuracy(baseline, suite.cases),
         treatment |-> Accuracy(gate, suite.cases),
         integration |-> "none",
         status |-> PassIf(/\ Cardinality(baseline) = traps /\ gate = {}
                           /\ traps = Cardinality(suite.cases) - traps
                           /\ traps = Cardinality(suite.mechanisms))]

----------------------------------------------------------------------------
(* A command names a kind of suite, a suite and {} or one MitigationSpec *)

\* BUILTIN_MITIGATION_SPEC, and the checked document.
CheckedSpec ==
    [target |-> "premature_parent_closure", mitigation |-> "MIT-CLOSURE-GUARD-001",
     safeguard |-> "CM-GUARD-001", regressionCases |-> {"EVAL-CASE-001"},
     terminal |-> {"CANCELLED", "DONE"},
     blocking |-> {"BLOCKED", "OPEN", "PENDING", "UNKNOWN", "WAITING"}]

SpecOf(command) ==
    IF command.spec = {} THEN CheckedSpec ELSE CHOOSE spec \in command.spec : TRUE

\* The historical suite neither consumes nor emits a MitigationSpec.
Evaluable(command) ==
    IF command.kind = "historical"
    THEN command.spec = {} /\ ValidHistoricalCases(command.suite)
    ELSE /\ ValidClosureCases(command.suite)
         /\ ValidSpec(SpecOf(command)) /\ Registered(command.suite, SpecOf(command))

Result(command) ==
    IF command.kind = "historical"
    THEN HistoricalResult(command.suite)
    ELSE ClosureResult(command.suite, SpecOf(command))

=============================================================================
