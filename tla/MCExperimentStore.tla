--------------------------- MODULE MCExperimentStore ---------------------------
(* Instances of ExperimentStore for TLC. *)
EXTENDS ExperimentStore

CONSTANT r1

OneReader == {r1}

Case(kind, confidence, evidence, constraints, accept) ==
    [mechanism |-> "m", kind |-> kind, confidence |-> confidence, evidence |-> evidence,
     constraints |-> constraints, accept |-> accept]

Benchmark(trap, control) ==
    [id |-> "bench", mechanisms |-> {"m"}, declared |-> <<1, 2>>, cases |-> {trap, control}]

Control == Case("CONTROL", "HIGH", "SUPPORTED", {"PASS"}, TRUE)

\* The baseline falls into the trap, the gate does not.
Caught == Benchmark(Case("TRAP", "HIGH", "SUPPORTED", {"PASS", "UNKNOWN"}, FALSE), Control)
\* The trap misleads neither.
Missed == Benchmark(Case("TRAP", "LOW", "CONTRADICTED", {"PASS"}, FALSE), Control)
\* The baseline accepts no trap and refuses the control: one failure, one trap.
Mislabelled == Benchmark(Case("TRAP", "LOW", "CONTRADICTED", {"PASS"}, FALSE),
                         [Control EXCEPT !.confidence = "LOW"])
\* Two traps and no control.
Unpaired == Benchmark(Case("TRAP", "HIGH", "UNKNOWN", {"PASS"}, FALSE),
                      Case("TRAP", "HIGH", "NOT_LOADED", {"PASS"}, FALSE))

Closure(last) ==
    [id |-> "EVAL-CASE-001", mitigation |-> "MIT-CLOSURE-GUARD-001", safeguard |-> "CM-GUARD-001",
     cases |-> {[variant |-> 1, children |-> {"DONE", "OPEN"}, close |-> FALSE],
                [variant |-> 2, children |-> {"DONE", last}, close |-> TRUE]}]

Historical(suite) ==
    [kind |-> "historical", suite |-> suite, spec |-> {}, stores |-> TRUE, run |-> 1,
     padded |-> FALSE, git |-> "sha", reports |-> TRUE, allows |-> FALSE]

OfClosure(suite, spec) == [Historical(suite) EXCEPT !.kind = "closure", !.spec = spec]

Commands == {
    Historical(Caught),
    [OfClosure(Closure("CANCELLED"), {}) EXCEPT !.run = 1],
    \* the guard waits for ever: integration and regression fail
    [OfClosure(Closure("WAITING"), {}) EXCEPT !.run = 2],
    [Historical(Missed) EXCEPT !.run = 3, !.allows = TRUE, !.reports = FALSE],
    [Historical(Caught) EXCEPT !.run = 4, !.padded = TRUE],
    [Historical(Mislabelled) EXCEPT !.run = 4],
    [Historical(Missed) EXCEPT !.run = 5, !.git = "unknown"],
    [Historical(Unpaired) EXCEPT !.run = 6],
    [OfClosure(Closure("DONE"), {[CheckedSpec EXCEPT !.safeguard = "CM-GUARD-002"]}) EXCEPT
        !.stores = FALSE],
    [OfClosure(Closure("DONE"), {CheckedSpec}) EXCEPT !.stores = FALSE]}

=============================================================================
