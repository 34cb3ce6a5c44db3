----------------------------- MODULE BM0Contract -----------------------------
(***************************************************************************)
(* The measurement contract of b2/bm0.py: documents that name one another  *)
(* by fingerprint (fixtures and their QA result, target matrix, metric     *)
(* registry, corpus policy, candidate budget, manifest template, contract),*)
(* the developer receipt built from them and the claims it allows.         *)
(*                                                                         *)
(* Maintainers edit one file at a time, so between two edits the files     *)
(* disagree; a receipt is built from two reads, the artifacts loaded as    *)
(* bound and the documents passed beside them.                             *)
(*                                                                         *)
(* A document's own fingerprint field ("stamp") is the body it was         *)
(* computed from; the fingerprint of a file is the file.                   *)
(***************************************************************************)
EXTENDS BM0Manifest, Functions

CONSTANTS
    Lineage,        \* per entry: the approved family, cases and bindings
    Original,       \* the documents the repository starts with
    Edits,          \* per document: what an edit may make of it
    MaxEdits, MaxChanges        \* bounds: edits; edits and the updates after them

VARIABLES
    repo,           \* the documents in the repository
    bound,          \* bound_artifacts as last loaded, or None
    issued,         \* the developer receipt, or None
    asserted,       \* claims allowed, each with its receipt
    edits, changes  \* counters of the bounds

contractVars == <<repo, bound, issued, asserted, edits, changes>>

Bound == {"code", "fixture", "result", "matrix", "registry", "corpus", "candidates", "template"}

Body(d) == [f \in DOMAIN d \ {"stamp"} |-> d[f]]
Stamped(d) == d.stamp = Body(d)
Stamp(d) == [d EXCEPT !.stamp = Body(d)]

(***************************************************************************)
(* The target matrix and the canonical cases it descends from              *)
(***************************************************************************)
Classes == DefaultClasses \cup {"AGENT_STANDARDIZED", "SYSTEM_EVAL_ONLY"}

\* What each class may say of its comparability today.
ClassState(c) ==
    IF c \in DefaultClasses THEN "DEFAULT_COMPARABLE"
    ELSE IF c = "AGENT_STANDARDIZED" THEN "WAIT_SANDBOX_EQUIVALENCE" ELSE "SYSTEM_ONLY"

ValidTarget(t, e) ==
    /\ t.class = ClassOf[e]
    /\ t.lineage = Lineage[e]
    /\ t.state = ClassState(t.class)

ValidMatrix(d) ==
    /\ d.default = DefaultClasses
    /\ d.classes = [c \in Classes |-> ClassState(c)]
    /\ DOMAIN d.targets = Entry
    /\ \A e \in Entry : ValidTarget(d.targets[e], e)
    /\ d.sandbox = "NOT_ESTABLISHED"
    /\ Stamped(d)

\* The cases of the fixture that belong to the family of an entry.
CanonicalCases(d, b, e) == {c \in b.fixture.cases : c.family = d.targets[e].lineage.family}

\* The QA result behind the fixture passed, and passed on these very cases.
Certified(d, b, e) ==
    /\ b.result.gate = "PASS"
    /\ CanonicalCases(d, b, e) \subseteq b.result.cases
    /\ d.targets[e].lineage.family \in b.result.families

ValidLineage(d, b) ==
    /\ ValidMatrix(d)
    /\ \A e \in Entry :
          LET pair == CanonicalCases(d, b, e) IN
          /\ Cardinality(pair) = 2
          /\ {c.case : c \in pair} = d.targets[e].lineage.cases
          /\ {c.variant : c \in pair} = {"KNOWN_BAD", "CONTROL"}
          /\ Certified(d, b, e)
    /\ \A e, f \in Entry :
          e # f => d.targets[e].lineage.cases \cap d.targets[f].lineage.cases = {}

(***************************************************************************)
(* The metric registry: which terminals each metric counts                 *)
(***************************************************************************)
ModelTerminals == {"PASS", "FAIL", "UNKNOWN"}
Terminals == ModelTerminals \cup {"NOT_EVALUABLE", "BLOCKED", "ERROR"}
ModelClasses == Classes \ {"SYSTEM_EVAL_ONLY"}

Rule(classes, numerator, denominator, excluded) ==
    [classes |-> classes, numerator |-> numerator, denominator |-> denominator,
     excluded |-> excluded]

ModelRule(classes) ==
    Rule(classes, {"FAIL", "UNKNOWN"}, ModelTerminals, Terminals \ ModelTerminals)

Rules ==
    [model_failure_rate |-> ModelRule(DefaultClasses),
     sandboxed_agent_failure_rate |-> ModelRule({"AGENT_STANDARDIZED"}),
     case_failure_probability |-> ModelRule(ModelClasses),
     family_conditional_failure_rate |-> ModelRule(ModelClasses),
     control_false_positive_rate |-> ModelRule(ModelClasses),
     within_case_instability |->
        [ModelRule(ModelClasses) EXCEPT !.numerator = ModelTerminals],
     system_invariant_failure_rate |->
        Rule({"SYSTEM_EVAL_ONLY"}, {"FAIL"}, {"PASS", "FAIL"}, Terminals \ {"PASS", "FAIL"}),
     non_scorable_attempt_rate |-> Rule(Classes, Terminals \ {"PASS", "FAIL"}, Terminals, {}),
     infrastructure_error_rate |-> Rule(Classes, {"ERROR"}, Terminals, {}),
     terminal_distribution |-> Rule(Classes, Terminals, Terminals, {})]

ValidRegistry(d) ==
    /\ DOMAIN d.metrics = DOMAIN Rules
    /\ \A m \in DOMAIN d.metrics :
          /\ d.metrics[m].numerator \subseteq d.metrics[m].denominator
          /\ d.metrics[m].denominator \cap d.metrics[m].excluded = {}
          /\ d.metrics[m] = Rules[m]
    /\ Stamped(d)

(***************************************************************************)
(* The corpus policy: only the hidden pool is estimated from, and it is    *)
(* committed before the manifest is frozen and opened after                *)
(***************************************************************************)
HiddenAccessSequence == <<"COMMIT", "FREEZE", "AUTHORIZE", "OPEN", "LOG">>

ValidCorpusPolicy(d) ==
    /\ d.estimated = [p \in Pools |-> p = "HIDDEN"]
    /\ \A rule \in DOMAIN d.split : d.split[rule]
    /\ d.access = HiddenAccessSequence
    /\ d.published = {}
    /\ d.controlled
    /\ Stamped(d)

(***************************************************************************)
(* The candidate roster and its budget: an estimate with no authority,     *)
(* recomputed from the prices and volumes it states                        *)
(***************************************************************************)
Providers(S) == {x.provider : x \in S}

ValidSources(d) ==
    /\ Cardinality(Providers(d.sources)) >= 3
    /\ \A s \in d.sources : s.day = d.day /\ Stamped(s)
    /\ \A s, t \in d.sources : s.id = t.id => s = t

ValidRoster(d) ==
    /\ Cardinality(DOMAIN d.roster) >= 3
    /\ \A c \in DOMAIN d.roster :
          /\ d.roster[c].selection = "NOT_SELECTED"
          /\ d.roster[c].input > 0 /\ d.roster[c].output > 0
          /\ \E s \in d.sources : /\ s.id = d.roster[c].source
                                  /\ s.provider = d.roster[c].provider
    /\ \A c, k \in DOMAIN d.roster :
          d.roster[c].provider = d.roster[k].provider /\ d.roster[c].model = d.roster[k].model
              => c = k

Cost(d, c) ==
    d.calls * (d.inputTokens * d.roster[c].input + d.outputTokens * d.roster[c].output)

Total(costs) == FoldFunction(LAMBDA x, y : x + y, 0, costs)

\* Within the bounded pilot: 2 to 8 cases per entry, 2 to 5 replicates.
\* Defect: the copied estimates are summed and not recomputed.
ValidBudgetSummed(d) ==
    /\ d.cases \in 2..8 /\ d.replicates \in 2..5
    /\ d.calls = d.entries * d.cases * d.replicates
    /\ DOMAIN d.estimates = DOMAIN d.roster
    /\ d.total = Total(d.estimates)
    /\ d.authority = "NONE"
ValidBudget(d) ==
    /\ d.cases \in 2..8 /\ d.replicates \in 2..5
    /\ d.calls = d.entries * d.cases * d.replicates
    /\ d.estimates = [c \in DOMAIN d.roster |-> Cost(d, c)]
    /\ d.total = Total(d.estimates)
    /\ d.authority = "NONE"

ValidCandidates(d) == ValidSources(d) /\ ValidRoster(d) /\ ValidBudget(d) /\ Stamped(d)

(***************************************************************************)
(* The contract: its core, and a binding to every artifact                 *)
(***************************************************************************)
AllowedClaims == {"OFFLINE_CONTRACT_VALIDATED", "READY_FOR_CI_AND_QA"}
ForbiddenClaims == {"BM0_GREEN", "MODEL_RANKING"}

\* The core leaves the bindings out: the template names the core and the
\* bindings name the template.
Core(c) == [f \in DOMAIN c \ {"bindings", "stamp"} |-> c[f]]

ClassCounts == [c \in Classes |-> Cardinality({e \in Entry : ClassOf[e] = c})]

TerminalContract ==
    [t \in Terminals |->
        IF t = "UNKNOWN" THEN [denominator |-> None, numerator |-> None]
        ELSE [denominator |-> t \in {"PASS", "FAIL"}, numerator |-> t = "FAIL"]]

\* The terms of measurement: targets, terminals and the denominator.
MeasurementTerms(c) ==
    /\ c.targets = ClassCounts
    /\ c.terminals = TerminalContract
    /\ c.denominator = Rules.model_failure_rate

\* The terms of authority: a frozen plan, two blinded humans, a claim ceiling,
\* and nothing selected, run or promoted.
AuthorityTerms(c, b) ==
    /\ c.plan.frozen
    /\ c.primaries = 2
    /\ c.candidates = Cardinality(DOMAIN b["candidates"].roster)
    /\ c.ceiling = [allowed |-> AllowedClaims, forbidden |-> ForbiddenClaims]
    /\ c.green = "NOT_EVALUATED" /\ c.roster = "NOT_SELECTED"

ContractFields ==
    {"targets", "terminals", "denominator", "plan", "primaries", "candidates", "ceiling",
     "green", "roster", "note", "bindings", "stamp"}

ValidContract(c, b) ==
    /\ DOMAIN c = ContractFields
    /\ DOMAIN c.bindings = Bound /\ DOMAIN b = Bound
    /\ \A a \in Bound : c.bindings[a] = b[a]
    /\ ValidCandidates(b.candidates)
    /\ ValidLineage(b.matrix, b)
    /\ MeasurementTerms(c) /\ AuthorityTerms(c, b)
    /\ Stamped(c)

(***************************************************************************)
(* The developer receipt                                                   *)
(***************************************************************************)
\* The fingerprints the manifest template must state, from the documents x.
ManifestArtifacts(x) ==
    [core |-> Core(x.contract), matrix |-> Body(x.matrix), registry |-> Body(x.registry),
     corpus |-> Body(x.corpus), plan |-> x.contract.plan,
     implementation |-> x.contract.bindings["code"]]

\* The documents passed beside the bound artifacts are the bound ones.
\* Defect: only their own validity is checked.
CrossWired(x, b) == TRUE
SuppliedAreBound(x, b) ==
    \A a \in {"matrix", "registry", "corpus", "template"} : b[a] = x[a]

\* FALSE where build_bm0_receipt raises.
Buildable(x, b) ==
    /\ ValidMatrix(x.matrix) /\ ValidRegistry(x.registry) /\ ValidCorpusPolicy(x.corpus)
    /\ ValidContract(x.contract, b)
    /\ SuppliedAreBound(x, b)
    /\ ValidAgainst(x.template, ManifestArtifacts(x)) /\ Stamped(x.template)

ReceiptOf(x) ==
    Stamp([artifacts |-> x.contract.bindings, contract |-> Body(x.contract),
           state |-> x.template.state, planned |-> x.template.plannedCount,
           gate |-> "PASS", green |-> FALSE, stamp |-> None])

\* What a receipt may not overstate.  Its fingerprints are only well-formed.
ValidReceipt(r) ==
    /\ r.state = "DESIGN_ONLY" /\ r.planned = 0
    /\ r.gate = "PASS" /\ ~r.green
    /\ DOMAIN r.artifacts = Bound
    /\ Stamped(r)

ClaimAllowed(code, r) ==
    ValidReceipt(r) /\ code \notin ForbiddenClaims /\ code \in AllowedClaims

(***************************************************************************)
(* The maintainers' steps                                                  *)
(***************************************************************************)
ContractInit ==
    /\ repo = Original /\ bound = None /\ issued = None /\ asserted = {}
    /\ edits = 0 /\ changes = 0

Change(a, d) ==
    /\ changes < MaxChanges /\ d # repo[a]
    /\ repo' = [repo EXCEPT ![a] = d]
    /\ changes' = changes + 1
    /\ UNCHANGED <<bound, issued, asserted>>

Edit ==
    /\ edits < MaxEdits
    /\ edits' = edits + 1
    /\ \E a \in DOMAIN Edits : \E d \in Edits[a] : Change(a, d)

\* The QA run behind a fixture is repeated.
Requalify ==
    /\ Change("result", [repo.result EXCEPT !.cases = repo.fixture.cases, !.gate = "PASS"])
    /\ UNCHANGED edits

\* The manifest template is pointed at a document of today.
Retarget ==
    /\ \E f \in DOMAIN ManifestArtifacts(repo) :
          Change("template",
                 Stamp([repo.template EXCEPT !.artifacts[f] = ManifestArtifacts(repo)[f]]))
    /\ UNCHANGED edits

\* The contract is bound to the artifacts of today, or to some of them.
Rebind ==
    /\ \E S \in SUBSET {a \in Bound : repo.contract.bindings[a] # repo[a]} :
          Change("contract",
                 Stamp([repo.contract EXCEPT !.bindings =
                           [a \in Bound |-> IF a \in S THEN repo[a] ELSE @[a]]]))
    /\ UNCHANGED edits

LoadBound ==
    /\ bound' = [a \in Bound |-> repo[a]]
    /\ UNCHANGED <<repo, issued, asserted, edits, changes>>

BuildReceipt ==
    /\ bound # None /\ Buildable(repo, bound)
    /\ issued' = ReceiptOf(repo)
    /\ UNCHANGED <<repo, bound, asserted, edits, changes>>

\* A receipt that says more than the developer gate may.
Overstate ==
    /\ issued # None /\ edits < MaxEdits
    /\ edits' = edits + 1
    /\ issued' = Stamp([issued EXCEPT !.green = TRUE])
    /\ UNCHANGED <<repo, bound, asserted, changes>>

MakeClaim ==
    /\ issued # None
    /\ \E code \in AllowedClaims \cup ForbiddenClaims :
          /\ ClaimAllowed(code, issued)
          /\ asserted' = {[code |-> code, receipt |-> issued]}
    /\ UNCHANGED <<repo, bound, issued, edits, changes>>

ContractNext ==
    \/ Edit \/ Requalify \/ Retarget \/ Rebind
    \/ LoadBound \/ BuildReceipt \/ Overstate \/ MakeClaim

ContractSpec == ContractInit /\ [][ContractNext]_contractVars

\* A claim rests on one revision.  The receipt behind it lists artifacts that
\* agree with each other although they were edited one by one and read twice:
\* the template names the very documents listed, the QA result passed on the
\* very cases, and the budget follows from the prices beside it.
NamesItsDocuments(doc, terms) ==
    /\ terms.bindings = doc
    /\ doc["template"].artifacts =
          [core |-> Core(terms), matrix |-> Body(doc["matrix"]),
           registry |-> Body(doc["registry"]), corpus |-> Body(doc["corpus"]),
           plan |-> terms.plan, implementation |-> doc["code"]]

RestsOnPassingCases(doc) ==
    \A e \in Entry : CanonicalCases(doc["matrix"], doc, e) \subseteq doc["result"].cases

BudgetFollows(b) ==
    b.total = Total([c \in DOMAIN b.roster |->
        b.entries * b.cases * b.replicates *
            (b.inputTokens * b.roster[c].input + b.outputTokens * b.roster[c].output)])

ClaimsRestOnOneRevision ==
    \A k \in asserted :
        /\ NamesItsDocuments(k.receipt.artifacts, k.receipt.contract)
        /\ RestsOnPassingCases(k.receipt.artifacts)
        /\ BudgetFollows(k.receipt.artifacts["candidates"])

=============================================================================
