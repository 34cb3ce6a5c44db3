------------------------------- MODULE MCBM0 -------------------------------
EXTENDS BM0Adjudication, BM0Contract

CONSTANTS m1, m2, p1, p2, tie, outsider, core, drifted

MCClassOf == [E01 |-> "MODEL_DIRECT", E09 |-> "AGENT_STANDARDIZED", E13 |-> "SYSTEM_EVAL_ONLY"]

ModelOf(s) ==
    IF s = SystemScope THEN SystemIdentity
    ELSE [provider |-> "p", requested |-> s, resolved |-> "v1", certainty |-> "EXACT"]

A(id, s, entry, case, pool, replicate) ==
    [id |-> id, trial |-> id, parent |-> None, study |-> "s", subject |-> s,
     model |-> ModelOf(s), entry |-> entry, class |-> MCClassOf[entry],
     applicability |-> IF s = SystemScope THEN "NOT_APPLICABLE" ELSE "APPLICABLE",
     case |-> case, variant |-> case, pool |-> pool, item |-> case, commitment |-> case,
     mutationOf |-> None, contamination |-> "ASSESSED_CLEAR", replicate |-> replicate,
     automaticRetries |-> 0, config |-> "k"]
Retry(a, id) == [a EXCEPT !.id = id, !.parent = a.id]

Hidden(id, s, case, rep) == A(id, s, "E01", case, "HIDDEN", rep)
Agent(id, s, case) == A(id, s, "E09", case, "HIDDEN", 0)
System(id) == A(id, SystemScope, "E13", "c9", "HIDDEN", 0)

Declared(sandbox) ==
    {LET d == [entry |-> e, result |-> IF e = "E13" THEN "NOT_APPLICABLE" ELSE "APPLICABLE"]
     IN d @@ [subject |-> s, provider |-> ModelOf(s).provider, requested |-> s,
              comparison |-> Comparison(d, sandbox), beforeExecution |-> TRUE] :
        e \in Entry, s \in {m1, m2}}

Study(sandbox, attempts) ==
    LET m == [state |-> "FROZEN", selected |-> TRUE, sandbox |-> sandbox,
              classes |-> IF sandbox = "ESTABLISHED"
                          THEN DefaultClasses \cup {"AGENT_STANDARDIZED"} ELSE DefaultClasses,
              declared |-> Declared(sandbox), artifacts |-> core,
              adjudicators |-> [primaries |-> {p1, p2}, tiebreak |-> tie],
              attempts |-> attempts, plannedCount |-> Len(attempts), holdout |-> {}]
    IN [m EXCEPT !.holdout = HiddenItems(m)]

Plain(attempts) == Study("NOT_ESTABLISHED", attempts)

\* Two models with one planned retry each, and a system attempt.
Retries == <<Hidden("a1", m1, "c1", 0), Retry(Hidden("a1", m1, "c1", 0), "a2"),
             Hidden("b1", m2, "c1", 0), Retry(Hidden("b1", m2, "c1", 0), "b2"), System("s1")>>
\* Two cases of a family and a control.
Family == <<Hidden("a1", m1, "c1", 0), Hidden("a2", m1, "c2", 0),
            A("k1", m1, "E01", "k", "CONTROL", 0), Hidden("b1", m2, "c1", 0)>>
\* Agents in an established sandbox, and a public mutation.
Mutation == [A("x1", m1, "E01", "x", "MUTATION", 0) EXCEPT !.mutationOf = "y"]
Agents == <<Agent("a1", m1, "c1"), Agent("b1", m2, "c1"), Mutation>>
\* Two root trials of one replicate index: valid, and not a pilot design.
SameReplicate == <<Hidden("a1", m1, "c1", 0), Hidden("a2", m1, "c1", 0), Hidden("b1", m2, "c1", 0)>>
Pilot == <<Hidden("a1", m1, "c1", 0), Hidden("a2", m1, "c1", 1),
           Hidden("a3", m1, "c2", 0), Hidden("a4", m1, "c2", 1),
           Hidden("b1", m2, "c1", 0), Hidden("b2", m2, "c1", 1),
           Hidden("b3", m2, "c2", 0), Hidden("b4", m2, "c2", 1)>>

Empty == [Study("NOT_ESTABLISHED", <<>>) EXCEPT
            !.state = "DESIGN_ONLY", !.selected = FALSE, !.holdout = None,
            !.adjudicators = None, !.declared = {}]

\* Manifests validate_benchmark_manifest refuses.
Refused == {
    Empty,
    [Plain(Retries) EXCEPT !.artifacts = drifted],
    [Plain(Retries) EXCEPT !.holdout = {}],
    [Plain(Retries) EXCEPT !.adjudicators.tiebreak = p1],
    [Plain(Retries) EXCEPT !.declared = {d \in @ : d.subject = m1}],
    Plain(<<Retries[2], Retries[1]>>),
    Plain(Retries \o <<Retry(Retries[1], "a3")>>),
    Plain(<<Retries[1], [Retries[2] EXCEPT !.parent = None]>>),
    Plain(<<Retries[1], [Retries[2] EXCEPT !.config = "other"]>>),
    Plain(Agents),
    Plain(Family \o <<[Mutation EXCEPT !.mutationOf = "c1"]>>),
    Plain(<<[Family[1] EXCEPT !.contamination = "KNOWN_EXPOSED"]>>)}

MCDrafts == Refused \cup {Plain(Retries), Plain(Family), Plain(SameReplicate), Plain(Pilot),
                          Study("ESTABLISHED", Agents)}

\* What a row may say, by terminal; a model's row on a successful response.
Says(certainty, resolved, provider, terminal, disposition, value, systemValue, hard,
     complete, receipt, adjudication) ==
    [certainty |-> certainty, resolved |-> resolved, provider |-> provider,
     terminal |-> terminal, disposition |-> disposition, value |-> value,
     systemValue |-> systemValue, hard |-> hard, complete |-> complete,
     receipt |-> receipt, adjudication |-> adjudication]

Answer(terminal, disposition, value, hard, complete, receipt, adjudication) ==
    {Says("EXACT", "v1", "SUCCESS", terminal, disposition, value, None, hard, complete,
          receipt, adjudication)}

ModelOutcomes ==
    Answer("PASS", None, 0, TRUE, TRUE, TRUE, "NOT_REQUIRED")
    \cup Answer("FAIL", None, 1, FALSE, TRUE, TRUE, "RESOLVED")
    \cup {Says("UNKNOWN", None, "ERROR", "ERROR", None, None, None, None, FALSE, FALSE,
               "NOT_REQUIRED")}

SystemOutcomes ==
    {Says("SYSTEM_SCOPE", SystemScope, "NOT_APPLICABLE", t, None, None,
          IF t = "PASS" THEN 0 ELSE 1, t = "PASS", TRUE, TRUE, "NOT_REQUIRED") :
        t \in {"PASS", "FAIL"}}
    \cup {Says("SYSTEM_SCOPE", SystemScope, "NOT_APPLICABLE", "ERROR", None, None, None,
               None, FALSE, FALSE, "ERROR")}

MCOutcomes == [c \in DefaultClasses \cup {"AGENT_STANDARDIZED"} |-> ModelOutcomes]
              @@ ("SYSTEM_EVAL_ONLY" :> SystemOutcomes)

\* Everything a row could claim, coherent or not.
MCOddOutcomes ==
    LET claims == {Says(i[1], i[2], p, t[1], t[2], v, None, h, c, TRUE, j) :
            i \in {<<"EXACT", "v1">>, <<"EXACT", "v2">>, <<"ALIAS_ONLY", None>>, <<"UNKNOWN", None>>},
            p \in {"SUCCESS", "ERROR"},
            t \in {<<"PASS", None>>, <<"FAIL", None>>, <<"ERROR", None>>, <<"BLOCKED", None>>,
                   <<"UNKNOWN", "UNJUSTIFIED_UNKNOWN">>, <<"UNKNOWN", "CORRECT_ABSTENTION">>,
                   <<"UNKNOWN", "UNRESOLVED_ADJUDICATION_EVIDENCE">>},
            v \in {0, 1, None}, h \in BOOLEAN \cup {None}, c \in BOOLEAN,
            j \in {"NOT_REQUIRED", "UNRESOLVED"}}
    IN [c \in {"MODEL_DIRECT", "MODEL_CONTEXT_GROUNDED", "AGENT_STANDARDIZED", "SYSTEM_EVAL_ONLY"} |->
            claims]

\* The item in adjudication, another planned one, or one nobody planned.
MCItems == {"a1", "b1", None}
MCSubjects == {m1, m2}
MCAdjudicators == {p1, p2, tie, outsider}

(***************************************************************************)
(* The documents of the measurement contract                               *)
(***************************************************************************)
New(d) == Stamp(d @@ [stamp |-> None])

Case(id, e, variant, text) == [case |-> id, family |-> e, variant |-> variant, text |-> text]
Pair(e, text) == {Case(<<e, "bad">>, e, "KNOWN_BAD", text), Case(<<e, "ctl">>, e, "CONTROL", 0)}
Cases(text) == UNION {Pair(e, text) : e \in Entry}

MCLineage == [e \in Entry |-> [family |-> e, cases |-> {<<e, "bad">>, <<e, "ctl">>}]]

Matrix(note) == New(
    [default |-> DefaultClasses, classes |-> [c \in Classes |-> ClassState(c)],
     targets |-> [e \in Entry |-> [class |-> ClassOf[e], lineage |-> MCLineage[e],
                                   state |-> ClassState(ClassOf[e])]],
     sandbox |-> "NOT_ESTABLISHED", note |-> note])
Registry(version) == New([metrics |-> Rules, version |-> version])
Corpus(version) == New(
    [estimated |-> [p \in Pools |-> p = "HIDDEN"], split |-> [lineage |-> TRUE, cases |-> TRUE],
     access |-> HiddenAccessSequence, published |-> {}, controlled |-> TRUE, version |-> version])

Source(p, day) == New([id |-> p, provider |-> p, day |-> day])
Priced(prices, estimates, total) == New(
    [day |-> 1, sources |-> {Source(p, 1) : p \in DOMAIN prices},
     roster |-> [p \in DOMAIN prices |->
        [provider |-> p, model |-> p, source |-> p, selection |-> "NOT_SELECTED",
         input |-> prices[p], output |-> 4 * prices[p]]],
     entries |-> 2, cases |-> 2, replicates |-> 2, calls |-> 8,
     inputTokens |-> 3, outputTokens |-> 1,
     estimates |-> estimates, total |-> total, authority |-> "NONE"])
Prices == [p1 |-> 1, p2 |-> 2, p3 |-> 3]
Raised3 == [Prices EXCEPT !.p3 = 5]
Estimates(prices) == [p \in DOMAIN prices |-> 8 * 7 * prices[p]]
Sum3(f) == f.p1 + f.p2 + f.p3
Budget(prices, from) == Priced(prices, Estimates(from), Sum3(Estimates(from)))

Terms(plan, note) ==
    [targets |-> ClassCounts, terminals |-> TerminalContract,
     denominator |-> Rules.model_failure_rate, plan |-> [frozen |-> TRUE, id |-> plan],
     primaries |-> 2, candidates |-> 3,
     ceiling |-> [allowed |-> AllowedClaims, forbidden |-> ForbiddenClaims],
     green |-> "NOT_EVALUATED", roster |-> "NOT_SELECTED", note |-> note]

Artifacts ==
    [code |-> 0, fixture |-> [cases |-> Cases(0)],
     result |-> [gate |-> "PASS", cases |-> Cases(0), families |-> Entry],
     matrix |-> Matrix(0), registry |-> Registry(0), corpus |-> Corpus(0),
     candidates |-> Budget(Prices, Prices),
     template |-> New([Empty EXCEPT !.artifacts =
        [core |-> Terms(0, 0), matrix |-> Body(Matrix(0)), registry |-> Body(Registry(0)),
         corpus |-> Body(Corpus(0)), plan |-> [frozen |-> TRUE, id |-> 0],
         implementation |-> 0]])]

ContractOf(terms) == New(terms @@ [bindings |-> Artifacts])
MCOriginal == Artifacts @@ [contract |-> ContractOf(Terms(0, 0))]

\* One edit of each document that leaves it valid, and edits that do not: a
\* fingerprint or a total left stale, a class moved, a denominator widened, a plan
\* thawed.
MCEdits ==
    [code |-> {1},
     fixture |-> {[cases |-> Cases(1)]},
     result |-> {[MCOriginal.result EXCEPT !.gate = "BLOCKED"]},
     matrix |-> {Matrix(1), [Matrix(0) EXCEPT !.note = 1],
                 Stamp([Matrix(0) EXCEPT !.targets["E13"].class = "MODEL_DIRECT"])},
     registry |-> {Registry(1),
                   Stamp([Registry(0) EXCEPT !.metrics.model_failure_rate.denominator = Terminals])},
     corpus |-> {Corpus(1)},
     candidates |-> {Budget(Raised3, Raised3), Budget(Raised3, Prices)},
     contract |-> {ContractOf(Terms(0, 1)), ContractOf(Terms(1, 0)),
                   ContractOf([Terms(0, 0) EXCEPT !.plan.frozen = FALSE])}]

(***************************************************************************)
(* The study and the contract, which share no state, explored side by side *)
(***************************************************************************)
MCInit == Init /\ ContractInit

StudyStep == repo = Original /\ bound = None /\ Next /\ UNCHANGED contractVars
ContractStep == phase = "DRAFT" /\ manifest = Empty /\ ContractNext /\ UNCHANGED vars

MCNext == StudyStep \/ ContractStep
MCSpec == MCInit /\ [][MCNext]_<<vars, contractVars>>

=============================================================================
