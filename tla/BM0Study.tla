------------------------------ MODULE BM0Study ------------------------------
(***************************************************************************)
(* A study under a BM0 manifest (b2/bm0.py): rows of observations arrive   *)
(* in any order, some late, some twice, some of them wrong, and the SAP    *)
(* methods may be called after each.  Nothing is stored between calls:     *)
(* every method validates the manifest and the whole grid again, so an     *)
(* estimate is a function of the manifest and the rows.                    *)
(*                                                                         *)
(* A rate is kept as its numerator and denominator; rounding and interval  *)
(* arithmetic are left out.                                                *)
(***************************************************************************)
EXTENDS BM0Manifest, TLC

CONSTANTS
    Drafts,         \* the manifests proposed
    Expected,       \* the artifact fingerprints of the independent caller
    Outcomes,       \* per target class: what a row may say at any time
    OddOutcomes,    \* per target class: what only the first row may say
    Subjects,       \* the model subjects
    MaxGrid,        \* bound: the largest manifest whose rows are explored
    MaxOddGrid      \* bound: the same, for rows of an odd outcome

ASSUME DraftAssumption == \A m \in Drafts : Listed(m)

VARIABLES
    phase,          \* "DRAFT", "FROZEN" or "REFUSED"
    manifest,
    rows            \* the observations delivered so far

studyVars == <<phase, manifest, rows>>

StudyInit ==
    /\ manifest \in Drafts
    /\ phase = "DRAFT"
    /\ rows = {}

(***************************************************************************)
(* One observation.  Scorable terminals are PASS and FAIL; UNKNOWN is      *)
(* scored by the disposition its family policy permits; the others never.  *)
(***************************************************************************)
DispositionMeans(d) ==
    CASE d \in {"CORRECT_ABSTENTION", "CORRECT_UNKNOWN_PRESERVATION"} ->
            [value |-> 0, complete |-> TRUE, hard |-> TRUE]
      [] d = "UNJUSTIFIED_UNKNOWN" -> [value |-> 1, complete |-> TRUE, hard |-> FALSE]
      [] OTHER -> [value |-> None, complete |-> FALSE, hard |-> None]

Unresolved == {"UNRESOLVED_SCORER_EVIDENCE", "UNRESOLVED_ADJUDICATION_EVIDENCE"}
Permitted(class, d) == class = "SYSTEM_EVAL_ONLY" => d \in Unresolved

TerminalValue(o) ==
    CASE o.terminal = "PASS" -> 0
      [] o.terminal = "FAIL" -> 1
      [] o.terminal = "UNKNOWN" -> DispositionMeans(o.disposition).value
      [] OTHER -> None

\* The identity the provider disclosed, by target class.
DisclosedIdentity(o, class) ==
    IF class = "SYSTEM_EVAL_ONLY"
    THEN o.certainty = "SYSTEM_SCOPE" /\ o.resolved = SystemScope
    ELSE \/ o.certainty = "EXACT" /\ o.resolved \notin {None, SystemScope}
         \/ o.certainty \in {"ALIAS_ONLY", "UNKNOWN"} /\ o.resolved = None

ValidUnknown(o, class) ==
    o.terminal = "UNKNOWN" =>
        /\ o.disposition # None /\ Permitted(class, o.disposition)
        /\ o.complete = DispositionMeans(o.disposition).complete
        /\ o.hard = DispositionMeans(o.disposition).hard
        /\ o.adjudication \in IF o.disposition \in Unresolved
                              THEN {"UNRESOLVED"} ELSE {"NOT_REQUIRED", "RESOLVED"}
        /\ o.receipt = (o.disposition # "UNRESOLVED_SCORER_EVIDENCE")

\* A model is only ever judged on an attributable, successful response.
\* Defect: an identified response counts whatever the provider returned.
Identified(o) == o.certainty \in {"EXACT", "ALIAS_ONLY"}
Attributable(o) == o.certainty \in {"EXACT", "ALIAS_ONLY"} /\ o.provider = "SUCCESS"

ValidScored(o, class) ==
    o.terminal \in {"PASS", "FAIL"} =>
        /\ o.hard = (o.terminal = "PASS")
        /\ o.complete /\ o.receipt
        /\ o.adjudication \in {"NOT_REQUIRED", "RESOLVED"}
        /\ class # "SYSTEM_EVAL_ONLY" => Attributable(o)

ValidObservation(o, class) ==
    /\ DisclosedIdentity(o, class)
    /\ o.disposition # None => o.terminal = "UNKNOWN"
    /\ ValidUnknown(o, class) /\ ValidScored(o, class)
    /\ o.value = IF class = "SYSTEM_EVAL_ONLY" THEN None ELSE TerminalValue(o)
    /\ o.systemValue = IF class # "SYSTEM_EVAL_ONLY" \/ o.terminal = "UNKNOWN"
                       THEN None ELSE TerminalValue(o)
    /\ o.terminal \in {"NOT_EVALUABLE", "BLOCKED", "ERROR"} => o.hard = None
    /\ class = "SYSTEM_EVAL_ONLY" => o.provider = "NOT_APPLICABLE"
    /\ o.terminal = "UNKNOWN" /\ class # "SYSTEM_EVAL_ONLY" => Attributable(o)
    /\ o.terminal = "ERROR" => o.adjudication # "RESOLVED" /\ o.provider # "SUCCESS"

(***************************************************************************)
(* The grid: every row answers a planned attempt, in the identity planned  *)
(* for it, and no attempt is answered twice.                               *)
(***************************************************************************)
ResolvedAsPlanned(o, a) ==
    \/ o.certainty = "SYSTEM_SCOPE" /\ a.model.certainty = "SYSTEM_SCOPE"
    \/ o.certainty = "EXACT" /\ a.model.certainty = "EXACT" /\ o.resolved = a.model.resolved
    \/ o.certainty = "ALIAS_ONLY" /\ a.model.certainty = "ALIAS_ONLY"
    \/ o.certainty = "UNKNOWN" /\ o.terminal \notin {"PASS", "FAIL"}
                               /\ a.model.certainty # "SYSTEM_SCOPE"

RowFits(m, o) ==
    /\ o.attempt \in PlannedIds(m)
    /\ LET a == Planned(m, o.attempt) IN
          /\ ValidObservation(o, a.class)
          /\ o.identity = RetryIdentity(a)
          /\ ResolvedAsPlanned(o, a)

Answered(S) == {o.attempt : o \in S}
\* Defect: a row for an answered attempt is counted as well.
DuplicatesCounted(S) == TRUE
NoDuplicate(S) == \A o, p \in S : o.attempt = p.attempt => o = p

Refusable(m) == ~(ValidManifest(m, Expected) /\ m.state = "FROZEN")

\* FALSE where every method raises.
Evaluable(m, S) ==
    /\ ~Refusable(m)
    /\ \A o \in S : RowFits(m, o)
    /\ NoDuplicate(S)

Raised(m, S) == ~Evaluable(m, S)

(***************************************************************************)
(* Estimates                                                               *)
(***************************************************************************)
NotEvaluable == [status |-> "NOT_EVALUABLE"]
Failures(S) == Cardinality({o \in S : o.value = 1})
Scored(S) == {o \in S : o.value \in {0, 1}}
RowsOf(S, ids) == {o \in S : o.attempt \in ids}
MissingIn(S, ids) == ids \ Answered(S)

Rate(S, ids) ==
    IF MissingIn(S, ids) # {} \/ Scored(RowsOf(S, ids)) = {} THEN NotEvaluable
    ELSE [status |-> "PASS", failures |-> Failures(RowsOf(S, ids)),
          scored |-> Cardinality(Scored(RowsOf(S, ids)))]

Ids(A) == {a.id : a \in A}

\* The classes of each registered model metric.
MetricClasses(metric) ==
    IF metric = "model_failure_rate" THEN DefaultClasses ELSE {"AGENT_STANDARDIZED"}
Comparable(m, metric) ==
    Ids({a \in Attempts(m) : a.class \in MetricClasses(metric) /\ a.pool = "HIDDEN"})
ComparableOf(m, metric, subject) ==
    Ids({a \in Attempts(m) : a.class \in MetricClasses(metric) /\ a.pool = "HIDDEN"
                             /\ a.subject = subject})

\* One missing row suppresses every model's rate.
FailureRate(m, S, metric, subject) ==
    IF MissingIn(S, Comparable(m, metric)) # {} THEN NotEvaluable
    ELSE Rate(S, ComparableOf(m, metric, subject))

SystemIds(m) == Ids({a \in Attempts(m) : a.class = "SYSTEM_EVAL_ONLY" /\ a.pool = "HIDDEN"})

SystemRate(m, S) ==
    LET scored == {o \in RowsOf(S, SystemIds(m)) : o.systemValue \in {0, 1}}
    IN IF MissingIn(S, SystemIds(m)) # {} \/ scored = {} THEN NotEvaluable
       ELSE [status |-> "PASS", failures |-> Cardinality({o \in scored : o.systemValue = 1}),
             scored |-> Cardinality(scored)]

InfrastructureRate(m, S) ==
    IF MissingIn(S, PlannedIds(m)) # {} THEN NotEvaluable
    ELSE [status |-> "PASS", scored |-> Cardinality(S),
          failures |-> Cardinality({o \in S : o.terminal = "ERROR"})]

\* All pools; the replicates and retries of a case stay inside that case.
CaseAttempts(m, a) == Ids({b \in Attempts(m) : b.class \in m.classes /\ SameCase(a, b)})
CaseFailure(m, S, a) == Rate(S, CaseAttempts(m, a))

\* The macro mean over the cases of one entry, kept as the cases averaged.
FamilyCases(m, subject, e) ==
    {a \in Attempts(m) : a.class \in m.classes /\ a.subject = subject /\ a.entry = e}
FamilyRate(m, S, subject, e) ==
    LET cases == FamilyCases(m, subject, e)
    IN IF cases = {} \/ \E a \in cases : CaseFailure(m, S, a) = NotEvaluable THEN NotEvaluable
       ELSE [status |-> "PASS", mean |-> {<<a.case, CaseFailure(m, S, a)>> : a \in cases}]

ControlRate(m, S, subject) ==
    Rate(S, Ids({a \in Attempts(m) : a.class \in m.classes /\ a.pool = "CONTROL"
                                     /\ a.subject = subject}))

(***************************************************************************)
(* The paired comparison of two models, over the attempts both completed   *)
(***************************************************************************)
PlannedAt(m, id) == CHOOSE i \in DOMAIN m.attempts : m.attempts[i].id = id

\* How many attempts of its retry chain come before an attempt.
RetryOrdinal(m, id) ==
    LET ordinal[i \in DOMAIN m.attempts] ==
            IF m.attempts[i].parent = None THEN 0
            ELSE 1 + ordinal[PlannedAt(m, m.attempts[i].parent)]
    IN ordinal[PlannedAt(m, id)]

\* Defect: the retry ordinal is left out of the pair key.
PairKeyByReplicate(m, id) ==
    LET a == Planned(m, id) IN <<a.entry, a.case, a.variant, a.replicate, 0>>
PairKey(m, id) ==
    LET a == Planned(m, id) IN <<a.entry, a.case, a.variant, a.replicate, RetryOrdinal(m, id)>>
PairKeys(m, ids) == {PairKey(m, id) : id \in ids}
PairAmbiguous(m, ids) == Cardinality(PairKeys(m, ids)) # Cardinality(ids)

\* The score of an answered attempt, and the pairs scored on both sides.
ScoreOf(S, id) == (CHOOSE o \in S : o.attempt = id).value
KeyPairs(m, L, R) == {p \in L \X R : PairKey(m, p[1]) = PairKey(m, p[2])}
Included(m, S, L, R) ==
    {p \in KeyPairs(m, L, R) : ScoreOf(S, p[1]) \in {0, 1} /\ ScoreOf(S, p[2]) \in {0, 1}}

PairedOver(m, S, L, R) ==
    LET included == Included(m, S, L, R)
    IN IF PairAmbiguous(m, L) \/ PairAmbiguous(m, R) THEN [status |-> "RAISED"]
       ELSE IF L = {} \/ PairKeys(m, L) # PairKeys(m, R) \/ included = {} THEN NotEvaluable
       ELSE IF \E p \in KeyPairs(m, L, R) :
                  Planned(m, p[1]).config # Planned(m, p[2]).config
            THEN NotEvaluable
       ELSE [status |-> "PASS", pairs |-> Cardinality(included),
             excluded |-> Cardinality(L) - Cardinality(included),
             left |-> Cardinality({p \in included : ScoreOf(S, p[1]) = 1}),
             right |-> Cardinality({p \in included : ScoreOf(S, p[2]) = 1})]

Paired(m, S, metric, left, right) ==
    LET L == ComparableOf(m, metric, left)
        R == ComparableOf(m, metric, right)
    IN IF left = right THEN [status |-> "RAISED"]
       ELSE IF MissingIn(S, L \cup R) # {} THEN NotEvaluable
       ELSE PairedOver(m, RowsOf(S, L \cup R), L, R)

(***************************************************************************)
(* A manifest is frozen, then rows arrive.  The bounds: only manifests of  *)
(* at most MaxGrid attempts receive rows, odd outcomes and misattributed   *)
(* rows come first (odd ones only in manifests of MaxOddGrid attempts),    *)
(* and nothing is delivered after a row that makes every method raise.     *)
(***************************************************************************)
Freeze ==
    /\ phase = "DRAFT"
    /\ ~Refusable(manifest)
    /\ phase' = "FROZEN"
    /\ UNCHANGED <<manifest, rows>>

Refuse ==
    /\ phase = "DRAFT"
    /\ Refusable(manifest)
    /\ phase' = "REFUSED"
    /\ UNCHANGED <<manifest, rows>>

\* nth tells the deliveries of one attempt apart.
Row(a, id, outcome) ==
    outcome @@ [attempt |-> id, identity |-> RetryIdentity(a),
                nth |-> 1 + Cardinality({o \in rows : o.attempt = id})]

Deliver(row) ==
    /\ phase = "FROZEN" /\ Len(manifest.attempts) <= MaxGrid
    /\ ~Raised(manifest, rows)
    /\ rows' = rows \cup {row}
    /\ UNCHANGED <<phase, manifest>>

DeliverAnswer ==
    \E a \in Attempts(manifest) : \E outcome \in Outcomes[a.class] :
        Deliver(Row(a, a.id, outcome))

\* The identity of one planned attempt under the ID of another, or of none.
DeliverOdd ==
    /\ rows = {} /\ Len(manifest.attempts) <= MaxOddGrid
    /\ \E a \in Attempts(manifest) : \E id \in PlannedIds(manifest) \cup {None} :
          \E outcome \in IF id = a.id THEN OddOutcomes[a.class] ELSE Outcomes[a.class] :
              Deliver(Row(a, id, outcome))

(***************************************************************************)
(* Properties                                                              *)
(***************************************************************************)
Metrics == {"model_failure_rate", "sandboxed_agent_failure_rate"}
Passed(e) == e.status = "PASS"
Kept(e, later) == Passed(e) => e = later

\* Every estimate of the rows S is the one of the later rows T.
EstimatesKept(m, S, T) ==
    /\ \A metric \in Metrics, s \in Subjects :
          /\ Kept(FailureRate(m, S, metric, s), FailureRate(m, T, metric, s))
          /\ \A r \in Subjects : Kept(Paired(m, S, metric, s, r), Paired(m, T, metric, s, r))
    /\ \A s \in Subjects :
          /\ Kept(ControlRate(m, S, s), ControlRate(m, T, s))
          /\ \A e \in Entry : Kept(FamilyRate(m, S, s, e), FamilyRate(m, T, s, e))
    /\ \A a \in Attempts(m) : Kept(CaseFailure(m, S, a), CaseFailure(m, T, a))
    /\ Kept(SystemRate(m, S), SystemRate(m, T))
    /\ Kept(InfrastructureRate(m, S), InfrastructureRate(m, T))

\* An estimate that was reported never changes while rows keep arriving: a
\* late row finds every row it depends on present, and a row for an answered
\* attempt makes the methods raise instead of replacing the earlier one.
EstimatesAreFinal ==
    [][Evaluable(manifest, rows) /\ Evaluable(manifest, rows)' =>
          manifest' = manifest /\ EstimatesKept(manifest, rows, rows')]_studyVars

\* A model is only ever scored on a successful response of the version that
\* was planned, with its evidence complete: neither a provider error nor an
\* unresolved identity, scorer or adjudication becomes a 0 or a 1.
OnlyAnswersAreScored ==
    Evaluable(manifest, rows) => \A o \in rows : o.value \in {0, 1} =>
        /\ o.provider = "SUCCESS" /\ o.complete /\ o.receipt
        /\ o.adjudication \in {"NOT_REQUIRED", "RESOLVED"}
        /\ Planned(manifest, o.attempt).class # "SYSTEM_EVAL_ONLY"
        /\ o.resolved = Planned(manifest, o.attempt).model.resolved

\* The paired comparison and the rates are two readings of one grid.  Where
\* nothing is excluded they agree; swapping the models swaps the sides; and
\* only two root trials sharing a replicate index make pairing raise, which
\* the pilot design rules out before execution.
PairsAgreeWithRates ==
    Evaluable(manifest, rows) => \A metric \in Metrics : \A l, r \in Subjects : l # r =>
        LET p == Paired(manifest, rows, metric, l, r)
            q == Paired(manifest, rows, metric, r, l)
            rate == FailureRate(manifest, rows, metric, l)
        IN /\ p.status = "RAISED" => ~PilotDesign(manifest)
                 /\ \E a, b \in Roots(manifest) :
                        a # b /\ SameCase(a, b) /\ a.replicate = b.replicate
           /\ Passed(p) =>
                 /\ p.pairs + p.excluded = Cardinality(ComparableOf(manifest, metric, l))
                 /\ q.status = "PASS" /\ q.left = p.right /\ q.pairs = p.pairs
                 /\ Passed(rate) => /\ p.left <= rate.failures
                                    /\ p.excluded = 0 => p.left = rate.failures

=============================================================================
