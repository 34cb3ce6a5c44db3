------------------------------ MODULE BM0_proofs ------------------------------
(***************************************************************************)
(* The BM0 package: a claim of BM0Contract rests on one revision, a model  *)
(* is scored only on an attributable answer (BM0Study), an estimate and a  *)
(* label once reported stay, and two people stand behind every label       *)
(* (BM0Adjudication): for every manifest, every set of rows and records    *)
(* and every order in which they arrive.                                   *)
(***************************************************************************)
EXTENDS BM0Adjudication, BM0Contract, PrefixSums_proofs, FiniteSetTheorems, TLAPS

(***************************************************************************)
(* The contract.  A receipt is coherent when it is built, because          *)
(* build_bm0_receipt raises otherwise, and no later step touches what      *)
(* coherence speaks of.                                                    *)
(***************************************************************************)

Coherent(r) ==
    /\ NamesItsDocuments(r.artifacts, r.contract)
    /\ RestsOnPassingCases(r.artifacts)
    /\ BudgetFollows(r.artifacts["candidates"])

\* A receipt keeps the fields coherence speaks of.
Shaped(r) == {"artifacts", "contract", "green", "stamp"} \subseteq DOMAIN r

ContractInv ==
    /\ issued # None => Shaped(issued) /\ Coherent(issued)
    /\ \A k \in asserted : Coherent(k.receipt)

\* The core of a contract does not depend on its fingerprint.
LEMMA CoreOfBody ==
  ASSUME NEW c
  PROVE  Core(Body(c)) = Core(c)
<1>1. DOMAIN Body(c) = DOMAIN c \ {"stamp"}
  BY DEF Body
<1>2. DOMAIN Body(c) \ {"bindings", "stamp"} = DOMAIN c \ {"bindings", "stamp"}
  BY <1>1
<1>3. \A f \in DOMAIN c \ {"bindings", "stamp"} : Body(c)[f] = c[f]
  BY DEF Body
<1> QED BY <1>2, <1>3 DEF Core

\* What a contract binds is what was loaded.
LEMMA BindingsAreLoaded ==
  ASSUME NEW x, NEW b, Buildable(x, b)
  PROVE  \A a \in Bound : x.contract.bindings[a] = b[a]
BY DEF Buildable, ValidContract

\* The documents a buildable receipt lists name one another.
LEMMA BuildNamesDocuments ==
  ASSUME NEW x, NEW b, Buildable(x, b)
  PROVE  NamesItsDocuments(x.contract.bindings, Body(x.contract))
<1> DEFINE c == x.contract
<1>1. DOMAIN c = ContractFields
  BY DEF Buildable, ValidContract
<1>2. Body(c).bindings = c.bindings /\ Body(c).plan = c.plan
  BY <1>1 DEF Body, ContractFields
<1>3. \A a \in {"matrix", "registry", "corpus", "template"} : c.bindings[a] = x[a]
  <2>1. \A a \in {"matrix", "registry", "corpus", "template"} : b[a] = x[a]
    BY DEF Buildable, SuppliedAreBound
  <2> QED BY <2>1, BindingsAreLoaded DEF Bound
<1>4. x.template.artifacts = ManifestArtifacts(x)
  BY DEF Buildable, ValidAgainst
<1> QED BY <1>2, <1>3, <1>4, CoreOfBody DEF NamesItsDocuments, ManifestArtifacts

\* The QA result it lists passed on the cases it lists.
LEMMA BuildRestsOnCases ==
  ASSUME NEW x, NEW b, Buildable(x, b)
  PROVE  RestsOnPassingCases(x.contract.bindings)
<1>1. \A a \in {"matrix", "fixture", "result"} : x.contract.bindings[a] = b[a]
  BY BindingsAreLoaded DEF Bound
<1>2. \A e \in Entry : Certified(b.matrix, b, e)
  BY DEF Buildable, ValidContract, ValidLineage
<1> QED BY <1>1, <1>2 DEF RestsOnPassingCases, Certified, CanonicalCases

\* Its budget is the one its prices and volumes give.
LEMMA BuildFollowsPrices ==
  ASSUME NEW x, NEW b, Buildable(x, b)
  PROVE  BudgetFollows(x.contract.bindings["candidates"])
<1> DEFINE d == b.candidates
<1>1. x.contract.bindings["candidates"] = d
  BY BindingsAreLoaded DEF Bound
<1>2. ValidBudget(d)
  BY DEF Buildable, ValidContract, ValidCandidates
<1>3. /\ d.calls = d.entries * d.cases * d.replicates
      /\ d.estimates = [c \in DOMAIN d.roster |-> Cost(d, c)]
      /\ d.total = Total(d.estimates)
  BY <1>2 DEF ValidBudget
<1>4. \A c \in DOMAIN d.roster :
         Cost(d, c) = d.entries * d.cases * d.replicates *
            (d.inputTokens * d.roster[c].input + d.outputTokens * d.roster[c].output)
  BY <1>3 DEF Cost
<1>5. d.estimates = [c \in DOMAIN d.roster |-> d.entries * d.cases * d.replicates *
            (d.inputTokens * d.roster[c].input + d.outputTokens * d.roster[c].output)]
  BY <1>3, <1>4
<1> HIDE DEF d
<1> QED BY <1>1, <1>3, <1>5 DEF BudgetFollows

\* Marking a receipt, or its fingerprint, leaves what it lists.
LEMMA MarkedStaysCoherent ==
  ASSUME NEW r, Shaped(r), Coherent(r)
  PROVE  /\ Shaped(Stamp([r EXCEPT !.green = TRUE]))
         /\ Coherent(Stamp([r EXCEPT !.green = TRUE]))
<1> DEFINE q == Stamp([r EXCEPT !.green = TRUE])
<1>1. DOMAIN q = DOMAIN r /\ q.artifacts = r.artifacts /\ q.contract = r.contract
  BY DEF Stamp, Shaped
<1> QED BY <1>1 DEF Shaped, Coherent

LEMMA BuiltIsCoherent ==
  ASSUME NEW x, NEW b, Buildable(x, b)
  PROVE  Shaped(ReceiptOf(x)) /\ Coherent(ReceiptOf(x))
<1>1. /\ Shaped(ReceiptOf(x))
      /\ ReceiptOf(x).artifacts = x.contract.bindings
      /\ ReceiptOf(x).contract = Body(x.contract)
  BY DEF ReceiptOf, Stamp, Shaped
<1> QED BY <1>1, BuildNamesDocuments, BuildRestsOnCases, BuildFollowsPrices DEF Coherent

LEMMA ContractStep == ContractInv /\ [ContractNext]_contractVars => ContractInv'
<1> SUFFICES ASSUME ContractInv, [ContractNext]_contractVars PROVE ContractInv'
  OBVIOUS
<1>1. CASE Edit \/ Requalify \/ Retarget \/ Rebind
  BY <1>1 DEF Edit, Requalify, Retarget, Rebind, Change, ContractInv
<1>2. CASE LoadBound \/ UNCHANGED contractVars
  BY <1>2 DEF LoadBound, contractVars, ContractInv
<1>3. CASE BuildReceipt
  BY <1>3, BuiltIsCoherent DEF BuildReceipt, ContractInv
<1>4. CASE Overstate
  BY <1>4, MarkedStaysCoherent DEF Overstate, ContractInv
<1>5. CASE MakeClaim
  BY <1>5 DEF MakeClaim, ContractInv
<1> QED BY <1>1, <1>2, <1>3, <1>4, <1>5 DEF ContractNext

\* build_bm0_receipt, assert_claim_allowed: the artifacts behind a claim are of
\* one revision, and the budget among them follows from its own prices.
THEOREM OneRevision == ContractSpec => []ClaimsRestOnOneRevision
<1>1. ContractInit => ContractInv
  BY DEF ContractInit, ContractInv
<1>2. ContractInv => ClaimsRestOnOneRevision
  BY DEF ContractInv, Coherent, ClaimsRestOnOneRevision
<1> QED BY <1>1, <1>2, ContractStep, PTL DEF ContractSpec

(***************************************************************************)
(* The study.  What the methods accept, they accept row by row.            *)
(***************************************************************************)
\* Planned finds the attempt a planned ID names.
LEMMA PlannedIsAttempt ==
  ASSUME NEW m, NEW id \in PlannedIds(m)
  PROVE  Planned(m, id) \in Attempts(m) /\ Planned(m, id).id = id
<1>1. \E a \in Attempts(m) : a.id = id
  BY DEF PlannedIds
<1> QED BY <1>1 DEF Planned

\* A manifest the methods accept is well-formed and frozen.
LEMMA AcceptedIsWellFormed ==
  ASSUME NEW m, ~Refusable(m)
  PROVE  WellFormed(m) /\ m.state = "FROZEN"
BY DEF Refusable, ValidManifest, ValidAgainst

\* A scored row of a model answers on a successful, identified response.
LEMMA ScoreIsAttributable ==
  ASSUME NEW o, NEW class, ValidObservation(o, class), o.value \in {0, 1}
  PROVE  /\ class # "SYSTEM_EVAL_ONLY" /\ Attributable(o)
         /\ o.complete /\ o.receipt /\ o.adjudication \in {"NOT_REQUIRED", "RESOLVED"}
<1>1. class # "SYSTEM_EVAL_ONLY" /\ o.value = TerminalValue(o)
  BY NoneAssumption DEF ValidObservation
<1>2. CASE o.terminal \in {"PASS", "FAIL"}
  BY <1>1, <1>2 DEF ValidObservation, ValidScored
<1>3. CASE o.terminal = "UNKNOWN"
  <2>1. DispositionMeans(o.disposition).value \in {0, 1}
    BY <1>1, <1>3 DEF TerminalValue
  <2>2. o.disposition \in {"CORRECT_ABSTENTION", "CORRECT_UNKNOWN_PRESERVATION",
                           "UNJUSTIFIED_UNKNOWN"}
    BY <2>1, NoneAssumption DEF DispositionMeans
  <2>3. DispositionMeans(o.disposition).complete /\ o.disposition \notin Unresolved
    BY <2>2 DEF DispositionMeans, Unresolved
  <2> QED BY <1>1, <1>3, <2>2, <2>3 DEF ValidObservation, ValidUnknown
<1>4. CASE o.terminal \notin {"PASS", "FAIL", "UNKNOWN"}
  BY <1>1, <1>4, NoneAssumption DEF TerminalValue
<1> QED BY <1>2, <1>3, <1>4

\* An identified response resolves to what was planned.
LEMMA IdentifiedAsPlanned ==
  ASSUME NEW o, NEW a, ValidTrial(a), a.class # "SYSTEM_EVAL_ONLY",
         ValidObservation(o, a.class), ResolvedAsPlanned(o, a), Attributable(o)
  PROVE  o.resolved = a.model.resolved
<1>1. CASE o.certainty = "EXACT"
  BY <1>1 DEF ResolvedAsPlanned
<1>2. CASE o.certainty = "ALIAS_ONLY"
  <2>1. o.resolved = None
    BY <1>2 DEF ValidObservation, DisclosedIdentity
  <2>2. a.model.certainty = "ALIAS_ONLY"
    BY <1>2 DEF ResolvedAsPlanned
  <2>3. a.model.resolved = None
    BY <2>2 DEF ValidTrial, ValidIdentity
  <2> QED BY <2>1, <2>3
<1> QED BY <1>1, <1>2 DEF Attributable

\* validate_observation, resolve rows: in every state of a study, whatever
\* rows were delivered, a model is scored only on a successful response of the
\* planned version with complete evidence.
THEOREM ScoresAreAnswers == Spec => []OnlyAnswersAreScored
<1>1. OnlyAnswersAreScored
  <2> SUFFICES ASSUME Evaluable(manifest, rows), NEW o \in rows, o.value \in {0, 1}
               PROVE  /\ o.provider = "SUCCESS" /\ o.complete /\ o.receipt
                      /\ o.adjudication \in {"NOT_REQUIRED", "RESOLVED"}
                      /\ Planned(manifest, o.attempt).class # "SYSTEM_EVAL_ONLY"
                      /\ o.resolved = Planned(manifest, o.attempt).model.resolved
    BY DEF OnlyAnswersAreScored
  <2> DEFINE a == Planned(manifest, o.attempt)
  <2>1. /\ o.attempt \in PlannedIds(manifest)
        /\ ValidObservation(o, a.class) /\ ResolvedAsPlanned(o, a)
    BY DEF Evaluable, RowFits
  <2>2. a \in Attempts(manifest)
    BY <2>1, PlannedIsAttempt
  <2>3. ValidTrial(a)
    BY <2>2, AcceptedIsWellFormed DEF Evaluable, WellFormed
  <2> HIDE DEF a
  <2>4. /\ a.class # "SYSTEM_EVAL_ONLY" /\ Attributable(o)
        /\ o.complete /\ o.receipt /\ o.adjudication \in {"NOT_REQUIRED", "RESOLVED"}
    BY <2>1, ScoreIsAttributable
  <2>5. o.resolved = a.model.resolved
    BY <2>1, <2>3, <2>4, IdentifiedAsPlanned
  <2> QED BY <2>4, <2>5 DEF Attributable, a
<1> QED BY <1>1, PTL

(***************************************************************************)
(* Estimates.  A method that passes found every row it reads, and later    *)
(* rows are about other attempts: an estimate is a function of rows that   *)
(* are all there.                                                          *)
(***************************************************************************)
Grows(m, S, T) == S \subseteq T /\ Evaluable(m, T)

\* What an answered set of attempts says, it says for good.
LEMMA AnsweredIsSettled ==
  ASSUME NEW m, NEW S, NEW T, Grows(m, S, T), NEW ids, MissingIn(S, ids) = {}
  PROVE  MissingIn(T, ids) = {} /\ RowsOf(T, ids) = RowsOf(S, ids)
<1>1. MissingIn(T, ids) = {}
  BY DEF Grows, MissingIn, Answered
<1>2. RowsOf(S, ids) \subseteq RowsOf(T, ids)
  BY DEF Grows, RowsOf
<1>3. ASSUME NEW o \in RowsOf(T, ids) PROVE o \in RowsOf(S, ids)
  <2>1. PICK p \in S : p.attempt = o.attempt
    BY <1>3 DEF MissingIn, Answered, RowsOf
  <2>2. p = o
    BY <1>3, <2>1 DEF Grows, Evaluable, NoDuplicate, RowsOf
  <2> QED BY <1>3, <2>1, <2>2 DEF RowsOf
<1> QED BY <1>1, <1>2, <1>3

LEMMA RateIsKept ==
  ASSUME NEW m, NEW S, NEW T, Grows(m, S, T), NEW ids, Passed(Rate(S, ids))
  PROVE  Rate(S, ids) = Rate(T, ids)
<1>1. MissingIn(S, ids) = {}
  BY DEF Passed, Rate, NotEvaluable
<1> QED BY <1>1, AnsweredIsSettled DEF Rate

\* A rate passes or says that it cannot be computed.
LEMMA RatePasses ==
  ASSUME NEW S, NEW ids, Rate(S, ids) # NotEvaluable
  PROVE  Passed(Rate(S, ids))
BY DEF Rate, Passed

LEMMA FailureRateIsKept ==
  ASSUME NEW m, NEW S, NEW T, Grows(m, S, T), NEW metric, NEW s,
         Passed(FailureRate(m, S, metric, s))
  PROVE  FailureRate(m, S, metric, s) = FailureRate(m, T, metric, s)
<1>1. /\ MissingIn(S, Comparable(m, metric)) = {}
      /\ FailureRate(m, S, metric, s) = Rate(S, ComparableOf(m, metric, s))
  BY DEF FailureRate, Passed, NotEvaluable
<1>2. MissingIn(T, Comparable(m, metric)) = {}
  BY <1>1, AnsweredIsSettled
<1>3. Rate(S, ComparableOf(m, metric, s)) = Rate(T, ComparableOf(m, metric, s))
  BY <1>1, RateIsKept
<1> QED BY <1>1, <1>2, <1>3 DEF FailureRate

LEMMA FamilyRateIsKept ==
  ASSUME NEW m, NEW S, NEW T, Grows(m, S, T), NEW s, NEW e, Passed(FamilyRate(m, S, s, e))
  PROVE  FamilyRate(m, S, s, e) = FamilyRate(m, T, s, e)
<1> DEFINE cases == FamilyCases(m, s, e)
<1>1. cases # {} /\ \A a \in cases : CaseFailure(m, S, a) # NotEvaluable
  BY DEF FamilyRate, Passed, NotEvaluable
<1>2. \A a \in cases : CaseFailure(m, T, a) = CaseFailure(m, S, a)
  BY <1>1, RatePasses, RateIsKept DEF CaseFailure
<1> HIDE DEF cases
<1>3. {<<a.case, CaseFailure(m, T, a)>> : a \in cases} =
        {<<a.case, CaseFailure(m, S, a)>> : a \in cases}
  BY <1>2
<1> QED BY <1>1, <1>2, <1>3 DEF FamilyRate, cases

LEMMA PairedIsKept ==
  ASSUME NEW m, NEW S, NEW T, Grows(m, S, T), NEW metric, NEW l, NEW r,
         Passed(Paired(m, S, metric, l, r))
  PROVE  Paired(m, S, metric, l, r) = Paired(m, T, metric, l, r)
<1> DEFINE ids == ComparableOf(m, metric, l) \cup ComparableOf(m, metric, r)
<1>1. l # r /\ MissingIn(S, ids) = {}
  BY DEF Paired, Passed, NotEvaluable
<1>2. MissingIn(T, ids) = {} /\ RowsOf(T, ids) = RowsOf(S, ids)
  BY <1>1, AnsweredIsSettled
<1> QED BY <1>1, <1>2 DEF Paired

LEMMA SystemRateIsKept ==
  ASSUME NEW m, NEW S, NEW T, Grows(m, S, T), Passed(SystemRate(m, S))
  PROVE  SystemRate(m, S) = SystemRate(m, T)
<1>1. MissingIn(S, SystemIds(m)) = {}
  BY DEF SystemRate, Passed, NotEvaluable
<1>2. MissingIn(T, SystemIds(m)) = {} /\ RowsOf(T, SystemIds(m)) = RowsOf(S, SystemIds(m))
  BY <1>1, AnsweredIsSettled
<1> QED BY <1>1, <1>2, Zenon DEF SystemRate

\* With every planned row there, there is no other row to add.
LEMMA InfrastructureRateIsKept ==
  ASSUME NEW m, NEW S, NEW T, Grows(m, S, T), Passed(InfrastructureRate(m, S))
  PROVE  InfrastructureRate(m, S) = InfrastructureRate(m, T)
<1>1. MissingIn(S, PlannedIds(m)) = {}
  BY DEF InfrastructureRate, Passed, NotEvaluable
<1>2. RowsOf(T, PlannedIds(m)) = T
  BY DEF Grows, Evaluable, RowFits, RowsOf
<1>3. RowsOf(T, PlannedIds(m)) = RowsOf(S, PlannedIds(m))
  BY <1>1, AnsweredIsSettled
<1>4. S = T
  BY <1>2, <1>3 DEF Grows, RowsOf
<1> QED BY <1>4

LEMMA EstimatesStand ==
  ASSUME NEW m, NEW S, NEW T, Grows(m, S, T)
  PROVE  EstimatesKept(m, S, T)
<1>1. \A metric \in Metrics, s \in Subjects :
        Kept(FailureRate(m, S, metric, s), FailureRate(m, T, metric, s))
  BY FailureRateIsKept DEF Kept
<1>2. \A metric \in Metrics, s, r \in Subjects :
        Kept(Paired(m, S, metric, s, r), Paired(m, T, metric, s, r))
  BY PairedIsKept DEF Kept
<1>3. \A s \in Subjects : Kept(ControlRate(m, S, s), ControlRate(m, T, s))
  BY RateIsKept DEF Kept, ControlRate
<1>4. \A s \in Subjects, e \in Entry : Kept(FamilyRate(m, S, s, e), FamilyRate(m, T, s, e))
  BY FamilyRateIsKept DEF Kept
<1>5. \A a \in Attempts(m) : Kept(CaseFailure(m, S, a), CaseFailure(m, T, a))
  BY RateIsKept DEF Kept, CaseFailure
<1>6. /\ Kept(SystemRate(m, S), SystemRate(m, T))
      /\ Kept(InfrastructureRate(m, S), InfrastructureRate(m, T))
  BY SystemRateIsKept, InfrastructureRateIsKept DEF Kept
<1> QED BY <1>1, <1>2, <1>3, <1>4, <1>5, <1>6 DEF EstimatesKept

(***************************************************************************)
(* The paired comparison.                                                  *)
(***************************************************************************)
\* An accepted list of attempts names each of them once.
LEMMA IdsAreDistinct ==
  ASSUME NEW m, Listed(m), WellFormed(m)
  PROVE  /\ IsFiniteSet(PlannedIds(m))
         /\ \A i, j \in DOMAIN m.attempts : m.attempts[i].id = m.attempts[j].id => i = j
<1> DEFINE at == m.attempts  n == Len(at)  f == [i \in 1..n |-> at[i].id]
<1>1. n \in Nat /\ DOMAIN at = 1..n
  BY DEF Listed
<1>2. IsFiniteSet(1..n) /\ Cardinality(1..n) = n
  BY <1>1, FS_Interval
<1>3. PlannedIds(m) = {at[i].id : i \in 1..n}
  BY <1>1 DEF PlannedIds, Attempts
<1>4. f \in Surjection(1..n, PlannedIds(m))
  BY <1>3 DEF Surjection
<1>5. Cardinality(1..n) = Cardinality(PlannedIds(m))
  BY <1>2 DEF WellFormed
<1>6. IsFiniteSet(PlannedIds(m)) /\ f \in Injection(1..n, PlannedIds(m))
  <2> HIDE DEF f, n
  <2> QED BY <1>2, <1>4, <1>5, FS_Surjection, FS_SurjSameCardinalityImpliesInj
<1>7. \A i, j \in 1..n : f[i] = f[j] => i = j
  BY <1>6 DEF Injection, IsInjective
<1> QED BY <1>1, <1>6, <1>7

\* Planned and PlannedAt find what an ID names.
LEMMA PlannedById ==
  ASSUME NEW m, Listed(m), WellFormed(m), NEW a \in Attempts(m)
  PROVE  /\ Planned(m, a.id) = a
         /\ PlannedAt(m, a.id) \in DOMAIN m.attempts
         /\ m.attempts[PlannedAt(m, a.id)] = a
<1>1. PICK i \in DOMAIN m.attempts : m.attempts[i] = a
  BY DEF Attempts
<1>2. /\ PlannedAt(m, a.id) \in DOMAIN m.attempts
      /\ m.attempts[PlannedAt(m, a.id)].id = a.id
  BY <1>1 DEF PlannedAt
<1>3. PlannedAt(m, a.id) = i
  BY <1>1, <1>2, IdsAreDistinct
<1>4. a.id \in PlannedIds(m)
  BY DEF PlannedIds
<1>5. Planned(m, a.id) \in Attempts(m) /\ Planned(m, a.id).id = a.id
  BY <1>4, PlannedIsAttempt
<1>6. PICK j \in DOMAIN m.attempts : m.attempts[j] = Planned(m, a.id)
  BY <1>5 DEF Attempts
<1>7. i = j
  BY <1>1, <1>5, <1>6, IdsAreDistinct
<1> QED BY <1>1, <1>2, <1>3, <1>6, <1>7

\* The retry ordinals are well-defined: a parent comes before its retry.
CountsRetries(g, m, n) ==
    g = [i \in 1..n |-> IF m.attempts[i].parent = None THEN 0
                        ELSE 1 + g[PlannedAt(m, m.attempts[i].parent)]]

LEMMA ParentComesBefore ==
  ASSUME NEW m, Listed(m), WellFormed(m), NEW i \in DOMAIN m.attempts,
         m.attempts[i].parent # None
  PROVE  LET j == PlannedAt(m, m.attempts[i].parent) IN
         /\ j \in 1..(i - 1) /\ j \in DOMAIN m.attempts
         /\ m.attempts[j].id = m.attempts[i].parent
         /\ RetryIdentity(m.attempts[j]) = RetryIdentity(m.attempts[i])
<1>1. i \in Nat /\ DOMAIN m.attempts = 1..Len(m.attempts) /\ Len(m.attempts) \in Nat
  BY DEF Listed
<1>2. PICK k \in 1..(i - 1) : /\ m.attempts[k].id = m.attempts[i].parent
                              /\ RetryIdentity(m.attempts[k]) = RetryIdentity(m.attempts[i])
  BY DEF WellFormed, ValidRetries
<1>3. k \in DOMAIN m.attempts
  BY <1>1
<1>4. /\ PlannedAt(m, m.attempts[i].parent) \in DOMAIN m.attempts
      /\ m.attempts[PlannedAt(m, m.attempts[i].parent)].id = m.attempts[i].parent
  BY <1>2, <1>3 DEF PlannedAt
<1>5. PlannedAt(m, m.attempts[i].parent) = k
  BY <1>2, <1>3, <1>4, IdsAreDistinct
<1> QED BY <1>2, <1>3, <1>5

LEMMA OrdinalsExist ==
  ASSUME NEW m, Listed(m), WellFormed(m), NEW n \in 0..Len(m.attempts)
  PROVE  \E g : CountsRetries(g, m, n)
<1> DEFINE at == m.attempts  before(i) == PlannedAt(m, at[i].parent)
           S == {k \in Nat : k <= Len(at) => \E g : CountsRetries(g, m, k)}
<1>0. Len(at) \in Nat /\ DOMAIN at = 1..Len(at)
  BY DEF Listed
<1>1. 0 \in S
  <2> DEFINE g == [i \in 1..0 |-> 0]
  <2>1. CountsRetries(g, m, 0)
    BY DEF CountsRetries
  <2> QED BY <2>1
<1>2. ASSUME NEW k \in Nat, k \in S PROVE k + 1 \in S
  <2> SUFFICES ASSUME k + 1 <= Len(at) PROVE \E g : CountsRetries(g, m, k + 1)
    OBVIOUS
  <2>1. PICK g : CountsRetries(g, m, k)
    BY <1>0, <1>2
  <2> DEFINE h == [i \in 1..(k + 1) |->
                     IF i # k + 1 THEN g[i]
                     ELSE IF at[i].parent = None THEN 0 ELSE 1 + g[before(i)]]
  <2>2. ASSUME NEW i \in 1..(k + 1)
        PROVE  h[i] = IF at[i].parent = None THEN 0 ELSE 1 + h[before(i)]
    <3>1. at[i].parent # None => before(i) \in 1..(i - 1)
      BY <1>0, ParentComesBefore
    <3>2. at[i].parent # None => before(i) \in 1..k /\ h[before(i)] = g[before(i)]
      BY <3>1
    <3>3. CASE i = k + 1
      BY <3>2, <3>3
    <3>4. CASE i # k + 1
      <4>1. i \in 1..k /\ h[i] = g[i]
        BY <3>4
      <4>2. g[i] = IF at[i].parent = None THEN 0 ELSE 1 + g[before(i)]
        BY <2>1, <4>1 DEF CountsRetries
      <4> QED BY <3>2, <4>1, <4>2
    <3> QED BY <3>3, <3>4
  <2>3. h = [i \in 1..(k + 1) |-> h[i]]
    OBVIOUS
  <2>4. CountsRetries(h, m, k + 1)
    <3> HIDE DEF h
    <3> QED BY <2>2, <2>3 DEF CountsRetries
  <2> QED BY <2>4
<1>3. Nat \subseteq S
  <2> HIDE DEF S
  <2> QED BY <1>1, <1>2, Induction
<1> QED BY <1>0, <1>3

\* A root comes first in its chain, a retry right after its parent.
LEMMA OrdinalOf ==
  ASSUME NEW m, Listed(m), WellFormed(m), NEW a \in Attempts(m)
  PROVE  /\ RetryOrdinal(m, a.id) \in Nat
         /\ a.parent = None => RetryOrdinal(m, a.id) = 0
         /\ a.parent # None =>
               \E b \in Attempts(m) : /\ b.id = a.parent
                                      /\ RetryIdentity(b) = RetryIdentity(a)
                                      /\ RetryOrdinal(m, a.id) = 1 + RetryOrdinal(m, b.id)
<1> DEFINE at == m.attempts  before(i) == PlannedAt(m, at[i].parent)
           g == CHOOSE h : CountsRetries(h, m, Len(at))
<1>0. Len(at) \in Nat /\ DOMAIN at = 1..Len(at)
  BY DEF Listed
<1>1. CountsRetries(g, m, Len(at))
  <2>1. \E h : CountsRetries(h, m, Len(at))
    BY <1>0, OrdinalsExist
  <2> QED BY <2>1, Zenon
<1>2. \A id : RetryOrdinal(m, id) = g[PlannedAt(m, id)]
  <2>1. DOMAIN m.attempts = 1..Len(at)
    BY <1>0
  <2> QED BY <2>1, Zenon DEF RetryOrdinal, CountsRetries
<1> HIDE DEF g
<1>3. \A i \in 1..Len(at) : g[i] = IF at[i].parent = None THEN 0 ELSE 1 + g[before(i)]
  BY <1>1 DEF CountsRetries
<1>4. \A i \in 1..Len(at) : g[i] \in Nat
  <2> DEFINE S == {k \in Nat : \A i \in 1..Len(at) : i <= k => g[i] \in Nat}
  <2>1. 0 \in S
    OBVIOUS
  <2>2. ASSUME NEW k \in Nat, k \in S PROVE k + 1 \in S
    <3> SUFFICES ASSUME NEW i \in 1..Len(at), i = k + 1 PROVE g[i] \in Nat
      BY <2>2
    <3>1. CASE at[i].parent = None
      BY <1>3, <3>1
    <3>2. CASE at[i].parent # None
      <4>1. before(i) \in 1..(i - 1) /\ before(i) \in 1..Len(at)
        BY <1>0, <3>2, ParentComesBefore
      <4>2. g[before(i)] \in Nat
        BY <2>2, <4>1
      <4> QED BY <1>3, <3>2, <4>2
    <3> QED BY <3>1, <3>2
  <2>3. Nat \subseteq S
    <3> HIDE DEF S
    <3> QED BY <2>1, <2>2, Induction
  <2> QED BY <1>0, <2>3
<1> DEFINE i == PlannedAt(m, a.id)
<1>5. i \in 1..Len(at) /\ at[i] = a
  BY <1>0, PlannedById
<1>6. RetryOrdinal(m, a.id) = g[i] /\ g[i] \in Nat
  BY <1>2, <1>4, <1>5
<1>7. ASSUME a.parent = None PROVE RetryOrdinal(m, a.id) = 0
  BY <1>3, <1>5, <1>6, <1>7
<1>8. ASSUME a.parent # None
      PROVE  \E b \in Attempts(m) : /\ b.id = a.parent
                                     /\ RetryIdentity(b) = RetryIdentity(a)
                                     /\ RetryOrdinal(m, a.id) = 1 + RetryOrdinal(m, b.id)
  <2> DEFINE j == before(i)  b == at[j]
  <2>1. j \in DOMAIN at /\ b.id = a.parent /\ RetryIdentity(b) = RetryIdentity(a)
    BY <1>0, <1>5, <1>8, ParentComesBefore
  <2>2. b \in Attempts(m)
    BY <2>1 DEF Attempts
  <2>3. RetryOrdinal(m, b.id) = g[PlannedAt(m, b.id)]
    BY <1>2
  <2>4. PlannedAt(m, b.id) = j
    BY <2>1, <1>5
  <2>5. g[i] = 1 + g[j]
    BY <1>3, <1>5, <1>8
  <2> QED BY <1>6, <2>1, <2>2, <2>3, <2>4, <2>5
<1> QED BY <1>6, <1>7, <1>8

\* What a retry shares with its parent.
LEMMA RetrySharesCase ==
  ASSUME NEW a, NEW b, AttemptFields \subseteq DOMAIN a, AttemptFields \subseteq DOMAIN b,
         RetryIdentity(a) = RetryIdentity(b)
  PROVE  /\ SameCase(a, b) /\ a.replicate = b.replicate /\ a.class = b.class
<1>1. \A f \in {"subject", "entry", "case", "variant", "replicate", "class"} :
         /\ RetryIdentity(a)[f] = a[f] /\ RetryIdentity(b)[f] = b[f]
  BY DEF RetryIdentity, AttemptFields
<1> QED BY <1>1 DEF SameCase

\* Two attempts of one replicate, equally far down their chains.
Twins(m, a, b) ==
    /\ a \in Attempts(m) /\ b \in Attempts(m) /\ a # b
    /\ a.class # "SYSTEM_EVAL_ONLY" /\ b.class # "SYSTEM_EVAL_ONLY"
    /\ SameCase(a, b) /\ a.replicate = b.replicate
    /\ RetryOrdinal(m, a.id) = RetryOrdinal(m, b.id)

TwinRoots(m) ==
    \E a, b \in Roots(m) : a # b /\ SameCase(a, b) /\ a.replicate = b.replicate

\* Twins come down from twin roots, because a parent has one retry.
LEMMA TwinsHaveTwinRoots ==
  ASSUME NEW m, Listed(m), WellFormed(m), NEW x, NEW y, Twins(m, x, y)
  PROVE  TwinRoots(m)
<1> DEFINE ord(a) == RetryOrdinal(m, a.id)
           S == {n \in Nat : \A a, b \in Attempts(m) :
                                Twins(m, a, b) /\ ord(a) = n => TwinRoots(m)}
<1>1. 0 \in S
  <2> SUFFICES ASSUME NEW a \in Attempts(m), NEW b \in Attempts(m), Twins(m, a, b), ord(a) = 0
               PROVE  TwinRoots(m)
    OBVIOUS
  <2>1. \A c \in Attempts(m) : ord(c) \in Nat /\ (c.parent # None => ord(c) # 0)
    <3> SUFFICES ASSUME NEW c \in Attempts(m)
                 PROVE  ord(c) \in Nat /\ (c.parent # None => ord(c) # 0)
      OBVIOUS
    <3>1. ord(c) \in Nat
      BY OrdinalOf
    <3>2. ASSUME c.parent # None PROVE ord(c) # 0
      <4>1. PICK d \in Attempts(m) : ord(c) = 1 + ord(d)
        BY <3>2, OrdinalOf
      <4>2. ord(d) \in Nat
        BY OrdinalOf
      <4> QED BY <4>1, <4>2
    <3> QED BY <3>1, <3>2
  <2>2. a.parent = None /\ b.parent = None
    BY <2>1 DEF Twins
  <2>3. a \in Roots(m) /\ b \in Roots(m)
    BY <2>2 DEF Roots, Twins
  <2> QED BY <2>3 DEF Twins, TwinRoots
<1>2. ASSUME NEW n \in Nat, n \in S PROVE n + 1 \in S
  <2> SUFFICES ASSUME NEW a \in Attempts(m), NEW b \in Attempts(m),
                      Twins(m, a, b), ord(a) = n + 1
               PROVE  TwinRoots(m)
    OBVIOUS
  <2>1. ord(b) = n + 1 /\ n + 1 # 0
    BY DEF Twins
  <2>2. a.parent # None /\ b.parent # None
    BY <2>1, OrdinalOf
  <2>3. PICK c \in Attempts(m) : /\ c.id = a.parent /\ RetryIdentity(c) = RetryIdentity(a)
                                 /\ ord(a) = 1 + ord(c)
    BY <2>2, OrdinalOf
  <2>4. PICK d \in Attempts(m) : /\ d.id = b.parent /\ RetryIdentity(d) = RetryIdentity(b)
                                 /\ ord(b) = 1 + ord(d)
    BY <2>2, OrdinalOf
  <2>5. ord(c) \in Nat /\ ord(d) \in Nat
    BY OrdinalOf
  <2>6. ord(c) = n /\ ord(d) = n
    BY <2>1, <2>3, <2>4, <2>5
  <2>7. c # d
    <3>1. c = d => a.parent = b.parent
      BY <2>3, <2>4
    <3> QED BY <2>2, <3>1 DEF WellFormed, ValidRetries, Twins
  <2>8. /\ SameCase(c, a) /\ c.replicate = a.replicate /\ c.class = a.class
        /\ SameCase(d, b) /\ d.replicate = b.replicate /\ d.class = b.class
    BY <2>3, <2>4, RetrySharesCase DEF Listed
  <2>9. Twins(m, c, d)
    BY <2>6, <2>7, <2>8 DEF Twins, SameCase
  <2> QED BY <1>2, <2>6, <2>9
<1>3. Nat \subseteq S
  <2> HIDE DEF S
  <2> QED BY <1>1, <1>2, Induction
<1>4. ord(x) \in Nat
  BY OrdinalOf DEF Twins
<1> QED BY <1>3, <1>4 DEF Twins

\* What one model's comparable attempts are.
LEMMA ComparableIs ==
  ASSUME NEW m, Listed(m), WellFormed(m), NEW metric \in Metrics, NEW s,
         NEW id \in ComparableOf(m, metric, s)
  PROVE  /\ Planned(m, id) \in Attempts(m) /\ Planned(m, id).id = id
         /\ Planned(m, id).class # "SYSTEM_EVAL_ONLY" /\ Planned(m, id).subject = s
<1>1. PICK a \in Attempts(m) : /\ a.id = id /\ a.class \in MetricClasses(metric)
                               /\ a.subject = s
  BY DEF ComparableOf, Ids
<1>2. Planned(m, id) = a
  BY <1>1, PlannedById
<1>3. "SYSTEM_EVAL_ONLY" \notin MetricClasses(metric)
  BY DEF MetricClasses, DefaultClasses
<1> QED BY <1>1, <1>2, <1>3

LEMMA ComparableIsFinite ==
  ASSUME NEW m, Listed(m), WellFormed(m), NEW metric, NEW s
  PROVE  IsFiniteSet(ComparableOf(m, metric, s))
<1>1. ComparableOf(m, metric, s) \subseteq PlannedIds(m)
  BY DEF ComparableOf, Ids, PlannedIds
<1> QED BY <1>1, IdsAreDistinct, FS_Subset

\* Keys are ambiguous exactly when two attempts share one.
LEMMA AmbiguousKeys ==
  ASSUME NEW m, NEW ids, IsFiniteSet(ids)
  PROVE  PairAmbiguous(m, ids) <=>
           \E x, y \in ids : x # y /\ PairKey(m, x) = PairKey(m, y)
<1> DEFINE f == [x \in ids |-> PairKey(m, x)]
<1>1. f \in Surjection(ids, PairKeys(m, ids))
  BY DEF Surjection, PairKeys
<1>2. Cardinality(PairKeys(m, ids)) = Cardinality(ids) <=> f \in Injection(ids, PairKeys(m, ids))
  <2> HIDE DEF f
  <2> QED BY <1>1, FS_Surjection
<1>3. f \in Injection(ids, PairKeys(m, ids)) <=>
        \A x, y \in ids : PairKey(m, x) = PairKey(m, y) => x = y
  <2>1. f \in [ids -> PairKeys(m, ids)]
    BY <1>1 DEF Surjection
  <2>2. \A x \in ids : f[x] = PairKey(m, x)
    OBVIOUS
  <2>3. DOMAIN f = ids
    OBVIOUS
  <2> HIDE DEF f
  <2> QED BY <2>1, <2>2, <2>3 DEF Injection, IsInjective
<1> QED BY <1>2, <1>3 DEF PairAmbiguous

\* Pairing raises only where two root trials share a replicate index.
LEMMA AmbiguityIsOfRoots ==
  ASSUME NEW m, Listed(m), WellFormed(m), NEW metric \in Metrics, NEW s,
         PairAmbiguous(m, ComparableOf(m, metric, s))
  PROVE  TwinRoots(m)
<1>1. PICK x, y \in ComparableOf(m, metric, s) : x # y /\ PairKey(m, x) = PairKey(m, y)
  BY ComparableIsFinite, AmbiguousKeys
<1> DEFINE a == Planned(m, x)  b == Planned(m, y)
<1>2. /\ a \in Attempts(m) /\ a.id = x /\ a.class # "SYSTEM_EVAL_ONLY" /\ a.subject = s
      /\ b \in Attempts(m) /\ b.id = y /\ b.class # "SYSTEM_EVAL_ONLY" /\ b.subject = s
  BY <1>1, ComparableIs
<1>3. /\ a.entry = b.entry /\ a.case = b.case /\ a.variant = b.variant
      /\ a.replicate = b.replicate /\ RetryOrdinal(m, x) = RetryOrdinal(m, y)
  BY <1>1 DEF PairKey
<1> HIDE DEF a, b
<1>4. Twins(m, a, b)
  BY <1>1, <1>2, <1>3 DEF Twins, SameCase
<1> QED BY <1>4, TwinsHaveTwinRoots

LEMMA TwinRootsAreNoPilot ==
  ASSUME NEW m, TwinRoots(m)
  PROVE  ~PilotDesign(m)
BY DEF TwinRoots, PilotDesign

\* Counting one side of a set of pairs, or the pairs swapped.
Swapped(P) == {<<p[2], p[1]>> : p \in P}

LEMMA SwapCounts ==
  ASSUME NEW L, NEW R, NEW P \in SUBSET (L \X R), IsFiniteSet(P)
  PROVE  Cardinality(Swapped(P)) = Cardinality(P)
<1> DEFINE f == [p \in P |-> <<p[2], p[1]>>]
<1>1. f \in Surjection(P, Swapped(P))
  BY DEF Surjection, Swapped
<1>2. \A p, q \in P : f[p] = f[q] => p = q
  <2> SUFFICES ASSUME NEW p \in P, NEW q \in P, f[p] = f[q] PROVE p = q
    OBVIOUS
  <2>1. p = <<p[1], p[2]>> /\ q = <<q[1], q[2]>>
    OBVIOUS
  <2>2. p[1] = q[1] /\ p[2] = q[2]
    OBVIOUS
  <2> QED BY <2>1, <2>2
<1>3. f \in Injection(P, Swapped(P))
  BY <1>1, <1>2 DEF Surjection, Injection, IsInjective
<1> HIDE DEF f
<1> QED BY <1>1, <1>3, FS_Surjection

\* Of two models with unambiguous keys, each attempt is in one pair at most.
LEMMA PairsAreMatched ==
  ASSUME NEW m, NEW L, NEW R, IsFiniteSet(L), IsFiniteSet(R),
         ~PairAmbiguous(m, L), ~PairAmbiguous(m, R)
  PROVE  /\ IsFiniteSet(KeyPairs(m, L, R))
         /\ \A p, q \in KeyPairs(m, L, R) : p[1] = q[1] \/ p[2] = q[2] => p = q
<1>1. IsFiniteSet(KeyPairs(m, L, R))
  <2>1. KeyPairs(m, L, R) \subseteq L \X R
    BY DEF KeyPairs
  <2> QED BY <2>1, FS_Product, FS_Subset
<1>2. ASSUME NEW p \in KeyPairs(m, L, R), NEW q \in KeyPairs(m, L, R),
             p[1] = q[1] \/ p[2] = q[2]
      PROVE  p = q
  <2>1. /\ p = <<p[1], p[2]>> /\ q = <<q[1], q[2]>>
        /\ p[1] \in L /\ q[1] \in L /\ p[2] \in R /\ q[2] \in R
        /\ PairKey(m, p[1]) = PairKey(m, p[2]) /\ PairKey(m, q[1]) = PairKey(m, q[2])
    BY DEF KeyPairs
  <2>2. PairKey(m, p[1]) = PairKey(m, q[1]) /\ PairKey(m, p[2]) = PairKey(m, q[2])
    BY <1>2, <2>1
  <2>3. p[1] = q[1] /\ p[2] = q[2]
    BY <2>1, <2>2, AmbiguousKeys
  <2> QED BY <2>1, <2>3
<1> QED BY <1>1, <1>2

\* The included pairs one side of which failed.
FailedOn(m, S, L, R, side) == {x \in Included(m, S, L, R) : ScoreOf(S, x[side]) = 1}

\* A passing comparison says what it counted.
LEMMA ComparisonCounts ==
  ASSUME NEW m, NEW S, NEW L, NEW R, Passed(PairedOver(m, S, L, R))
  PROVE  /\ ~PairAmbiguous(m, L) /\ ~PairAmbiguous(m, R)
         /\ L # {} /\ PairKeys(m, L) = PairKeys(m, R) /\ Included(m, S, L, R) # {}
         /\ \A x \in KeyPairs(m, L, R) : Planned(m, x[1]).config = Planned(m, x[2]).config
         /\ PairedOver(m, S, L, R).pairs = Cardinality(Included(m, S, L, R))
         /\ PairedOver(m, S, L, R).excluded = Cardinality(L) - Cardinality(Included(m, S, L, R))
         /\ PairedOver(m, S, L, R).left = Cardinality(FailedOn(m, S, L, R, 1))
         /\ PairedOver(m, S, L, R).right = Cardinality(FailedOn(m, S, L, R, 2))
<1> DEFINE I == Included(m, S, L, R)
<1>1. /\ ~PairAmbiguous(m, L) /\ ~PairAmbiguous(m, R)
      /\ L # {} /\ PairKeys(m, L) = PairKeys(m, R) /\ I # {}
      /\ \A x \in KeyPairs(m, L, R) : Planned(m, x[1]).config = Planned(m, x[2]).config
  BY DEF PairedOver, Passed, NotEvaluable
<1>2. PairedOver(m, S, L, R) =
        [status |-> "PASS", pairs |-> Cardinality(I),
         excluded |-> Cardinality(L) - Cardinality(I),
         left |-> Cardinality({x \in I : ScoreOf(S, x[1]) = 1}),
         right |-> Cardinality({x \in I : ScoreOf(S, x[2]) = 1})]
  BY <1>1, Zenon DEF PairedOver
<1> HIDE DEF I
<1>3. /\ PairedOver(m, S, L, R).pairs = Cardinality(I)
      /\ PairedOver(m, S, L, R).excluded = Cardinality(L) - Cardinality(I)
      /\ PairedOver(m, S, L, R).left = Cardinality({x \in I : ScoreOf(S, x[1]) = 1})
      /\ PairedOver(m, S, L, R).right = Cardinality({x \in I : ScoreOf(S, x[2]) = 1})
  BY <1>2
<1> QED BY <1>1, <1>3 DEF I, FailedOn

\* The other way round, a comparison passes with the sides swapped.
LEMMA ComparisonSwaps ==
  ASSUME NEW m, NEW S, NEW L, NEW R, IsFiniteSet(L), IsFiniteSet(R),
         Passed(PairedOver(m, S, L, R))
  PROVE  LET p == PairedOver(m, S, L, R)
             q == PairedOver(m, S, R, L)
         IN q.status = "PASS" /\ q.left = p.right /\ q.pairs = p.pairs
<1> DEFINE I == Included(m, S, L, R)  J == Included(m, S, R, L)
           A == FailedOn(m, S, L, R, 2)  B == FailedOn(m, S, R, L, 1)
<1>1. /\ ~PairAmbiguous(m, L) /\ ~PairAmbiguous(m, R)
      /\ L # {} /\ PairKeys(m, L) = PairKeys(m, R) /\ I # {}
      /\ \A x \in KeyPairs(m, L, R) : Planned(m, x[1]).config = Planned(m, x[2]).config
      /\ PairedOver(m, S, L, R).pairs = Cardinality(I)
      /\ PairedOver(m, S, L, R).right = Cardinality(A)
  BY ComparisonCounts
<1>2. KeyPairs(m, R, L) = Swapped(KeyPairs(m, L, R))
  <2>1. ASSUME NEW y \in KeyPairs(m, R, L) PROVE y \in Swapped(KeyPairs(m, L, R))
    <3>1. /\ y = <<y[2], y[1]>> \/ y = <<y[1], y[2]>>
          /\ y[1] \in R /\ y[2] \in L /\ PairKey(m, y[1]) = PairKey(m, y[2])
      BY DEF KeyPairs
    <3>2. y = <<y[1], y[2]>>
      BY DEF KeyPairs
    <3> DEFINE x == <<y[2], y[1]>>
    <3>3. x \in KeyPairs(m, L, R) /\ y = <<x[2], x[1]>>
      BY <3>1, <3>2 DEF KeyPairs
    <3> QED BY <3>3 DEF Swapped
  <2>2. ASSUME NEW x \in KeyPairs(m, L, R) PROVE <<x[2], x[1]>> \in KeyPairs(m, R, L)
    BY DEF KeyPairs
  <2> QED BY <2>1, <2>2 DEF Swapped
<1>3. J = Swapped(I)
  <2>1. \A x \in KeyPairs(m, L, R) : <<x[2], x[1]>>[1] = x[2] /\ <<x[2], x[1]>>[2] = x[1]
    OBVIOUS
  <2> QED BY <1>2, <2>1 DEF Included, Swapped
<1>4. B = Swapped(A)
  <2>1. \A x \in I : <<x[2], x[1]>>[1] = x[2]
    OBVIOUS
  <2>2. A = {x \in I : ScoreOf(S, x[2]) = 1} /\ B = {x \in J : ScoreOf(S, x[1]) = 1}
    BY DEF FailedOn
  <2> HIDE DEF I, J, A, B
  <2> QED BY <1>3, <2>1, <2>2 DEF Swapped
<1>5. /\ I \in SUBSET (L \X R) /\ A \in SUBSET (L \X R)
      /\ IsFiniteSet(I) /\ IsFiniteSet(A)
  <2>1. A \subseteq I /\ I \subseteq KeyPairs(m, L, R) /\ KeyPairs(m, L, R) \subseteq L \X R
    BY DEF Included, KeyPairs, FailedOn
  <2>2. IsFiniteSet(KeyPairs(m, L, R))
    BY <1>1, PairsAreMatched
  <2>3. IsFiniteSet(I)
    BY <2>1, <2>2, FS_Subset
  <2>4. IsFiniteSet(A)
    BY <2>1, <2>3, FS_Subset
  <2> QED BY <2>1, <2>3, <2>4
<1>6. Cardinality(J) = Cardinality(I) /\ Cardinality(B) = Cardinality(A)
  <2> HIDE DEF I, J, A, B
  <2> QED BY <1>3, <1>4, <1>5, SwapCounts
<1>7. R # {}
  BY <1>1 DEF PairKeys
<1>8. J # {}
  <2> HIDE DEF I, J
  <2> QED BY <1>1, <1>3 DEF Swapped
<1>9. \A y \in KeyPairs(m, R, L) : Planned(m, y[1]).config = Planned(m, y[2]).config
  <2>1. \A x \in KeyPairs(m, L, R) : <<x[2], x[1]>>[1] = x[2] /\ <<x[2], x[1]>>[2] = x[1]
    OBVIOUS
  <2> QED BY <1>1, <1>2, <2>1 DEF Swapped
<1>10. PairedOver(m, S, R, L) =
        [status |-> "PASS", pairs |-> Cardinality(J),
         excluded |-> Cardinality(R) - Cardinality(J),
         left |-> Cardinality(B),
         right |-> Cardinality({x \in J : ScoreOf(S, x[2]) = 1})]
  BY <1>1, <1>7, <1>8, <1>9, Zenon DEF PairedOver, FailedOn
<1>11. /\ PairedOver(m, S, R, L).status = "PASS"
       /\ PairedOver(m, S, R, L).pairs = Cardinality(J)
       /\ PairedOver(m, S, R, L).left = Cardinality(B)
  <2> HIDE DEF J, B
  <2> QED BY <1>10
<1> QED BY <1>1, <1>6, <1>11

\* The row of an answered attempt, and its score.
LEMMA RowOfAnswered ==
  ASSUME NEW S, NEW ids, MissingIn(S, ids) = {}, NEW id \in ids
  PROVE  \E o \in RowsOf(S, ids) : o.attempt = id /\ o.value = ScoreOf(RowsOf(S, ids), id)
<1>1. \E o \in RowsOf(S, ids) : o.attempt = id
  BY DEF MissingIn, Answered, RowsOf
<1> QED BY <1>1 DEF ScoreOf

AgreesWithRate(p, S, L) ==
    /\ p.pairs + p.excluded = Cardinality(L)
    /\ p.left <= Failures(RowsOf(S, L))
    /\ p.excluded = 0 => p.left = Failures(RowsOf(S, L))

\* The failures a comparison counts are failures of the rate, and where no pair
\* is excluded they are all of them.
LEMMA ComparisonAgainstRate ==
  ASSUME NEW m, NEW S, NEW L, NEW R, IsFiniteSet(L), IsFiniteSet(R),
         NoDuplicate(S), MissingIn(S, L \cup R) = {},
         Passed(PairedOver(m, RowsOf(S, L \cup R), L, R))
  PROVE  AgreesWithRate(PairedOver(m, RowsOf(S, L \cup R), L, R), S, L)
<1> DEFINE U == RowsOf(S, L \cup R)  I == Included(m, U, L, R)  D == FailedOn(m, U, L, R, 1)
           F == {o \in RowsOf(S, L) : o.value = 1}  p == PairedOver(m, U, L, R)
           row(id) == CHOOSE o \in U : o.attempt = id
           f == [x \in D |-> row(x[1])]  g == [x \in I |-> x[1]]  h == [o \in F |-> o.attempt]
<1>1. /\ ~PairAmbiguous(m, L) /\ ~PairAmbiguous(m, R)
      /\ p.pairs = Cardinality(I) /\ p.excluded = Cardinality(L) - Cardinality(I)
      /\ p.left = Cardinality(D)
  BY ComparisonCounts
<1>2. /\ D \subseteq I /\ I \subseteq KeyPairs(m, L, R) /\ KeyPairs(m, L, R) \subseteq L \X R
      /\ \A x \in I : x \in D <=> ScoreOf(U, x[1]) = 1
  BY DEF Included, KeyPairs, FailedOn
<1>3. \A x, y \in I : x[1] = y[1] => x = y
  BY <1>1, <1>2, PairsAreMatched
<1>4. IsFiniteSet(I) /\ IsFiniteSet(D)
  <2>1. IsFiniteSet(KeyPairs(m, L, R))
    BY <1>1, PairsAreMatched
  <2>2. IsFiniteSet(I)
    BY <1>2, <2>1, FS_Subset
  <2> QED BY <1>2, <2>2, FS_Subset
<1>5. \A id \in L : /\ row(id) \in U /\ row(id).attempt = id
                    /\ row(id).value = ScoreOf(U, id) /\ row(id) \in RowsOf(S, L)
  <2> SUFFICES ASSUME NEW id \in L
               PROVE  /\ row(id) \in U /\ row(id).attempt = id
                      /\ row(id).value = ScoreOf(U, id) /\ row(id) \in RowsOf(S, L)
    OBVIOUS
  <2>1. \E o \in U : o.attempt = id
    BY RowOfAnswered
  <2>2. row(id) \in U /\ row(id).attempt = id
    <3> HIDE DEF U
    <3> QED BY <2>1
  <2>3. row(id).value = ScoreOf(U, id)
    BY DEF ScoreOf
  <2>4. row(id) \in RowsOf(S, L)
    BY <2>2 DEF RowsOf
  <2> QED BY <2>2, <2>3, <2>4
<1>6. \A o \in F : o.attempt \in L /\ row(o.attempt) = o /\ ScoreOf(U, o.attempt) = 1
  <2> SUFFICES ASSUME NEW o \in F
               PROVE  o.attempt \in L /\ row(o.attempt) = o /\ ScoreOf(U, o.attempt) = 1
    OBVIOUS
  <2>1. o \in S /\ o.attempt \in L /\ o.value = 1
    BY DEF RowsOf
  <2>2. row(o.attempt) \in S /\ row(o.attempt).attempt = o.attempt
    BY <1>5, <2>1 DEF RowsOf
  <2>3. row(o.attempt) = o
    <3> HIDE DEF row
    <3> QED BY <2>1, <2>2 DEF NoDuplicate
  <2> QED BY <1>5, <2>1, <2>3
<1>7. \A id \in L : ScoreOf(U, id) = 1 => row(id) \in F
  BY <1>5
<1>8. \A x \in I : x[1] \in L
  BY <1>2
<1> HIDE DEF row, F, U, I, D, p
<1>9. f \in Injection(D, F)
  <2>1. f \in [D -> F]
    BY <1>2, <1>7, <1>8
  <2>2. ASSUME NEW x \in D, NEW y \in D, f[x] = f[y] PROVE x = y
    <3>1. row(x[1]) = row(y[1])
      BY <2>2
    <3>2. row(x[1]).attempt = x[1] /\ row(y[1]).attempt = y[1]
      BY <1>2, <1>5, <1>8
    <3> QED BY <1>2, <1>3, <3>1, <3>2
  <2>3. DOMAIN f = D
    OBVIOUS
  <2> HIDE DEF f
  <2> QED BY <2>1, <2>2, <2>3 DEF Injection, IsInjective
<1>10. IsFiniteSet(F)
  <2>1. h \in [F -> L] /\ DOMAIN h = F
    BY <1>6
  <2>2. \A x, y \in F : h[x] = h[y] => x = y
    BY <1>6
  <2> HIDE DEF h
  <2>3. h \in Injection(F, L)
    BY <2>1, <2>2 DEF Injection, IsInjective
  <2> QED BY <2>3, FS_Injection
<1>11. Cardinality(D) <= Cardinality(F)
       /\ (Cardinality(D) = Cardinality(F) <=> f \in Surjection(D, F))
  <2> HIDE DEF f
  <2> QED BY <1>9, <1>10, FS_Injection
<1>12. g \in Injection(I, L)
  <2>1. g \in [I -> L] /\ DOMAIN g = I
    BY <1>8
  <2>2. \A x, y \in I : g[x] = g[y] => x = y
    BY <1>3
  <2> HIDE DEF g
  <2> QED BY <2>1, <2>2 DEF Injection, IsInjective
<1>13. Cardinality(I) \in Nat /\ Cardinality(L) \in Nat
  BY <1>4, FS_CardinalityType
<1>14. ASSUME p.excluded = 0 PROVE f \in Surjection(D, F)
  <2>1. Cardinality(I) = Cardinality(L)
    BY <1>1, <1>13, <1>14
  <2>2. g \in Surjection(I, L)
    <3> HIDE DEF g
    <3> QED BY <1>12, <2>1, FS_Injection
  <2>3. \A id \in L : \E x \in I : x[1] = id
    BY <2>2 DEF Surjection
  <2>4. ASSUME NEW o \in F PROVE \E x \in D : f[x] = o
    <3>1. PICK x \in I : x[1] = o.attempt
      BY <1>6, <2>3
    <3>2. x \in D /\ row(x[1]) = o
      BY <1>2, <1>6, <3>1
    <3> QED BY <3>2
  <2>5. f \in [D -> F]
    BY <1>9 DEF Injection
  <2> HIDE DEF f
  <2> QED BY <2>4, <2>5 DEF Surjection
<1>15. Cardinality(F) = Failures(RowsOf(S, L))
  BY DEF Failures, F
<1>16. p.pairs + p.excluded = Cardinality(L)
  BY <1>1, <1>13
<1>17. p.left <= Failures(RowsOf(S, L)) /\ (p.excluded = 0 => p.left = Failures(RowsOf(S, L)))
  BY <1>1, <1>11, <1>14, <1>15
<1> QED BY <1>16, <1>17 DEF p, U, AgreesWithRate

\* Nothing a study does removes a row or a record, or edits the manifest.
LEMMA NothingIsRemoved ==
  [Next]_vars => /\ manifest' = manifest
                 /\ rows \subseteq rows'
                 /\ records \subseteq records'
<1> SUFFICES ASSUME [Next]_vars
             PROVE  manifest' = manifest /\ rows \subseteq rows' /\ records \subseteq records'
  OBVIOUS
<1>1. CASE File
  <2>1. UNCHANGED studyVars
    BY <1>1 DEF File
  <2>2. \E r : records' = records \cup {r}
    BY <1>1, Zenon DEF File
  <2> QED BY <2>1, <2>2 DEF studyVars
<1>2. CASE (Freeze \/ Refuse) /\ UNCHANGED records
  BY <1>2 DEF Freeze, Refuse
<1>3. CASE (DeliverAnswer \/ DeliverOdd) /\ UNCHANGED records
  <2>1. \E row : Deliver(row)
    BY <1>3, Zenon DEF DeliverAnswer, DeliverOdd
  <2> QED BY <1>3, <2>1 DEF Deliver
<1>4. CASE UNCHANGED vars
  BY <1>4 DEF vars
<1> QED BY <1>1, <1>2, <1>3, <1>4 DEF Next

\* paired_complete_case_v1, model_failure_denominator_v1: in every state of a
\* study the comparison of two models and their rates are readings of one grid.
THEOREM ComparisonsAgree == Spec => []PairsAgreeWithRates
<1>1. manifest \in Drafts => PairsAgreeWithRates
  <2> DEFINE m == manifest  S == rows
  <2> SUFFICES ASSUME m \in Drafts, Evaluable(m, S), NEW metric \in Metrics,
                      NEW l \in Subjects, NEW r \in Subjects, l # r
               PROVE  LET p == Paired(m, S, metric, l, r)
                          q == Paired(m, S, metric, r, l)
                          rate == FailureRate(m, S, metric, l)
                      IN /\ p.status = "RAISED" => ~PilotDesign(m) /\ TwinRoots(m)
                         /\ Passed(p) =>
                               /\ p.pairs + p.excluded = Cardinality(ComparableOf(m, metric, l))
                               /\ q.status = "PASS" /\ q.left = p.right /\ q.pairs = p.pairs
                               /\ Passed(rate) => /\ p.left <= rate.failures
                                                  /\ p.excluded = 0 => p.left = rate.failures
    BY DEF PairsAgreeWithRates, TwinRoots
  <2> DEFINE L == ComparableOf(m, metric, l)  R == ComparableOf(m, metric, r)
             U == RowsOf(S, L \cup R)
             p == Paired(m, S, metric, l, r)  q == Paired(m, S, metric, r, l)
             rate == FailureRate(m, S, metric, l)
  <2>1. Listed(m) /\ WellFormed(m) /\ NoDuplicate(S)
    BY DraftAssumption, AcceptedIsWellFormed DEF Evaluable
  <2>2. IsFiniteSet(L) /\ IsFiniteSet(R)
    BY <2>1, ComparableIsFinite
  <2>3. ASSUME p.status = "RAISED" PROVE ~PilotDesign(m) /\ TwinRoots(m)
    <3>1. MissingIn(S, L \cup R) = {} /\ p = PairedOver(m, U, L, R)
      BY <2>3 DEF Paired, NotEvaluable
    <3>2. PairAmbiguous(m, L) \/ PairAmbiguous(m, R)
      BY <2>3, <3>1 DEF PairedOver, NotEvaluable
    <3>3. TwinRoots(m)
      BY <2>1, <3>2, AmbiguityIsOfRoots
    <3> QED BY <3>3, TwinRootsAreNoPilot
  <2>4. ASSUME Passed(p)
        PROVE  /\ p.pairs + p.excluded = Cardinality(L)
               /\ q.status = "PASS" /\ q.left = p.right /\ q.pairs = p.pairs
               /\ Passed(rate) => /\ p.left <= rate.failures
                                  /\ p.excluded = 0 => p.left = rate.failures
    <3>1. MissingIn(S, L \cup R) = {} /\ p = PairedOver(m, U, L, R)
      BY <2>4 DEF Paired, NotEvaluable, Passed
    <3>2. R \cup L = L \cup R
      OBVIOUS
    <3>3. q = PairedOver(m, U, R, L)
      BY <3>1, <3>2 DEF Paired
    <3>4. Passed(PairedOver(m, U, L, R))
      BY <2>4, <3>1
    <3>5. q.status = "PASS" /\ q.left = p.right /\ q.pairs = p.pairs
      <4> HIDE DEF L, R, U, p, q
      <4> QED BY <2>2, <3>1, <3>3, <3>4, ComparisonSwaps
    <3>6. /\ p.pairs + p.excluded = Cardinality(L)
          /\ p.left <= Failures(RowsOf(S, L))
          /\ p.excluded = 0 => p.left = Failures(RowsOf(S, L))
      <4>1. AgreesWithRate(PairedOver(m, U, L, R), S, L)
        BY <2>1, <2>2, <3>1, <3>4, ComparisonAgainstRate
      <4> HIDE DEF L, R, p, U
      <4> QED BY <3>1, <4>1 DEF AgreesWithRate
    <3>7. Passed(rate) => rate.failures = Failures(RowsOf(S, L))
      BY DEF FailureRate, Rate, Passed, NotEvaluable
    <3> HIDE DEF L, p, q, rate
    <3> QED BY <3>5, <3>6, <3>7
  <2> QED BY <2>3, <2>4
<1>2. Init => manifest \in Drafts
  BY DEF Init, StudyInit
<1>3. manifest \in Drafts /\ [Next]_vars => (manifest \in Drafts)'
  BY NothingIsRemoved
<1> QED BY <1>1, <1>2, <1>3, PTL DEF Spec

(***************************************************************************)
(* The adjudication of one item.                                           *)
(***************************************************************************)
\* A frozen plan names exactly two primaries.
LEMMA TwoPrimaries ==
  ASSUME NEW m, ~Refusable(m)
  PROVE  \E p, q \in m.adjudicators.primaries :
             p # q /\ m.adjudicators.tiebreak \notin {p, q}
<1> DEFINE P == m.adjudicators.primaries
<1>1. /\ IsFiniteSet(P) /\ Cardinality(P) = 2
      /\ m.adjudicators.tiebreak \notin P
  BY AcceptedIsWellFormed DEF WellFormed, ValidAdjudicators, ValidSelection
<1> HIDE DEF P
<1>2. PICK p \in P : TRUE
  BY <1>1, FS_EmptySet
<1>3. IsFiniteSet(P \ {p}) /\ Cardinality(P \ {p}) = 2 - 1
  BY <1>1, <1>2, FS_RemoveElement
<1>4. PICK q \in P \ {p} : TRUE
  BY <1>3, FS_EmptySet
<1> QED BY <1>1, <1>2, <1>4 DEF P

\* The resolution reads the records by role.
LEMMA ResolutionReadsRoles ==
  ASSUME NEW m, NEW S, NEW T,
         By(S, "PRIMARY") = By(T, "PRIMARY"), By(S, "TIEBREAK") = By(T, "TIEBREAK")
  PROVE  Resolution(m, S) = Resolution(m, T)
<1>1. /\ PrimaryErred(S) <=> PrimaryErred(T)
      /\ PrimariesComplete(m, S) <=> PrimariesComplete(m, T)
      /\ PrimaryUnknown(S) <=> PrimaryUnknown(T)
      /\ PrimariesAgree(S) <=> PrimariesAgree(T)
  BY DEF PrimaryErred, PrimariesComplete, PrimaryUnknown, PrimariesAgree
<1> QED BY <1>1 DEF Resolution

\* A label has every primary decided, and is what they agree on or what the
\* tiebreaker decided.
LEMMA LabelIsDecided ==
  ASSUME NEW m, NEW S, Labelled(m, S)
  PROVE  /\ ~PrimaryErred(S) /\ PrimariesComplete(m, S) /\ ~PrimaryUnknown(S)
         /\ \/ /\ PrimariesAgree(S)
               /\ \A r \in By(S, "PRIMARY") : r.decision = Resolution(m, S).decision
            \/ /\ ~PrimariesAgree(S)
               /\ \E r \in By(S, "TIEBREAK") :
                     /\ r.status # "ERROR" /\ r.decision # "UNKNOWN"
                     /\ r.decision = Resolution(m, S).decision
<1> DEFINE d == Resolution(m, S).decision
           primary == AnyOf(By(S, "PRIMARY"))
           tiebreak == AnyOf(By(S, "TIEBREAK"))
<1>1. d # None
  BY DEF Labelled
<1>2. ~PrimaryErred(S) /\ PrimariesComplete(m, S) /\ ~PrimaryUnknown(S)
  BY <1>1 DEF Resolution, Verdict
<1>3. CASE PrimariesAgree(S)
  <2>1. d = primary.decision
    BY <1>2, <1>3 DEF Resolution, Verdict
  <2>2. \A r \in By(S, "PRIMARY") : primary \in By(S, "PRIMARY")
    BY DEF AnyOf
  <2>3. \A r \in By(S, "PRIMARY") : r.decision = primary.decision
    BY <1>3, <2>2 DEF PrimariesAgree
  <2> QED BY <1>2, <1>3, <2>1, <2>3
<1>4. CASE ~PrimariesAgree(S)
  <2>1. /\ By(S, "TIEBREAK") # {} /\ tiebreak.status # "ERROR"
        /\ tiebreak.decision # "UNKNOWN" /\ d = tiebreak.decision
    BY <1>1, <1>2, <1>4 DEF Resolution, Verdict
  <2>2. tiebreak \in By(S, "TIEBREAK")
    BY <2>1 DEF AnyOf
  <2> QED BY <1>2, <1>4, <2>1, <2>2
<1> QED BY <1>3, <1>4

\* A record that does not report an error and decides was complete.
LEMMA DecidedIsComplete ==
  ASSUME NEW r, ValidRecord(r), r.status # "ERROR", r.decision # "UNKNOWN"
  PROVE  /\ r.decision \in {"PASS", "FAIL"}
         /\ r.blind /\ r.complete /\ r.kind = "HUMAN"
BY DEF ValidRecord

\* resolve_adjudication_v1: every label, of every manifest and every set of
\* records, rests on two different planned people who decided it blind and on
\* complete evidence.
THEOREM LabelsHaveTwoHumans == Spec => []TwoHumansPerLabel
<1>1. TwoHumansPerLabel
  <2> DEFINE m == manifest  S == records  P == By(S, "PRIMARY")  T == By(S, "TIEBREAK")
             d == Resolution(m, S).decision  plan == m.adjudicators
             Backs(r) == r.decision = d /\ r.blind /\ r.complete /\ r.kind = "HUMAN"
             Goal == \E r, q \in S : /\ r.adjudicator # q.adjudicator
                                     /\ {r.adjudicator, q.adjudicator} \subseteq
                                           plan.primaries \cup {plan.tiebreak}
                                     /\ \A x \in {r, q} : Backs(x)
  <2> SUFFICES ASSUME Labelled(m, S) PROVE Goal
    BY DEF TwoHumansPerLabel
  <2>1. Admissible(m, S) /\ (T # {} => TiebreakAllowed(m, S))
    BY DEF Labelled, Resolvable
  <2>2. /\ PrimariesComplete(m, S)
        /\ \A r \in P : r.status # "ERROR" /\ r.decision # "UNKNOWN"
    BY LabelIsDecided DEF PrimaryErred, PrimaryUnknown
  <2>3. P \subseteq S /\ T \subseteq S /\ \A r \in S : ValidRecord(r)
    BY <2>1 DEF Admissible, By
  <2>4. \A r \in P : /\ r.adjudicator \in plan.primaries /\ r.decision \in {"PASS", "FAIL"}
                     /\ r.blind /\ r.complete /\ r.kind = "HUMAN"
    <3>1. \A r \in P : r.adjudicator \in plan.primaries
      BY <2>1 DEF Admissible, Judges
    <3> QED BY <3>1, <2>2, <2>3, DecidedIsComplete
  <2>5. PICK p, q \in plan.primaries : p # q /\ plan.tiebreak \notin {p, q}
    BY <2>1, TwoPrimaries DEF Admissible
  <2>6. PICK x \in P, y \in P : x.adjudicator = p /\ y.adjudicator = q
    BY <2>2, <2>5 DEF PrimariesComplete, Judges
  <2>7. CASE PrimariesAgree(S)
    <3>1. x.decision = d /\ y.decision = d
      BY <2>6, <2>7, LabelIsDecided
    <3>2. Backs(x) /\ Backs(y)
      BY <3>1, <2>4, <2>6
    <3> HIDE DEF d
    <3> QED BY <3>2, <2>3, <2>5, <2>6
  <2>8. CASE ~PrimariesAgree(S)
    <3>1. PICK t \in T : t.status # "ERROR" /\ t.decision # "UNKNOWN" /\ t.decision = d
      BY <2>8, LabelIsDecided
    <3>2. t.decision \in {"PASS", "FAIL"} /\ Backs(t)
      BY <3>1, <2>3, DecidedIsComplete
    <3>3. t.adjudicator = plan.tiebreak
      BY <2>1, <3>1 DEF Admissible, Judges
    <3>4. PICK z \in P : z.decision = t.decision
      <4>1. PICK a, b \in P : a.decision # b.decision
        BY <2>8 DEF PrimariesAgree
      <4> QED BY <4>1, <2>4, <3>2
    <3>5. Backs(z)
      BY <3>1, <3>4, <2>4
    <3>6. z.adjudicator \in plan.primaries /\ z.adjudicator # plan.tiebreak
      <4>1. plan.tiebreak \notin plan.primaries
        BY <2>1, AcceptedIsWellFormed
        DEF Admissible, WellFormed, ValidAdjudicators, ValidSelection
      <4> QED BY <4>1, <2>4, <3>4
    <3> HIDE DEF d
    <3> QED BY <2>3, <3>1, <3>2, <3>3, <3>4, <3>5, <3>6
  <2> QED BY <2>7, <2>8
<1> QED BY <1>1, PTL

\* The records of a role never grow once all the people planned for it filed.
LEMMA RoleIsFull ==
  ASSUME NEW m, NEW S, NEW T, S \subseteq T, Admissible(m, T)
  PROVE  /\ PrimariesComplete(m, S) => By(S, "PRIMARY") = By(T, "PRIMARY")
         /\ By(S, "TIEBREAK") # {} => By(S, "TIEBREAK") = By(T, "TIEBREAK")
<1>1. \A r, q \in T : r.adjudicator = q.adjudicator => r = q
  BY DEF Admissible
<1>2. ASSUME PrimariesComplete(m, S), NEW r \in By(T, "PRIMARY")
      PROVE  r \in By(S, "PRIMARY")
  <2>1. r.adjudicator \in m.adjudicators.primaries
    BY <1>2 DEF Admissible, Judges
  <2>2. PICK q \in By(S, "PRIMARY") : q.adjudicator = r.adjudicator
    BY <1>2, <2>1 DEF PrimariesComplete, Judges
  <2>3. r = q
    BY <1>1, <1>2, <2>2 DEF By
  <2> QED BY <2>2, <2>3
<1>3. ASSUME NEW q \in By(S, "TIEBREAK"), NEW r \in By(T, "TIEBREAK")
      PROVE  r \in By(S, "TIEBREAK")
  <2>1. q \in By(T, "TIEBREAK")
    BY <1>3 DEF By
  <2>2. q.adjudicator = m.adjudicators.tiebreak /\ r.adjudicator = m.adjudicators.tiebreak
    BY <1>3, <2>1 DEF Admissible, Judges
  <2>3. r = q
    BY <1>1, <1>3, <2>1, <2>2 DEF By
  <2> QED BY <1>3, <2>3
<1>4. By(S, "PRIMARY") \subseteq By(T, "PRIMARY") /\ By(S, "TIEBREAK") \subseteq By(T, "TIEBREAK")
  BY DEF By
<1> QED BY <1>2, <1>3, <1>4

\* A later record cannot change a label: the people behind it have all filed.
LEMMA LabelStands ==
  ASSUME NEW m, NEW S, NEW T, S \subseteq T, Labelled(m, S), Resolvable(m, T)
  PROVE  Resolution(m, T) = Resolution(m, S)
<1>1. By(S, "PRIMARY") = By(T, "PRIMARY")
  BY LabelIsDecided, RoleIsFull DEF Resolvable
<1>2. By(S, "TIEBREAK") = By(T, "TIEBREAK")
  <2>1. CASE By(S, "TIEBREAK") # {}
    BY <2>1, RoleIsFull DEF Resolvable
  <2>2. CASE By(S, "TIEBREAK") = {}
    <3>1. PrimariesAgree(S)
      BY <2>2, LabelIsDecided
    <3>2. PrimariesAgree(T)
      BY <3>1, <1>1 DEF PrimariesAgree
    <3>3. By(T, "TIEBREAK") = {}
      BY <3>2 DEF Resolvable, TiebreakAllowed
    <3> QED BY <2>2, <3>3
  <2> QED BY <2>1, <2>2
<1> QED BY <1>1, <1>2, ResolutionReadsRoles

\* resolve_adjudication_v1: a label, once resolved, is not changed by records
\* that arrive later.
THEOREM LabelsStand == Spec => LabelIsFinal
<1>1. [Next]_vars => (Labelled(manifest, records) /\ Resolvable(manifest, records)' =>
                        Resolution(manifest, records)' = Resolution(manifest, records))
  <2> SUFFICES ASSUME [Next]_vars, Labelled(manifest, records),
                      Resolvable(manifest, records)'
               PROVE  Resolution(manifest, records)' = Resolution(manifest, records)
    OBVIOUS
  <2>1. manifest' = manifest /\ records \subseteq records'
    BY NothingIsRemoved
  <2>2. Resolvable(manifest', records') /\ Labelled(manifest', records)
    BY <2>1
  <2>3. Resolution(manifest', records') = Resolution(manifest', records)
    BY <2>1, <2>2, LabelStands
  <2> QED BY <2>1, <2>3
<1> QED BY <1>1, PTL DEF Spec, LabelIsFinal

\* validate_observation_grid_v1 and every method on it: an estimate that was
\* reported never changes while rows keep arriving.
THEOREM EstimatesStandForGood == Spec => EstimatesAreFinal
<1>1. [Next]_vars => (Evaluable(manifest, rows) /\ Evaluable(manifest, rows)' =>
                        manifest' = manifest /\ EstimatesKept(manifest, rows, rows'))
  <2> SUFFICES ASSUME [Next]_vars, Evaluable(manifest, rows)'
               PROVE  manifest' = manifest /\ EstimatesKept(manifest, rows, rows')
    OBVIOUS
  <2>1. manifest' = manifest /\ rows \subseteq rows'
    BY NothingIsRemoved
  <2>2. Grows(manifest, rows, rows')
    BY <2>1 DEF Grows
  <2> QED BY <2>1, <2>2, EstimatesStand
<1>2. UNCHANGED vars => UNCHANGED studyVars
  BY DEF vars, studyVars
<1> QED BY <1>1, <1>2, PTL DEF Spec, EstimatesAreFinal

=============================================================================
