---------------------------- MODULE BM0Manifest ----------------------------
(***************************************************************************)
(* The benchmark manifest of b2/bm0.py: the plan of a study, which every   *)
(* estimator validates again on every call.  A manifest either selects     *)
(* nothing (DESIGN_ONLY) or is FROZEN: its attempts, its private holdout,  *)
(* its adjudicators and the fingerprints of the code that will judge them  *)
(* are chosen before the hidden corpus is opened.                          *)
(*                                                                         *)
(* Identifiers are model values; the fingerprint of a document is the      *)
(* document, so equal fingerprints mean equal documents.                   *)
(***************************************************************************)
EXTENDS Integers, Sequences, FiniteSets

CONSTANTS
    ClassOf,        \* the target class of each formal entry (E01..E16)
    SystemScope,    \* the reserved identity of system-only attempts
    None

\* An absent value is told from a score.
ASSUME NoneAssumption == None \notin {0, 1}

Entry == DOMAIN ClassOf
Pools == {"HIDDEN", "REGRESSION", "CONTROL", "MUTATION"}
DefaultClasses == {"MODEL_DIRECT", "MODEL_CONTEXT_GROUNDED"}

\* The requested model and the version it must resolve to, or an alias that
\* cannot be resolved and says so.
SystemIdentity == [provider |-> SystemScope, requested |-> SystemScope,
                   resolved |-> SystemScope, certainty |-> "SYSTEM_SCOPE"]

ValidIdentity(a) ==
    /\ a.subject # SystemScope
    /\ a.model.provider # SystemScope
    /\ a.applicability = "APPLICABLE"
    /\ \/ a.model.certainty = "EXACT" /\ a.model.resolved # None
       \/ a.model.certainty = "ALIAS_ONLY" /\ a.model.resolved = None

\* The harness never retries on its own: a retry is an attempt of the plan.
ControlsFrozen(a) == a.automaticRetries = 0

ValidTrial(a) ==
    /\ a.parent # a.id
    /\ a.class = ClassOf[a.entry]
    /\ a.pool \in Pools
    /\ a.pool = "MUTATION" <=> a.mutationOf # None
    /\ a.pool = "HIDDEN" => a.contamination # "KNOWN_EXPOSED"
    /\ IF a.class = "SYSTEM_EVAL_ONLY"
       THEN /\ a.applicability = "NOT_APPLICABLE"
            /\ a.subject = SystemScope /\ a.model = SystemIdentity
       ELSE ValidIdentity(a)
    /\ ControlsFrozen(a)

(***************************************************************************)
(* The applicability disclosure: each selected subject says of every       *)
(* formal entry whether it applies, before execution.                      *)
(***************************************************************************)
Comparison(d, sandbox) ==
    IF d.result = "NOT_APPLICABLE" THEN "NOT_APPLICABLE"
    ELSE IF ClassOf[d.entry] # "AGENT_STANDARDIZED" THEN "DEFAULT_COMPARABLE"
    ELSE IF sandbox = "ESTABLISHED" THEN "COMPARABLE_AFTER_SANDBOX_EQUIVALENCE"
    ELSE "COMPARABILITY_LIMIT"

ValidApplicability(m) ==
    /\ m.state = "FROZEN" => m.declared # {}
    /\ \A d \in m.declared :
          /\ d.subject # SystemScope /\ d.beforeExecution
          /\ ClassOf[d.entry] = "SYSTEM_EVAL_ONLY" => d.result = "NOT_APPLICABLE"
          /\ d.comparison = Comparison(d, m.sandbox)
          /\ \A e \in Entry : \E f \in m.declared : f.subject = d.subject /\ f.entry = e
    /\ \A d, f \in m.declared : d.subject = f.subject =>
          /\ d.provider = f.provider /\ d.requested = f.requested
          /\ d.entry = f.entry => d = f

\* Agents are compared only behind an established sandbox equivalence.
ValidClasses(m) ==
    m.classes = IF m.sandbox = "ESTABLISHED"
                THEN DefaultClasses \cup {"AGENT_STANDARDIZED"} ELSE DefaultClasses

(***************************************************************************)
(* The attempts of a manifest                                              *)
(***************************************************************************)
Attempts(m) == {m.attempts[i] : i \in DOMAIN m.attempts}
PlannedIds(m) == {a.id : a \in Attempts(m)}
Planned(m, id) == CHOOSE a \in Attempts(m) : a.id = id

\* A manifest is a document: its attempts are a list, each with these fields.
AttemptFields ==
    {"id", "trial", "parent", "study", "subject", "model", "entry", "class", "applicability",
     "case", "variant", "pool", "item", "commitment", "mutationOf", "contamination",
     "replicate", "automaticRetries", "config"}
Listed(m) ==
    m.attempts \in Seq(Attempts(m)) /\ \A a \in Attempts(m) : AttemptFields \subseteq DOMAIN a

\* The private holdout, by item and commitment.  Aliases and commitments
\* name each other one to one, and no mutation descends from a hidden item.
HiddenItems(m) == {<<a.item, a.commitment>> : a \in {b \in Attempts(m) : b.pool = "HIDDEN"}}

ValidCorpus(m) ==
    /\ \A a, b \in Attempts(m) :
          a.item = b.item \/ a.commitment = b.commitment =>
              a.item = b.item /\ a.commitment = b.commitment /\ a.pool = b.pool
    /\ \A a \in Attempts(m) :
          /\ a.mutationOf # a.commitment
          /\ \A h \in HiddenItems(m) : h[2] # a.mutationOf

\* One case_id is one case variant, one subject one model snapshot.
CaseBinding(a) == <<a.entry, a.variant, a.contamination, a.pool, a.item, a.commitment>>

ValidBindings(m) ==
    \A a, b \in Attempts(m) :
        /\ a.study = b.study
        /\ a.case = b.case => CaseBinding(a) = CaseBinding(b)
        /\ a.class # "SYSTEM_EVAL_ONLY" /\ b.class # "SYSTEM_EVAL_ONLY"
              /\ a.subject = b.subject => a.model = b.model

DeclaredApplicable(m) ==
    \A a \in Attempts(m) : a.class # "SYSTEM_EVAL_ONLY" =>
        /\ a.class \in m.classes
        /\ \E d \in m.declared :
              /\ d.subject = a.subject /\ d.entry = a.entry
              /\ d.provider = a.model.provider /\ d.requested = a.model.requested
              /\ d.result = "APPLICABLE"

\* What a retry shares with its parent: everything but its own ID and parent.
RetryIdentity(a) == [a EXCEPT !.id = None, !.parent = None]

ValidRetries(m) ==
    /\ \A i \in DOMAIN m.attempts : m.attempts[i].parent # None =>
          \E j \in 1..i-1 : /\ m.attempts[j].id = m.attempts[i].parent
                            /\ RetryIdentity(m.attempts[j]) = RetryIdentity(m.attempts[i])
    /\ \A a, b \in Attempts(m) : a.parent = b.parent /\ a.parent # None => a = b
    /\ \A a, b \in Attempts(m) :
          a.trial = b.trial /\ a.parent = None /\ b.parent = None => a = b

\* What each state of a study must, and must not, have selected.
ValidSelection(m) ==
    IF m.state = "DESIGN_ONLY"
    THEN /\ ~m.selected /\ m.holdout = None /\ m.adjudicators = None
         /\ m.attempts = <<>> /\ m.declared = {} /\ m.sandbox = "NOT_ESTABLISHED"
    ELSE /\ m.state = "FROZEN" /\ m.selected
         /\ m.holdout = HiddenItems(m) /\ HiddenItems(m) # {}
         /\ m.adjudicators # None

\* Exactly two primaries and a tiebreaker, all distinct.
ValidAdjudicators(m) ==
    m.adjudicators # None =>
        /\ IsFiniteSet(m.adjudicators.primaries)
        /\ Cardinality(m.adjudicators.primaries) = 2
        /\ m.adjudicators.tiebreak \notin m.adjudicators.primaries

WellFormed(m) ==
    /\ ValidClasses(m) /\ ValidApplicability(m) /\ ValidAdjudicators(m)
    /\ \A a \in Attempts(m) : ValidTrial(a)
    /\ m.plannedCount = Len(m.attempts)
    /\ Cardinality(PlannedIds(m)) = Len(m.attempts)
    /\ ValidBindings(m) /\ ValidCorpus(m) /\ DeclaredApplicable(m)
    /\ ValidRetries(m) /\ ValidSelection(m)

\* The artifact fingerprints an independent caller supplies; without them only
\* a design is valid.
ValidAgainst(m, artifacts) == WellFormed(m) /\ m.artifacts = artifacts
ValidManifest(m, expected) ==
    IF expected = None THEN WellFormed(m) /\ m.state # "FROZEN"
    ELSE ValidAgainst(m, expected)

(***************************************************************************)
(* bounded_pilot_design_v1: 2 to 8 cases per model and entry, 2 to 5 root  *)
(* replicates per case.  A retry is never a replicate.                     *)
(***************************************************************************)
Roots(m) == {a \in Attempts(m) : a.parent = None /\ a.class # "SYSTEM_EVAL_ONLY"}
SameCase(a, b) ==
    a.subject = b.subject /\ a.entry = b.entry /\ a.case = b.case /\ a.variant = b.variant

PilotDesign(m) ==
    /\ Roots(m) # {}
    /\ \A a, b \in Roots(m) : a # b =>
          /\ a.trial # b.trial
          /\ SameCase(a, b) => a.replicate # b.replicate
    /\ \A a \in Roots(m) :
          /\ Cardinality({b \in Roots(m) : SameCase(a, b)}) \in 2..5
          /\ Cardinality({<<b.case, b.variant>> : b \in
                 {r \in Roots(m) : r.subject = a.subject /\ r.entry = a.entry}}) \in 2..8

=============================================================================
