------------------------------ MODULE SearchCup ------------------------------
(***************************************************************************)
(* run_match (search_cup/runner.py) and judge_match (search_cup/judge.py): *)
(* the entrants of a match run one after the other, each with a budgeted   *)
(* proxy of its own; whatever one of them does, its outcome is recorded    *)
(* with its trace and the next one runs.  The hidden registry opens after  *)
(* every configured entrant has frozen a submission.                       *)
(*                                                                         *)
(* A provider adapter is external: it searches, catches a failed search or *)
(* not, raises, or returns a submission that tells any number of searches. *)
(***************************************************************************)
EXTENDS SearchProxy

CONSTANTS
    Roster,         \* competition.entrants, a sequence
    Forged          \* an entrant or fingerprint that is not of this match

ASSUME RosterAssumption ==
    /\ Roster \in Seq({Roster[i] : i \in DOMAIN Roster})
    /\ \A i, j \in DOMAIN Roster : i # j => Roster[i] # Roster[j]

VARIABLES
    adapters,       \* entrants with a provider
    running,        \* index of the entrant that runs; past the end: closed
    trace,          \* of each proxy
    reached,        \* per entrant: searches that reached the backend
    outcomes,       \* of the match
    scores          \* of the report: entrant and told searches; {} before it

cupVars == <<adapters, running, trace, reached, outcomes, scores>>

EntrantOf(i) == Roster[i]
Rostered == {Roster[i] : i \in DOMAIN Roster}
Closed == running > Len(Roster)
Current == EntrantOf(running)

\* EntrantOutcome: the traces are the ones at this instant.
OutcomeOf(status, told) ==
    [entrant |-> Current, status |-> status, told |-> told, traces |-> trace[Current]]

Concluded(outcome) ==
    /\ outcomes' = Append(outcomes, outcome)
    /\ running' = running + 1
    /\ UNCHANGED <<adapters, trace, reached, scores>>

CupInit ==
    /\ adapters \in SUBSET Rostered
    /\ running = 1 /\ outcomes = <<>> /\ scores = {}
    /\ trace = [e \in Rostered |-> <<>>] /\ reached = [e \in Rostered |-> 0]

\* search_web: a blank query fails in the request, before the backend, and
\* spends its ticket all the same.
SearchWeb ==
    /\ ~Closed /\ Current \in adapters
    /\ WithinBudget(trace[Current])
    /\ \E outcome \in Outcome, blank \in BOOLEAN :
          /\ blank => outcome = "FAILED"
          /\ trace' = [trace EXCEPT ![Current] = Traced(@, outcome)]
          /\ reached' = [reached EXCEPT ![Current] = IF blank THEN @ ELSE @ + 1]
    /\ UNCHANGED <<adapters, running, outcomes, scores>>

MissingProvider ==
    /\ ~Closed /\ Current \notin adapters
    /\ Concluded(OutcomeOf("FAILED", 0))

\* Defect: the count of the provider is taken as it is.
AcceptedUncounted(s) == s.entrant = Current /\ s.match # Forged
\* The checks on what a provider returned.
Accepted(s) ==
    /\ s.entrant = Current /\ s.match # Forged
    /\ s.searches = CallsUsed(trace[Current])

Submit ==
    /\ ~Closed /\ Current \in adapters
    /\ \E entrant \in Rostered, match \in {Roster, Forged}, searches \in 0..MaxCalls :
          LET s == [entrant |-> entrant, match |-> match, searches |-> searches]
          IN  Concluded(IF Accepted(s) THEN OutcomeOf("FROZEN", searches)
                                       ELSE OutcomeOf("FAILED", 0))

\* SearchBudgetExceeded, a failed search that is not caught, or anything else.
ProviderRaises ==
    /\ ~Closed /\ Current \in adapters
    /\ Concluded(OutcomeOf("FAILED", 0))

\* Defect: the gate opens once something is frozen.
AnyFrozen == Closed /\ \E i \in DOMAIN outcomes : outcomes[i].status = "FROZEN"
\* HiddenRegistryGate.open
AllFrozen ==
    /\ Closed /\ Len(outcomes) = Len(Roster)
    /\ \A i \in DOMAIN outcomes : outcomes[i].status = "FROZEN"

JudgeMatch ==
    /\ AllFrozen /\ scores = {}
    /\ scores' = {[entrant |-> outcomes[i].entrant, told |-> outcomes[i].told] :
                     i \in DOMAIN outcomes}
    /\ UNCHANGED <<adapters, running, trace, reached, outcomes>>

CupNext == SearchWeb \/ MissingProvider \/ Submit \/ ProviderRaises \/ JudgeMatch

CupSpec == CupInit /\ [][CupNext]_cupVars

-----------------------------------------------------------------------------
\* run_match, judge_match: an entrant that fails keeps the searches it made and
\* takes nothing from the others; every search that reached a backend is in the
\* outcome of the entrant that made it, none was made past the budget or after the
\* outcome, and efficiency is scored on that number, for all entrants or for none.
OutcomesTellSearches ==
    /\ \A i \in DOMAIN outcomes :
          LET o == outcomes[i] IN
          /\ o.entrant = EntrantOf(i) /\ o.traces = trace[o.entrant]
          /\ reached[o.entrant] <= Len(o.traces)
          /\ o.status = "FROZEN" => o.told = Len(o.traces)
    /\ \A e \in Rostered : reached[e] <= MaxCalls
    /\ scores # {} => {s.entrant : s \in scores} = Rostered
    /\ \A s \in scores : reached[s.entrant] <= s.told /\ s.told = Len(trace[s.entrant])

=============================================================================
