---------------------------- MODULE ResourceLedger ----------------------------
(***************************************************************************)
(* search_cup/v23_accounting.py and validate_output of protocol_v23.py:    *)
(* an append-only history of supplied facts about one run, the receipts    *)
(* computed from it, and the outputs judged against a receipt.             *)
(*                                                                         *)
(* An attempt that crossed the backend boundary spends a ticket, failed or *)
(* not; a request rejected before it spends nothing.  Nothing is dropped:  *)
(* an overrun is a fact, and a receipt over it is not compliant.           *)
(***************************************************************************)
EXTENDS Naturals, FiniteSets, Sequences, PrefixSums

CONSTANTS
    Specs,          \* frozen SearchSpecs
    Facts,          \* what a call may report, but its identity, turn and retry
    Entrants,       \* entrant identities an output may carry
    MaxEvents, MaxClock, MaxReceipts    \* bounds: events, elapsed time, receipts

NoRetry == 0        \* retry_of: null

\* Measures: missingness is a state of its own, never a zero.
Measure == [state : {"KNOWN", "UNKNOWN", "NOT_APPLICABLE"}, value : Nat]
Known(v) == [state |-> "KNOWN", value |-> v]
Missing(state) == [state |-> state, value |-> 0]

\* EVENT_SCHEMA and the resource contract of a SearchSpec: closed objects.
ASSUME FactsAssumption ==
    Facts \subseteq
        [kind : {"SEARCH", "VERIFY", "MODEL"}, unit : STRING,
         status : {"SUCCEEDED", "FAILED", "REJECTED"}, class : STRING, results : Nat,
         elapsed : Nat, tokens : Measure, money : Measure, request : BOOLEAN]
ASSUME SpecsAssumption ==
    Specs \subseteq
        [track : STRING, mode : STRING, unit : STRING, calls : Nat, turns : Nat,
         results : Nat, links : Nat, timeout : Nat, runtime : Measure, tokens : Measure,
         money : Measure, automaticRetries : Nat, manualRetry : BOOLEAN]
ASSUME BoundsAssumption == MaxEvents \in Nat /\ MaxClock \in Nat /\ MaxReceipts \in Nat

VARIABLES
    spec,           \* the frozen specification of the run
    events,         \* events_json
    clock,          \* elapsed_ms, as the caller measures it
    issued,         \* the receipts, in the order they were computed
    outputs         \* outputs accepted: [status, on]: index in issued

\* What a call reports, with its identity, its turn and the attempt it retries.
EventOf(f, id, turn, retry, of) ==
    [id |-> id, turn |-> turn, retry |-> retry, of |-> of, kind |-> f.kind, unit |-> f.unit,
     status |-> f.status, class |-> f.class, results |-> f.results, elapsed |-> f.elapsed,
     tokens |-> f.tokens, money |-> f.money, request |-> f.request]

ledgerVars == <<spec, events, clock, issued, outputs>>

Crossed(e) == e.status # "REJECTED"
Attempts(es) == {i \in DOMAIN es : Crossed(es[i])}
Of(es, kind) == {i \in Attempts(es) : es[i].kind = kind}
Largest(S) == CHOOSE n \in S \cup {0} : \A k \in S : k <= n
Turns(es) == Largest({es[i].turn : i \in Of(es, "SEARCH")})

(***************************************************************************)
(* _validate_event                                                         *)
(***************************************************************************)
ConsistentFact(e) ==
    /\ e.status = "SUCCEEDED" => e.class = "NONE"
    /\ e.status = "FAILED" => e.class = "INFRASTRUCTURE"
    /\ e.status = "REJECTED" =>
          /\ e.class \in {"BUDGET", "POLICY"} /\ e.results = 0
          /\ e.tokens = Known(0) /\ e.money = Known(0)
    /\ Crossed(e) => e.request

\* Units are never exchanged, and Judgment-only neither searches nor verifies.
AllowedUnit(e) ==
    LET expected == IF e.kind = "SEARCH" THEN spec.unit ELSE e.kind
    IN  /\ IF expected = "NONE" THEN ~Crossed(e) ELSE e.unit = expected
        /\ ~(spec.track = "JUDGMENT_ONLY" /\ e.kind = "VERIFY" /\ Crossed(e))

\* A search stays in the last turn or opens the next one; the first turn is 1.
InTurn(e, prior) ==
    LET last == Turns(prior)
    IN  IF e.kind = "SEARCH"
        THEN Crossed(e) => e.turn \in Largest({1, last}) .. (last + 1)
        ELSE e.turn = 0

Position(es, id) == CHOOSE i \in DOMAIN es : es[i].id = id

\* The attempt that each chain of retries started with.
RootOf(es) ==
    LET root[i \in DOMAIN es] ==
            IF es[i].of = NoRetry THEN i ELSE root[Position(es, es[i].of)]
    IN  root

\* Defect: a retry of a retry counts from anew.
AutomaticOfTarget(es, target) ==
    {i \in DOMAIN es : es[i].retry = "AUTOMATIC" /\ es[i].of = es[target].id}
AutomaticOf(es, target) ==
    {i \in DOMAIN es : es[i].retry = "AUTOMATIC" /\ RootOf(es)[i] = RootOf(es)[target]}

Retriable(e, prior) ==
    IF e.retry = "NONE" THEN e.of = NoRetry
    ELSE \E t \in DOMAIN prior :
            /\ prior[t].id = e.of /\ prior[t].kind = e.kind /\ prior[t].status = "FAILED"
            /\ e.retry = "MANUAL" => spec.manualRetry
            /\ e.retry = "AUTOMATIC" =>
                  Cardinality(AutomaticOf(prior, t)) < spec.automaticRetries

Valid(e, prior) ==
    /\ \A i \in DOMAIN prior : prior[i].id # e.id
    /\ ConsistentFact(e) /\ AllowedUnit(e) /\ InTurn(e, prior) /\ Retriable(e, prior)

(***************************************************************************)
(* receipt: totals, violations and the terminal status                     *)
(***************************************************************************)
\* total_measure: one missing component makes the total missing.
Total(es, what) ==
    LET states == {es[i][what].state : i \in Attempts(es)}
        amount == [i \in DOMAIN es |-> IF Crossed(es[i]) THEN es[i][what].value ELSE 0]
    IN  IF "UNKNOWN" \in states THEN Missing("UNKNOWN")
        ELSE IF "NOT_APPLICABLE" \in states THEN Missing("NOT_APPLICABLE")
        ELSE Known(SumTo(amount, Len(es)))

\* Defect: an amount that is not known breaches nothing.
BreachWhenKnown(observed, ceiling, label) ==
    IF ceiling.state = "KNOWN" /\ observed.state = "KNOWN" /\ observed.value > ceiling.value
    THEN {<<label, "EXCEEDED">>} ELSE {}
\* A known ceiling is kept only by a known amount.
Breach(observed, ceiling, label) ==
    IF ceiling.state # "KNOWN" THEN {}
    ELSE IF observed.state # "KNOWN" THEN {<<label, "COMPLIANCE_UNKNOWN">>}
    ELSE IF observed.value > ceiling.value THEN {<<label, "EXCEEDED">>} ELSE {}

Reason(label, holds) == IF holds THEN {label} ELSE {}

\* What was taken beyond a limit or refused.
Overruns(es, elapsed) ==
    LET attempts == Attempts(es)
        search == Of(es, "SEARCH")
    IN  UNION {
        Reason(<<"SEARCH_CALLS", "EXCEEDED">>, Cardinality(search) > spec.calls),
        Reason(<<"SEARCH_TURNS", "EXCEEDED">>, Turns(es) > spec.turns),
        Reason(<<"FOLLOW_LINKS", "EXCEEDED">>, Cardinality(Of(es, "VERIFY")) > spec.links),
        Reason(<<"RESULT_LIMIT", "EXCEEDED">>, \E i \in search : es[i].results > spec.results),
        Reason(<<"CALL_TIMEOUT", "EXCEEDED">>, \E i \in attempts : es[i].elapsed > spec.timeout),
        Breach(Total(es, "tokens"), spec.tokens, "TOKENS"),
        Breach(Total(es, "money"), spec.money, "MONEY"),
        Breach(Known(elapsed), spec.runtime, "RUNTIME"),
        Reason(<<"REQUEST", "REJECTED">>, attempts # DOMAIN es)}

PriceUnproved == <<"PRICE_EVIDENCE", "MISSING">>
Violations(es, elapsed, priced) ==
    Overruns(es, elapsed)
        \cup Reason(PriceUnproved,
                    spec.mode = "F3" /\ Total(es, "money").state = "KNOWN" /\ ~priced)

Failures(es) == Cardinality({i \in DOMAIN es : es[i].status = "FAILED"})

Receipt(es, elapsed, priced) ==
    LET violations == Violations(es, elapsed, priced)
    IN  [events |-> es, reasons |-> violations, failed |-> Failures(es),
         terminal |-> IF violations # {} THEN "BLOCKED"
                      ELSE IF Failures(es) > 0 THEN "NOT_EVALUABLE" ELSE "PASS"]

(***************************************************************************)
(* validate_entrant and validate_output                                    *)
(***************************************************************************)
ValidEntrant(n) ==
    /\ ~n.resolved => n.identity = "UNRESOLVED"
    /\ n.resolved => n.identity # "UNRESOLVED" /\ (n.identity = "AS_REQUESTED" => n.same)
    /\ n.identity = "DECLARED_ALIAS" => n.evidence

Quality == {"PASS", "FAIL"}

\* Defect: a failed attempt does not stop a verdict on quality.
ValidOutputUnlessBlocked(status, class, n, receipt) ==
    /\ ValidEntrant(n)
    /\ status \in Quality => n.resolved /\ receipt.terminal # "BLOCKED"
ValidOutput(status, class, n, receipt) ==
    /\ ValidEntrant(n)
    /\ status = "FAIL" => class = "MODEL_QUALITY"
    /\ status = "PASS" => class = "NONE"
    /\ status = "UNKNOWN" => class = "INSUFFICIENT_EVIDENCE"
    /\ status \in Quality => n.resolved
    /\ n.identity = "SUBSTITUTED" => status \notin Quality /\ class = "NON_COMPARABLE"
    /\ status \in Quality => receipt.terminal = "PASS"

-----------------------------------------------------------------------------
LedgerInit ==
    /\ spec \in Specs /\ events = <<>> /\ clock = 0 /\ issued = <<>> /\ outputs = {}

\* append: the fact is accepted as it is, or the whole ledger is refused.
Record ==
    /\ Len(events) < MaxEvents /\ outputs = {}
    /\ \E f \in Facts, turn \in 0..MaxEvents, retry \in {"NONE", "MANUAL", "AUTOMATIC"},
          of \in 0..Len(events), id \in 1..(Len(events) + 1), advance \in 0..1 :
          LET e == EventOf(f, id, turn, retry, of)
          IN  /\ Valid(e, events)
              /\ events' = Append(events, e)
              /\ clock + advance <= MaxClock
              /\ clock' = clock + advance
    /\ UNCHANGED <<spec, issued, outputs>>

\* receipt raises when the run is shorter than one of its calls.
Issue ==
    /\ Len(issued) < MaxReceipts /\ outputs = {}
    /\ \A i \in Attempts(events) : events[i].elapsed <= clock
    /\ \E priced \in BOOLEAN : issued' = Append(issued, Receipt(events, clock, priced))
    /\ UNCHANGED <<spec, events, clock, outputs>>

\* Bound: one output, which ends the run.
Publish ==
    /\ outputs = {}
    /\ \E on \in DOMAIN issued, n \in Entrants,
          status \in Quality \cup {"UNKNOWN", "NOT_EVALUABLE"},
          class \in {"NONE", "MODEL_QUALITY", "INSUFFICIENT_EVIDENCE", "NON_COMPARABLE"} :
          /\ ValidOutput(status, class, n, issued[on])
          /\ outputs' = {[status |-> status, entrant |-> n, on |-> on]}
    /\ UNCHANGED <<spec, events, clock, issued>>

LedgerNext == Record \/ Issue \/ Publish

LedgerSpec == LedgerInit /\ [][LedgerNext]_ledgerVars

-----------------------------------------------------------------------------
\* What a later event cannot mend: a failure, an overrun or a rejection.
Faulty(receipt) ==
    receipt.failed > 0 \/ receipt.reasons \ {PriceUnproved} # {}

\* receipt, validate_output: once the facts of a run were over a limit, failed
\* or rejected, no later fact makes a receipt of the run compliant again, and
\* no verdict about quality is accepted on it.
NoVerdictAfterFault ==
    \A first, second \in DOMAIN issued : first <= second /\ Faulty(issued[first]) =>
        /\ issued[second].terminal # "PASS"
        /\ \A o \in outputs : o.on = second => o.status \notin Quality

\* _validate_event: whatever mixture of automatic and manual retries a chain
\* has, the request it started with is retried automatically no more often than
\* declared, and by hand only where that is declared.
RetryClosed(S, i) ==
    \A j \in DOMAIN events : (\E k \in S \cup {i} : events[j].of = events[k].id) => j \in S
RetriesOf(i) ==
    {j \in DOMAIN events : \A S \in SUBSET DOMAIN events : RetryClosed(S, i) => j \in S}
RetriesPerRequest ==
    \A i \in DOMAIN events :
        /\ Cardinality({j \in RetriesOf(i) : events[j].retry = "AUTOMATIC"})
              <= spec.automaticRetries
        /\ ~spec.manualRetry => Cardinality(RetriesOf(i)) <= spec.automaticRetries

=============================================================================
