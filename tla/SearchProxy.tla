----------------------------- MODULE SearchProxy -----------------------------
(***************************************************************************)
(* BudgetedSearchProxy (search_cup/tools.py): one proxy per entrant and    *)
(* run.  The trace is appended after the backend answered or raised, and   *)
(* its length is the number of calls used.                                 *)
(***************************************************************************)
EXTENDS Naturals, Sequences

CONSTANT MaxCalls       \* max_calls of every proxy: 4 in the frozen replay

ASSUME ProxyAssumption == MaxCalls \in Nat \ {0}

\* What a call leaves in the trace.
Outcome == {"SUCCEEDED", "FAILED"}

CallsUsed(traces) == Len(traces)

\* Defect: the last call is compared after it was made.
WithinBudgetLate(traces) == CallsUsed(traces) <= MaxCalls

\* Otherwise SearchBudgetExceeded, which leaves no trace.
WithinBudget(traces) == CallsUsed(traces) < MaxCalls

\* Both except clauses append before they raise again.
Traced(traces, outcome) == Append(traces, outcome)

=============================================================================
