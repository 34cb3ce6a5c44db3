---------------------------- MODULE MCFrozenReplay ----------------------------
(***************************************************************************)
(* The Search Cup for TLC: a frozen replay, a match and the ledger of a    *)
(* run, which share no state, explored side by side.                       *)
(***************************************************************************)
EXTENDS FrozenReplay, SearchCup, ResourceLedger, TLC

CONSTANTS i1, i2

TwoInvocations == {i1, i2}

ReplaySymmetry == Permutations(TwoInvocations)

\* Two entrants; MaxCalls is the budget of every proxy.
MCRoster == <<"A", "B">>

\* One specification in raw calls with every ceiling known, and one in stack calls
\* that leaves the money open, forbids manual retries and allows two automatic ones.
Limits ==
    [track |-> "E1_FROZEN", mode |-> "F1", unit |-> "RAW", calls |-> 2, turns |-> 2,
     results |-> 1, links |-> 1, timeout |-> 1, runtime |-> Known(2), tokens |-> Known(1),
     money |-> Known(1), automaticRetries |-> 1, manualRetry |-> TRUE]
MCSpecs == {Limits,
    [Limits EXCEPT !.track = "ECONOMIC_TRACK", !.mode = "F3", !.unit = "STACK",
                   !.money = Missing("UNKNOWN"), !.automaticRetries = 2, !.manualRetry = FALSE]}

Fact(kind, unit, status, class, money) ==
    [kind |-> kind, unit |-> unit, status |-> status, class |-> class, results |-> 0,
     elapsed |-> 0, tokens |-> Known(0), money |-> money, request |-> TRUE]
\* A search above the money ceiling, one of unknown cost, a failed request, a
\* rejected verification and one that takes too long.
MCFacts ==
    {Fact("SEARCH", unit, "SUCCEEDED", "NONE", money) :
        unit \in {"RAW", "STACK"}, money \in {Known(2), Missing("UNKNOWN")}}
    \cup {Fact("MODEL", "MODEL", "FAILED", "INFRASTRUCTURE", Known(1)),
          Fact("VERIFY", "VERIFY", "REJECTED", "BUDGET", Known(0)),
          [Fact("VERIFY", "VERIFY", "SUCCEEDED", "NONE", Known(0)) EXCEPT !.elapsed = 2]}

Resolved == [resolved |-> TRUE, identity |-> "AS_REQUESTED", same |-> TRUE, evidence |-> FALSE]
MCEntrants == {Resolved, [Resolved EXCEPT !.resolved = FALSE, !.identity = "UNRESOLVED"]}

MCInit == Init /\ CupInit /\ LedgerInit

ReplayStarted == drifted \/ faults # 0 \/ \E p \in Invocation : at[p] # "gate"
\* A choice of the initial state that is not the plain one belongs to its own part.
MatchStarted == adapters # Rostered \/ running > 1 \/ \E e \in Rostered : trace[e] # <<>>
RunRecorded == spec # Limits \/ events # <<>> \/ issued # <<>>

ReplayStep == ~MatchStarted /\ ~RunRecorded /\ Next /\ UNCHANGED <<cupVars, ledgerVars>>
MatchStep == ~ReplayStarted /\ ~RunRecorded /\ CupNext /\ UNCHANGED <<vars, ledgerVars>>
LedgerStep == ~ReplayStarted /\ ~MatchStarted /\ LedgerNext /\ UNCHANGED <<vars, cupVars>>

MCNext == ReplayStep \/ MatchStep \/ LedgerStep
MCSpec == MCInit /\ [][MCNext]_<<vars, cupVars, ledgerVars>>

=============================================================================
