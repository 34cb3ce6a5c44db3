--------------------------- MODULE SearchCup_proofs ---------------------------
(***************************************************************************)
(* What holds of the search_cup package: of a match (SearchCup) for        *)
(* rosters of every length and every budget, of a frozen replay            *)
(* (FrozenReplay) for every number of invocations, queries and faults, and *)
(* of the accounting of a run (ResourceLedger) for every specification and *)
(* every history of facts.                                                 *)
(*                                                                         *)
(* OutcomesTellSearches says nothing of the entrant that is running, so it *)
(* is not inductive: an outcome is told from the proxy's trace, and the    *)
(* trace must not have lost a search.  CupInv adds that the outcomes are   *)
(* those of the entrants before the running one (PlaceInv), that every     *)
(* trace is within its budget and not behind the backend (BudgetInv), and  *)
(* that a report was made of a closed match whose entrants are all frozen  *)
(* (ScoreInv).  Entrants are distinct, so a search of the running one      *)
(* changes no trace that was told.                                         *)
(*                                                                         *)
(* RunIsOneShot speaks of the ledger a power loss leaves and of the spent  *)
(* tickets only.  OwnerInv ties both to the operation an invocation is at: *)
(* one that is past the sidecar owns the ledger that is on disk, one that  *)
(* created it and has not synchronised it owns the visible one, and the    *)
(* two never name different owners.                                        *)
(*                                                                         *)
(* RunAccount ties the rest to the operation in the same way: the tickets  *)
(* spent (TicketInv), the stream of queries (StreamInv), the files that    *)
(* are durable (FileInv), the records of the sidecar (JournalInv) and the  *)
(* verdict (VerdictInv).  Every part is kept on its own: a step is first   *)
(* described by where it leads (Arrivals) and by what it leaves alone      *)
(* (Others, Frames).                                                       *)
(*                                                                         *)
(* NoVerdictAfterFault compares receipts with one another; what carries a  *)
(* fault from one to the next are the facts: every count, maximum and      *)
(* total of a ledger is monotone under append, and a total that is missing *)
(* stays missing, so FaultInv keeps them as bad as the worst receipt says. *)
(* RetriesPerRequest speaks of chains, and the code counts by root: a      *)
(* retry and what it retries have one root (RootAt), and a later event     *)
(* changes none (RootsKept), so ChainInv bounds a count per root.          *)
(***************************************************************************)
EXTENDS FrozenReplay, SearchCup, ResourceLedger, PrefixSums_proofs, FiniteSetTheorems, TLAPS

----------------------------------------------------------------------------
(* A match *)

EntrantOutcome ==
    [entrant : Rostered, status : {"FROZEN", "FAILED"}, told : Nat, traces : Seq(Outcome)]

PlaceInv ==
    /\ running \in 1..(Len(Roster) + 1)
    /\ outcomes \in Seq(EntrantOutcome)
    /\ Len(outcomes) = running - 1

BudgetInv ==
    /\ trace \in [Rostered -> Seq(Outcome)]
    /\ reached \in [Rostered -> Nat]
    /\ \A e \in Rostered : reached[e] <= Len(trace[e]) /\ Len(trace[e]) <= MaxCalls

ToldInv ==
    \A i \in 1..Len(outcomes) :
        /\ outcomes[i].entrant = Roster[i]
        /\ outcomes[i].traces = trace[Roster[i]]
        /\ outcomes[i].status = "FROZEN" => outcomes[i].told = Len(outcomes[i].traces)

ScoreInv ==
    scores # {} =>
        /\ AllFrozen
        /\ scores = {[entrant |-> outcomes[i].entrant, told |-> outcomes[i].told] :
                        i \in DOMAIN outcomes}

CupInv == PlaceInv /\ BudgetInv /\ ToldInv /\ ScoreInv

\* The entrants by their place in the match.
LEMMA Places ==
  /\ Len(Roster) \in Nat /\ DOMAIN Roster = 1..Len(Roster)
  /\ \A i \in 1..Len(Roster) : Roster[i] \in Rostered
  /\ \A e \in Rostered : \E i \in 1..Len(Roster) : e = Roster[i]
  /\ \A i, j \in 1..Len(Roster) : Roster[i] = Roster[j] => i = j
<1>1. Len(Roster) \in Nat /\ DOMAIN Roster = 1..Len(Roster)
  BY RosterAssumption
<1> QED BY <1>1, RosterAssumption DEF Rostered

\* A match begins with no outcome, no trace and no report.
LEMMA CupStart == CupInit => CupInv
<1> SUFFICES ASSUME CupInit PROVE CupInv
  OBVIOUS
<1>1. PlaceInv
  BY Places DEF CupInit, PlaceInv
<1>2. BudgetInv
  BY ProxyAssumption DEF CupInit, BudgetInv
<1>3. ToldInv /\ ScoreInv
  BY DEF CupInit, ToldInv, ScoreInv
<1> QED BY <1>1, <1>2, <1>3 DEF CupInv

\* A search spends a ticket of the running entrant and no told trace.
LEMMA SearchKeeps ==
  ASSUME CupInv, SearchWeb
  PROVE  CupInv'
<1>1. /\ running \in 1..Len(Roster) /\ Current \in Rostered /\ Current = Roster[running]
      /\ Len(trace[Current]) < MaxCalls /\ UNCHANGED <<running, outcomes, scores>>
  BY Places DEF CupInv, PlaceInv, SearchWeb, Closed, Current, EntrantOf, WithinBudget, CallsUsed
<1>2. PICK outcome \in Outcome, blank \in BOOLEAN :
         /\ trace' = [trace EXCEPT ![Current] = Append(@, outcome)]
         /\ reached' = [reached EXCEPT ![Current] = IF blank THEN @ ELSE @ + 1]
  BY DEF SearchWeb, Traced
<1>3. /\ trace[Current] \in Seq(Outcome) /\ reached[Current] \in Nat
      /\ reached[Current] <= Len(trace[Current])
  BY <1>1 DEF CupInv, BudgetInv
<1>4. /\ Append(trace[Current], outcome) \in Seq(Outcome)
      /\ Len(Append(trace[Current], outcome)) = Len(trace[Current]) + 1
      /\ Len(trace[Current]) \in Nat
  BY <1>3
<1>5. BudgetInv'
  <2>1. trace' \in [Rostered -> Seq(Outcome)] /\ reached' \in [Rostered -> Nat]
    BY <1>1, <1>2, <1>3, <1>4 DEF CupInv, BudgetInv
  <2>2. ASSUME NEW e \in Rostered
        PROVE  reached'[e] <= Len(trace'[e]) /\ Len(trace'[e]) <= MaxCalls
    <3>1. CASE e = Current
      <4>1. trace'[e] = Append(trace[Current], outcome)
        BY <3>1, <1>1, <1>2 DEF CupInv, BudgetInv
      <4>2. reached'[e] = reached[Current] \/ reached'[e] = reached[Current] + 1
        BY <3>1, <1>1, <1>2 DEF CupInv, BudgetInv
      <4> QED BY <4>1, <4>2, <1>1, <1>3, <1>4, ProxyAssumption
    <3>2. CASE e # Current
      BY <3>2, <1>2 DEF CupInv, BudgetInv
    <3> QED BY <3>1, <3>2
  <2> QED BY <2>1, <2>2 DEF BudgetInv
<1>6. ToldInv'
  <2> SUFFICES ASSUME NEW i \in 1..Len(outcomes)
               PROVE  trace'[Roster[i]] = trace[Roster[i]]
    BY <1>1 DEF CupInv, ToldInv
  <2>1. i \in 1..Len(Roster) /\ i # running
    BY <1>1, Places DEF CupInv, PlaceInv
  <2>2. Roster[i] # Current /\ Roster[i] \in Rostered
    BY <1>1, <2>1, Places
  <2> QED BY <1>2, <2>2 DEF CupInv, BudgetInv
<1>7. PlaceInv' /\ ScoreInv'
  BY <1>1 DEF CupInv, PlaceInv, ScoreInv, AllFrozen, Closed
<1> QED BY <1>5, <1>6, <1>7 DEF CupInv

\* Whatever ends the turn of an entrant, its outcome is told from its own trace.
LEMMA ConcludedKeeps ==
  ASSUME CupInv, ~Closed, NEW status \in {"FROZEN", "FAILED"}, NEW told \in Nat,
         status = "FROZEN" => told = Len(trace[Current]),
         Concluded(OutcomeOf(status, told))
  PROVE  CupInv'
<1> DEFINE o == OutcomeOf(status, told)
<1>1. /\ running \in 1..Len(Roster) /\ Current \in Rostered /\ Current = Roster[running]
      /\ Len(outcomes) = running - 1 /\ outcomes \in Seq(EntrantOutcome) /\ Len(Roster) \in Nat
  BY Places DEF CupInv, PlaceInv, Closed, Current, EntrantOf
<1>2. /\ o \in EntrantOutcome /\ o.entrant = Current /\ o.traces = trace[Current]
      /\ o.status = "FROZEN" => o.told = Len(o.traces)
  BY <1>1 DEF OutcomeOf, EntrantOutcome, CupInv, BudgetInv
<1>3. outcomes' = Append(outcomes, o) /\ running' = running + 1 /\ UNCHANGED <<trace, reached, scores>>
  BY DEF Concluded
<1> HIDE DEF o
<1>4. /\ outcomes' \in Seq(EntrantOutcome) /\ Len(outcomes') = running
      /\ outcomes'[running] = o
      /\ \A i \in 1..Len(outcomes) : outcomes'[i] = outcomes[i]
  BY <1>1, <1>2, <1>3
<1>5. PlaceInv'
  BY <1>1, <1>3, <1>4 DEF PlaceInv
<1>6. BudgetInv'
  BY <1>3 DEF CupInv, BudgetInv
<1>7. ToldInv'
  <2> SUFFICES ASSUME NEW i \in 1..running
               PROVE  /\ outcomes'[i].entrant = Roster[i]
                      /\ outcomes'[i].traces = trace[Roster[i]]
                      /\ outcomes'[i].status = "FROZEN" =>
                            outcomes'[i].told = Len(outcomes'[i].traces)
    BY <1>3, <1>4 DEF ToldInv
  <2>1. CASE i = running
    BY <2>1, <1>1, <1>2, <1>4
  <2>2. CASE i # running
    <3>1. i \in 1..Len(outcomes)
      BY <2>2, <1>1
    <3> QED BY <3>1, <1>4 DEF CupInv, ToldInv
  <2> QED BY <2>1, <2>2
<1>8. ScoreInv'
  BY <1>3 DEF CupInv, ScoreInv, AllFrozen
<1> QED BY <1>5, <1>6, <1>7, <1>8 DEF CupInv

\* A report is of the outcomes as they are, and of all of them.
LEMMA JudgeKeeps ==
  ASSUME CupInv, JudgeMatch
  PROVE  CupInv'
<1>1. UNCHANGED <<adapters, running, trace, reached, outcomes>>
  BY DEF JudgeMatch
<1>2. PlaceInv' /\ BudgetInv' /\ ToldInv'
  BY <1>1 DEF CupInv, PlaceInv, BudgetInv, ToldInv
<1>3. ScoreInv'
  BY <1>1 DEF ScoreInv, JudgeMatch, AllFrozen, Closed
<1> QED BY <1>2, <1>3 DEF CupInv

\* The invariant of a match holds whatever the providers do.
THEOREM CupInductive == CupSpec => []CupInv
<1>1. CupInv /\ [CupNext]_cupVars => CupInv'
  <2> SUFFICES ASSUME CupInv, [CupNext]_cupVars PROVE CupInv'
    OBVIOUS
  <2>1. CASE MissingProvider
    BY <2>1, ConcludedKeeps DEF MissingProvider
  <2>2. CASE ProviderRaises
    BY <2>2, ConcludedKeeps DEF ProviderRaises
  <2>3. CASE Submit
    <3>1. PICK entrant \in Rostered, match \in {Roster, Forged}, searches \in 0..MaxCalls :
             LET s == [entrant |-> entrant, match |-> match, searches |-> searches]
             IN  Concluded(IF Accepted(s) THEN OutcomeOf("FROZEN", searches)
                                          ELSE OutcomeOf("FAILED", 0))
      BY <2>3 DEF Submit
    <3> DEFINE s == [entrant |-> entrant, match |-> match, searches |-> searches]
    <3>2. searches \in Nat
      BY ProxyAssumption
    <3>3. CASE Accepted(s)
      <4>1. Concluded(OutcomeOf("FROZEN", searches))
        BY <3>1, <3>3
      <4>2. searches = Len(trace[Current])
        BY <3>3 DEF Accepted, CallsUsed
      <4> QED BY <4>1, <4>2, <3>2, <2>3, ConcludedKeeps DEF Submit
    <3>4. CASE ~Accepted(s)
      <4>1. Concluded(OutcomeOf("FAILED", 0))
        BY <3>1, <3>4
      <4> QED BY <4>1, <2>3, ConcludedKeeps DEF Submit
    <3> QED BY <3>3, <3>4
  <2>4. CASE UNCHANGED cupVars
    BY <2>4 DEF cupVars, CupInv, PlaceInv, BudgetInv, ToldInv, ScoreInv, AllFrozen, Closed
  <2> QED BY <2>1, <2>2, <2>3, <2>4, SearchKeeps, JudgeKeeps DEF CupNext
<1> QED BY <1>1, CupStart, PTL DEF CupSpec

\* run_match, judge_match: every search is in the outcome of the entrant that made
\* it, none exceeds the budget, and efficiency is scored on that number for all
\* entrants or for none.
THEOREM SearchesAreTold == CupSpec => []OutcomesTellSearches
<1>1. CupInv => OutcomesTellSearches
  <2> SUFFICES ASSUME CupInv PROVE OutcomesTellSearches
    OBVIOUS
  <2>1. /\ Len(outcomes) \in Nat /\ DOMAIN outcomes = 1..Len(outcomes)
        /\ Len(outcomes) <= Len(Roster) /\ Len(Roster) \in Nat
    BY Places DEF CupInv, PlaceInv
  <2>2. \A i \in DOMAIN outcomes : Roster[i] \in Rostered
    BY <2>1, Places
  <2>3. \A e \in Rostered : /\ reached[e] \in Nat /\ Len(trace[e]) \in Nat
                            /\ reached[e] <= Len(trace[e]) /\ reached[e] <= MaxCalls
    BY ProxyAssumption DEF CupInv, BudgetInv
  <2>4. \A i \in DOMAIN outcomes :
           /\ outcomes[i].entrant = EntrantOf(i)
           /\ outcomes[i].traces = trace[outcomes[i].entrant]
           /\ reached[outcomes[i].entrant] <= Len(outcomes[i].traces)
           /\ outcomes[i].status = "FROZEN" => outcomes[i].told = Len(outcomes[i].traces)
    BY <2>1, <2>2, <2>3 DEF CupInv, ToldInv, EntrantOf
  <2>5. ASSUME scores # {}
        PROVE  /\ DOMAIN outcomes = 1..Len(Roster)
               /\ \A i \in DOMAIN outcomes : outcomes[i].status = "FROZEN"
               /\ scores = {[entrant |-> outcomes[i].entrant, told |-> outcomes[i].told] :
                               i \in DOMAIN outcomes}
    BY <2>5, <2>1 DEF CupInv, ScoreInv, AllFrozen
  <2>6. scores # {} => {s.entrant : s \in scores} = Rostered
    <3> SUFFICES ASSUME scores # {} PROVE {s.entrant : s \in scores} = Rostered
      OBVIOUS
    <3>1. \A s \in scores : s.entrant \in Rostered
      BY <2>2, <2>4, <2>5 DEF EntrantOf
    <3>2. ASSUME NEW e \in Rostered PROVE \E s \in scores : s.entrant = e
      <4>1. PICK i \in DOMAIN outcomes : Roster[i] = e
        BY <2>5, Places
      <4>2. [entrant |-> outcomes[i].entrant, told |-> outcomes[i].told] \in scores
        BY <2>5
      <4>3. outcomes[i].entrant = e
        BY <4>1, <2>4 DEF EntrantOf
      <4> QED BY <4>2, <4>3
    <3> QED BY <3>1, <3>2
  <2>7. \A s \in scores : reached[s.entrant] <= s.told /\ s.told = Len(trace[s.entrant])
    <3> SUFFICES ASSUME NEW s \in scores
                 PROVE  reached[s.entrant] <= s.told /\ s.told = Len(trace[s.entrant])
      OBVIOUS
    <3>1. PICK i \in DOMAIN outcomes :
             s = [entrant |-> outcomes[i].entrant, told |-> outcomes[i].told]
      BY <2>5
    <3>2. outcomes[i].told = Len(outcomes[i].traces)
      BY <2>4, <2>5
    <3> QED BY <3>1, <3>2, <2>4
  <2> QED BY <2>3, <2>4, <2>6, <2>7 DEF OutcomesTellSearches
<1> QED BY <1>1, CupInductive, PTL

----------------------------------------------------------------------------
(* A frozen replay: who owns the sidecar *)

\* The operations of an invocation that does not hold the sidecar, or no longer acts.
Early == {"gate", "ledger", "returned", "killed"}

ReplayType ==
    /\ at = [p \in Invocation |-> at[p]]
    /\ part = [p \in Invocation |-> part[p]]
    /\ traces \in [Invocation -> [Alias -> Seq(Outcome)]]

LedgerType ==
    \A l \in ledger \cup ledgerSafe :
        l = [by |-> l.by, rows |-> l.rows] /\ l.by \in Invocation

OwnerInv ==
    /\ \A l, m \in ledger \cup ledgerSafe : l.by = m.by
    /\ ledger = {} => ledgerSafe = {}
    /\ \A p \in Invocation : at[p] \notin Early => \E l \in ledgerSafe : l.by = p
    /\ \A p \in Invocation : at[p] = "ledger" /\ part[p] = "sync" => \E l \in ledger : l.by = p
    /\ \A p \in Invocation, a \in Alias : traces[p][a] # <<>> => \E l \in ledgerSafe : l.by = p

ReplayInv == ReplayType /\ LedgerType /\ OwnerInv

\* No sidecar, no ticket spent.
LEMMA ReplayStart == Init => ReplayInv
<1> SUFFICES ASSUME Init PROVE ReplayInv
  OBVIOUS
<1>1. ReplayType /\ LedgerType
  BY DEF Init, ReplayType, LedgerType
<1>2. /\ ledger = {} /\ ledgerSafe = {}
      /\ \A p \in Invocation : at[p] = "gate"
      /\ \A p \in Invocation, a \in Alias : traces[p][a] = <<>>
  BY DEF Init
<1> QED BY <1>1, <1>2 DEF ReplayInv, OwnerInv, Early

\* An invocation goes on, with the sidecar and the proxies as they are.
Moves(p) ==
    /\ at' = [q \in Invocation |-> at'[q]] /\ part' = [q \in Invocation |-> part'[q]]
    /\ \A q \in Invocation : q # p => at'[q] = at[q] /\ part'[q] = part[q]
    /\ at'[p] \in Early \/ at[p] \notin Early
    /\ at'[p] = "ledger" => part'[p] # "sync"

\* Who is past the sidecar stays past it, and nothing else is asked.
LEMMA MovesKeeps ==
  ASSUME ReplayInv, NEW p \in Invocation, Moves(p), UNCHANGED <<traces, ledger, ledgerSafe>>
  PROVE  ReplayInv'
<1>1. ReplayType' /\ LedgerType'
  BY DEF ReplayInv, ReplayType, LedgerType, Moves
<1>2. OwnerInv'
  <2>1. \A q \in Invocation : at'[q] \notin Early => \E l \in ledgerSafe : l.by = q
    BY DEF ReplayInv, OwnerInv, Moves
  <2>2. \A q \in Invocation : at'[q] = "ledger" /\ part'[q] = "sync" => \E l \in ledger : l.by = q
    BY DEF ReplayInv, OwnerInv, Moves
  <2> QED BY <2>1, <2>2 DEF ReplayInv, OwnerInv
<1> QED BY <1>1, <1>2 DEF ReplayInv

\* Going to an operation that is not behind the sidecar needs nothing.
LEMMA GotoMoves ==
  ASSUME ReplayInv, NEW p \in Invocation, NEW op, Goto(p, op), op \in Early \/ at[p] \notin Early
  PROVE  Moves(p)
BY DEF ReplayInv, ReplayType, Goto, Moves

\* An exception before the store exists ends the invocation.
LEMMA RaiseMoves ==
  ASSUME ReplayInv, NEW p \in Invocation, at[p] \notin Over, Raise(p)
  PROVE  Moves(p)
<1>1. CASE at[p] \in {"gate", "ledger", "directory"} \cup PartialWrite
  <2>1. Goto(p, "returned")
    BY <1>1 DEF Raise, Return, PartialWrite
  <2> QED BY <2>1, GotoMoves DEF Early
<1>2. CASE at[p] \notin {"gate", "ledger", "directory"} \cup PartialWrite
  <2>1. Goto(p, "partialEnd")
    BY <1>2 DEF Raise
  <2> QED BY <1>2, <2>1, GotoMoves DEF Early, Over
<1> QED BY <1>1, <1>2

\* A part of an operation that is not the creation of the sidecar.
LEMMA PartMoves ==
  ASSUME ReplayInv, NEW p \in Invocation, NEW s, at' = at, part' = [part EXCEPT ![p] = s],
         at[p] # "ledger"
  PROVE  Moves(p)
BY DEF ReplayInv, ReplayType, Moves, Early

\* The tables of operations do not name the sidecar.
LEMMA Operations ==
  /\ Write \cap (Early \cup Append1 \cup Journal) = {}
  /\ (Append1 \cup Journal) \cap Early = {}
  /\ PartialWrite \cap Early = {}
BY DEF Write, Target, Early, Append1, Journal, PartialWrite

\* The steps of an invocation that leave sidecar and proxies alone.
LEMMA QuietKeeps ==
  ASSUME ReplayInv, NEW p \in Invocation,
         \/ PassGate(p) \/ FailGate(p) \/ LedgerTaken(p) \/ MakeDirectory(p) \/ Recheck(p)
         \/ FillTemporary(p) \/ Replace(p) \/ SyncDirectory(p) \/ SkipWrite(p) \/ AppendRow(p)
         \/ QueryRecorded(p) \/ ResultsRecorded(p) \/ ReadBack(p) \/ Barrier(p)
         \/ LoadReference(p) \/ Finish(p) \/ PackageMutated(p) \/ Final(p) \/ Validate(p)
         \/ OperationRaises(p) \/ Kill(p)
  PROVE  ReplayInv' /\ UNCHANGED <<traces, ledger, ledgerSafe>>
<1> SUFFICES Moves(p) /\ UNCHANGED <<traces, ledger, ledgerSafe>>
  BY MovesKeeps
<1>1. CASE PassGate(p)
  BY <1>1, GotoMoves DEF PassGate, Early, memory, sidecar
<1>2. CASE FailGate(p) \/ LedgerTaken(p) \/ PackageMutated(p)
  <2>1. at[p] \notin Over /\ Raise(p) /\ UNCHANGED <<memory, sidecar>>
    BY <1>2 DEF FailGate, LedgerTaken, PackageMutated, Raises, Step, Over
  <2> QED BY <2>1, RaiseMoves DEF memory, sidecar
<1>3. CASE MakeDirectory(p) \/ LoadReference(p)
  BY <1>3, GotoMoves DEF MakeDirectory, LoadReference, Step, Early, memory, sidecar
<1>4. CASE Recheck(p)
  BY <1>4, GotoMoves, RaiseMoves DEF Recheck, Step, Early, Over, memory, sidecar
<1>5. CASE FillTemporary(p) \/ Replace(p) \/ AppendRow(p)
  <2>1. at' = at /\ at[p] # "ledger" /\ UNCHANGED <<memory, sidecar>>
    BY <1>5, Operations DEF FillTemporary, Replace, AppendRow, Early
  <2>2. \E s \in {"replace", "sync"} : part' = [part EXCEPT ![p] = s]
    BY <1>5 DEF FillTemporary, Replace, AppendRow
  <2> QED BY <2>1, <2>2, PartMoves DEF memory, sidecar
<1>6. CASE SyncDirectory(p) \/ SkipWrite(p)
  <2>1. at[p] \notin Early /\ Continue(p) /\ UNCHANGED <<memory, sidecar>>
    BY <1>6, Operations DEF SyncDirectory, SkipWrite, Skipped
  <2>2. Goto(p, "returned") \/ Goto(p, Then(p))
    BY <2>1 DEF Continue, Return
  <2> QED BY <2>1, <2>2, GotoMoves DEF memory, sidecar
<1>7. CASE QueryRecorded(p) \/ ResultsRecorded(p)
  <2>1. at[p] \notin Early /\ at[p] \notin Over /\ UNCHANGED <<memory, sidecar>>
    BY <1>7 DEF QueryRecorded, ResultsRecorded, Early, Over
  <2>2. Raise(p) \/ \E op \in {"resultRows", NextQuery(p)} : Goto(p, op)
    BY <1>7 DEF QueryRecorded, ResultsRecorded
  <2> QED BY <2>1, <2>2, GotoMoves, RaiseMoves DEF memory, sidecar
<1>8. CASE ReadBack(p) \/ Barrier(p) \/ Final(p) \/ Finish(p)
  <2>1. at[p] \notin Early /\ at[p] \notin Over /\ UNCHANGED <<traces, sidecar>>
    BY <1>8 DEF ReadBack, Barrier, Final, Finish, Step, Early, Over, memory
  <2>2. Raise(p) \/ \E op \in {"COMMIT", "REFERENCE_LOAD", "manifest", "end",
                               "HARD_GATE_FAILURE"} : Goto(p, op)
    BY <1>8 DEF ReadBack, Barrier, Final, Finish
  <2> QED BY <2>1, <2>2, GotoMoves, RaiseMoves DEF sidecar
<1>9. CASE Validate(p)
  <2>1. at[p] \notin Early /\ at[p] \notin Over /\ UNCHANGED <<memory, sidecar>>
    BY <1>9 DEF Validate, Step, Early, Over
  <2>2. Raise(p) \/ Goto(p, "returned")
    BY <1>9 DEF Validate, Return
  <2> QED BY <2>1, <2>2, GotoMoves, RaiseMoves DEF memory, sidecar
<1>10. CASE OperationRaises(p)
  BY <1>10, RaiseMoves DEF OperationRaises, memory, sidecar
<1>11. CASE Kill(p)
  BY <1>11, GotoMoves DEF Kill, Early, memory, sidecar
<1> QED BY <1>1, <1>2, <1>3, <1>4, <1>5, <1>6, <1>7, <1>8, <1>9, <1>10, <1>11

\* open("xb"): only into an empty parent, so nobody else is about to synchronise.
LEMMA CreateKeeps ==
  ASSUME ReplayInv, NEW p \in Invocation, CreateLedger(p)
  PROVE  ReplayInv' /\ UNCHANGED <<traces, ledgerSafe>>
<1>1. /\ at[p] = "ledger" /\ ledger = {} /\ ledger' = {[by |-> p, rows |-> <<>>]}
      /\ UNCHANGED <<at, traces, ledgerSafe>> /\ part' = [part EXCEPT ![p] = "sync"]
  BY DEF CreateLedger, Step, memory
<1>2. ledgerSafe = {}
  BY <1>1 DEF ReplayInv, OwnerInv
<1>3. ReplayType'
  BY <1>1 DEF ReplayInv, ReplayType
<1>4. LedgerType'
  BY <1>1, <1>2 DEF LedgerType
<1>5. \A q \in Invocation : part'[q] = IF q = p THEN "sync" ELSE part[q]
  BY <1>1 DEF ReplayInv, ReplayType
<1>6. OwnerInv'
  BY <1>1, <1>2, <1>5 DEF ReplayInv, OwnerInv
<1> QED BY <1>1, <1>3, <1>4, <1>6 DEF ReplayInv

\* A synchronisation of the sidecar takes the visible one, of the same owner if there
\* was one on disk.
LEMMA SyncKeeps ==
  ASSUME ReplayInv, NEW p \in Invocation, SyncLedger(p) \/ SyncJournal(p)
  PROVE  ReplayInv' /\ UNCHANGED traces /\ UNCHANGED ledger /\ ledgerSafe' = ledger
<1>1. UNCHANGED <<traces, ledger>> /\ ledgerSafe' = ledger
  BY DEF SyncLedger, SyncJournal, memory
<1>2. \E l \in ledger : l.by = p
  <2>1. CASE SyncLedger(p)
    BY <2>1 DEF SyncLedger, ReplayInv, OwnerInv
  <2>2. CASE SyncJournal(p)
    <3>1. at[p] \notin Early
      BY <2>2, Operations DEF SyncJournal
    <3> QED BY <3>1 DEF ReplayInv, OwnerInv
  <2> QED BY <2>1, <2>2
<1>3. /\ at' = [q \in Invocation |-> at'[q]] /\ part' = [q \in Invocation |-> part'[q]]
      /\ \A q \in Invocation : q # p => at'[q] = at[q] /\ part'[q] = part[q]
      /\ part'[p] = "begin"
  <2>1. \E op : Goto(p, op)
    BY DEF SyncLedger, SyncJournal, Raise, Return, Journal
  <2> QED BY <2>1 DEF Goto, ReplayInv, ReplayType
<1>4. ReplayType'
  BY <1>1, <1>3 DEF ReplayInv, ReplayType
<1>5. LedgerType'
  BY <1>1 DEF ReplayInv, LedgerType
<1>6. \A l \in ledgerSafe : \E m \in ledger : m.by = l.by
  BY <1>2 DEF ReplayInv, OwnerInv
<1>7. OwnerInv'
  <2>1. \A q \in Invocation : at'[q] \notin Early => \E l \in ledger : l.by = q
    BY <1>2, <1>3, <1>6 DEF ReplayInv, OwnerInv
  <2>2. \A q \in Invocation : at'[q] = "ledger" /\ part'[q] = "sync" => \E l \in ledger : l.by = q
    BY <1>3 DEF ReplayInv, OwnerInv
  <2>3. \A q \in Invocation, a \in Alias : traces[q][a] # <<>> => \E l \in ledger : l.by = q
    BY <1>6 DEF ReplayInv, OwnerInv
  <2> QED BY <1>1, <2>1, <2>2, <2>3 DEF ReplayInv, OwnerInv
<1> QED BY <1>1, <1>4, <1>5, <1>7 DEF ReplayInv

\* A record is appended to the sidecar and its owner stays.
LEMMA JournalKeeps ==
  ASSUME ReplayInv, NEW p \in Invocation, JournalRow(p)
  PROVE  ReplayInv' /\ UNCHANGED <<traces, ledgerSafe>>
<1>1. /\ at[p] \in Journal /\ UNCHANGED <<at, traces, ledgerSafe>>
      /\ part' = [part EXCEPT ![p] = "sync"]
  BY DEF JournalRow, memory
<1>2. PICK row : ledger' = {[l EXCEPT !.rows = Append(@, row)] : l \in ledger}
  BY DEF JournalRow
<1>3. /\ \A m \in ledger' : \E l \in ledger : m.by = l.by /\ m = [by |-> m.by, rows |-> m.rows]
      /\ \A l \in ledger : \E m \in ledger' : m.by = l.by
  <2>1. ASSUME NEW l \in ledger
        PROVE  /\ [l EXCEPT !.rows = Append(@, row)] = [by |-> l.by, rows |-> Append(l.rows, row)]
               /\ [l EXCEPT !.rows = Append(@, row)].by = l.by
    BY DEF ReplayInv, LedgerType
  <2> QED BY <1>2, <2>1
<1>4. ReplayType'
  BY <1>1 DEF ReplayInv, ReplayType
<1>5. LedgerType'
  BY <1>1, <1>3 DEF ReplayInv, LedgerType
<1>6. /\ at[p] # "ledger" /\ \A q \in Invocation : q # p => part'[q] = part[q]
  BY <1>1, Operations DEF ReplayInv, ReplayType, Early
<1>7. OwnerInv'
  <2>1. \A l, m \in ledger' \cup ledgerSafe : l.by = m.by
    BY <1>3 DEF ReplayInv, OwnerInv
  <2>2. ledger' = {} => ledgerSafe = {}
    BY <1>3 DEF ReplayInv, OwnerInv
  <2>3. \A q \in Invocation : at[q] = "ledger" /\ part'[q] = "sync" => \E m \in ledger' : m.by = q
    BY <1>3, <1>6 DEF ReplayInv, OwnerInv
  <2> QED BY <1>1, <2>1, <2>2, <2>3 DEF ReplayInv, OwnerInv
<1> QED BY <1>1, <1>4, <1>5, <1>7 DEF ReplayInv

\* A ticket is spent behind the sidecar.
LEMMA TicketKeeps ==
  ASSUME ReplayInv, NEW p \in Invocation, NEW outcome \in Outcome, Search(p, outcome)
  PROVE  /\ ReplayInv' /\ UNCHANGED <<ledger, ledgerSafe>>
         /\ \E l \in ledgerSafe : l.by = p
         /\ \A q \in Invocation : q # p => traces'[q] = traces[q]
         /\ \A a \in Alias : traces[p][a] # <<>> => traces'[p][a] # <<>>
<1>1. /\ at[p] = "search" /\ UNCHANGED <<ledger, ledgerSafe>> /\ Goto(p, "queryRow")
      /\ traces' = [traces EXCEPT ![p][Entrant(p)] = Append(@, outcome)]
  BY DEF Search, Step, Traced, sidecar
<1>2. \E l \in ledgerSafe : l.by = p
  BY <1>1 DEF ReplayInv, OwnerInv, Early
<1> DEFINE e == Entrant(p)
<1>3. /\ traces' \in [Invocation -> [Alias -> Seq(Outcome)]]
      /\ \A q \in Invocation : q # p => traces'[q] = traces[q]
      /\ \A a \in Alias : traces[p][a] # <<>> => traces'[p][a] # <<>>
  <2>1. traces \in [Invocation -> [Alias -> Seq(Outcome)]]
    BY DEF ReplayInv, ReplayType
  <2>2. traces' = [traces EXCEPT ![p] = [traces[p] EXCEPT ![e] = Append(traces[p][e], outcome)]]
    BY <1>1, <2>1
  <2> HIDE DEF e
  <2>3. \A a \in Alias : traces[p][a] \in Seq(Outcome)
    BY <2>1
  <2>4. \A a \in Alias : Append(traces[p][a], outcome) \in Seq(Outcome)
                         /\ Append(traces[p][a], outcome) # <<>>
    BY <2>3
  <2>5. \A a \in Alias : traces'[p][a] = IF a = e THEN Append(traces[p][a], outcome)
                                                  ELSE traces[p][a]
    BY <2>1, <2>2
  <2>6. \A a \in Alias : traces'[p][a] \in Seq(Outcome)
    BY <2>3, <2>4, <2>5
  <2>7. [traces[p] EXCEPT ![e] = Append(traces[p][e], outcome)] \in [Alias -> Seq(Outcome)]
    BY <2>1, <2>2, <2>6
  <2> QED BY <2>1, <2>2, <2>4, <2>5, <2>7
<1>4. Moves(p)
  BY <1>1, GotoMoves DEF Early
<1>5. ReplayType' /\ LedgerType'
  BY <1>1, <1>3, <1>4 DEF ReplayInv, ReplayType, LedgerType, Moves
<1>6. OwnerInv'
  <2>1. \A q \in Invocation : at'[q] \notin Early => \E l \in ledgerSafe : l.by = q
    BY <1>2, <1>4 DEF ReplayInv, OwnerInv, Moves
  <2>2. \A q \in Invocation : at'[q] = "ledger" /\ part'[q] = "sync" => \E l \in ledger : l.by = q
    BY <1>4 DEF ReplayInv, OwnerInv, Moves
  <2>3. \A q \in Invocation, a \in Alias : traces'[q][a] # <<>> => \E l \in ledgerSafe : l.by = q
    BY <1>2, <1>3 DEF ReplayInv, OwnerInv
  <2> QED BY <1>1, <2>1, <2>2, <2>3 DEF ReplayInv, OwnerInv
<1> QED BY <1>1, <1>2, <1>3, <1>5, <1>6 DEF ReplayInv

\* A power loss ends who is past the gate; it may take a sidecar that was never
\* synchronised, or leave it for good.
LEMMA PowerLossKeeps ==
  ASSUME ReplayInv, PowerLoss
  PROVE  /\ ReplayInv' /\ UNCHANGED traces
         /\ ledgerSafe' = ledger \/ ledgerSafe' = ledgerSafe
<1>1. /\ UNCHANGED traces /\ ledgerSafe' = ledger'
      /\ ledger' = ledger \/ ledger' = ledgerSafe
      /\ at' = [p \in Invocation |-> IF at[p] \in Over \cup {"gate"} THEN at[p] ELSE "killed"]
      /\ part' = [p \in Invocation |-> "begin"]
  BY DEF PowerLoss, memory
<1>2. ReplayType' /\ LedgerType'
  BY <1>1 DEF ReplayInv, ReplayType, LedgerType
<1>3. \A p \in Invocation : at'[p] \in Early /\ at'[p] # "ledger"
  BY <1>1 DEF Over, Early
<1>4. \A l \in ledgerSafe : \E m \in ledger' : m.by = l.by
  BY <1>1 DEF ReplayInv, OwnerInv
<1>5. \A p \in Invocation, a \in Alias : traces[p][a] # <<>> => \E m \in ledger' : m.by = p
  BY <1>4 DEF ReplayInv, OwnerInv
<1>6. OwnerInv'
  BY <1>1, <1>3, <1>5 DEF ReplayInv, OwnerInv
<1> QED BY <1>1, <1>2, <1>6 DEF ReplayInv

----------------------------------------------------------------------------
(* Theorems *)

\* The owner of the sidecar is one, visible and on disk, and nobody is past it without
\* owning it.
THEOREM ReplayInductive == Spec => []ReplayInv
<1>1. ReplayInv /\ [Next]_vars => ReplayInv'
  <2> SUFFICES ASSUME ReplayInv, [Next]_vars PROVE ReplayInv'
    OBVIOUS
  <2>1. ASSUME NEW p \in Invocation, Run(p) \/ OperationRaises(p) \/ Kill(p) PROVE ReplayInv'
    BY <2>1, QuietKeeps, CreateKeeps, SyncKeeps, JournalKeeps, TicketKeeps DEF Run
  <2>2. ASSUME UNCHANGED <<at, part, memory, sidecar>> PROVE ReplayInv'
    BY <2>2 DEF memory, sidecar, ReplayInv, ReplayType, LedgerType, OwnerInv
  <2>3. ASSUME NEW p \in Invocation, NEW f \in FormalFiles \ {"manifest"}, BadBytes(p, f)
        PROVE  ReplayInv'
    BY <2>2, <2>3 DEF BadBytes
  <2>4. CASE Drift \/ UNCHANGED vars
    BY <2>2, <2>4 DEF Drift, vars
  <2> QED BY <2>1, <2>3, <2>4, PowerLossKeeps DEF Next
<1> QED BY <1>1, ReplayStart, PTL DEF Spec

RunOwner == {l.by : l \in ledgerSafe}
RunUses == {p \in Invocation : \E a \in Alias : traces[p][a] # <<>>}

\* Without a search the durable owner stays or is committed.
LEMMA RunCommit ==
  ASSUME ReplayInv, ReplayInv', traces' = traces,
         ledgerSafe' = ledgerSafe \/ ledgerSafe' = ledger
  PROVE  RunIdentity!Commit
<1>1. \A l \in ledger \cup ledgerSafe : l.by \in Invocation
  BY DEF ReplayInv, LedgerType
<1>2. \A l, m \in ledger \cup ledgerSafe : l.by = m.by
  BY DEF ReplayInv, OwnerInv
<1>3. ledger = {} => ledgerSafe = {}
  BY DEF ReplayInv, OwnerInv
<1>4. RunOwner' \subseteq Invocation
  BY <1>1 DEF RunOwner
<1>5. ASSUME RunOwner' # RunOwner
      PROVE  RunOwner = {} /\ \E p \in Invocation : RunOwner' = {p}
  <2>1. ledgerSafe' = ledger
    BY <1>5 DEF RunOwner
  <2>2. ledger # {}
    BY <1>3, <1>5, <2>1 DEF RunOwner
  <2>3. PICK l \in ledger : TRUE
    BY <2>2
  <2>4. RunOwner' = {l.by} /\ l.by \in Invocation
    BY <1>1, <1>2, <2>1, <2>3 DEF RunOwner
  <2>5. RunOwner = {} \/ RunOwner = {l.by}
    BY <1>2, <2>3 DEF RunOwner
  <2> QED BY <1>5, <2>4, <2>5
<1>6. [n \in {"RUN_ID"} |-> RunUses]' = [n \in {"RUN_ID"} |-> RunUses]
  BY DEF RunUses
<1>7. [n \in {"RUN_ID"} |-> RunOwner]' \in [{"RUN_ID"} -> SUBSET Invocation]
  BY <1>4
<1> QED BY <1>5, <1>6, <1>7 DEF RunIdentity!Commit, RunOwner, RunUses

\* A search is the first use of the run identity, or one more ticket of its owner.
LEMMA RunSpend ==
  ASSUME ReplayInv, NEW p \in Invocation, NEW outcome \in Outcome, Search(p, outcome)
  PROVE  RunIdentity!Spend(p, p)
<1>1. /\ UNCHANGED <<ledger, ledgerSafe>> /\ \E l \in ledgerSafe : l.by = p
      /\ \A q \in Invocation : q # p => traces'[q] = traces[q]
      /\ \A a \in Alias : traces[p][a] # <<>> => traces'[p][a] # <<>>
  BY TicketKeeps
<1>2. RunOwner = {p}
  BY <1>1 DEF RunOwner, ReplayInv, OwnerInv
<1>3. \A q \in RunUses : q = p
  BY <1>1 DEF RunUses, ReplayInv, OwnerInv
<1>4. RunUses \subseteq RunUses' /\ RunUses' \subseteq RunUses \cup {p}
  BY <1>1 DEF RunUses
<1>5. RunUses' # RunUses => RunUses = {} /\ RunUses' = {p}
  BY <1>3, <1>4
<1>6. [n \in {"RUN_ID"} |-> RunUses]' \in [{"RUN_ID"} -> SUBSET Invocation]
  BY DEF RunUses
<1>7. [n \in {"RUN_ID"} |-> RunOwner]' = [n \in {"RUN_ID"} |-> RunOwner]
  BY <1>1 DEF RunOwner
<1> QED BY <1>2, <1>5, <1>6, <1>7 DEF RunIdentity!Spend, RunOwner, RunUses

\* OneShot over the sidecar: the run identity is committed to one invocation, for
\* good, and no other one ever spends a ticket, under any directory name, however
\* writes fail, processes die and the host loses power.
THEOREM ReplayImplements == Spec => RunIsOneShot
<1>1. Init => RunIdentity!Init
  <2> SUFFICES ASSUME Init PROVE RunIdentity!Init
    OBVIOUS
  <2>1. ledgerSafe = {} /\ \A p \in Invocation, a \in Alias : traces[p][a] = <<>>
    BY DEF Init
  <2> QED BY <2>1 DEF RunIdentity!Init
<1>2. ReplayInv /\ ReplayInv' /\ [Next]_vars => RunIdentity!Next \/ UNCHANGED RunIdentity!vars
  <2> SUFFICES ASSUME ReplayInv, ReplayInv', [Next]_vars
               PROVE  RunIdentity!Next
    OBVIOUS
  <2>1. ASSUME NEW p \in Invocation, NEW outcome \in Outcome, Search(p, outcome)
        PROVE  RunIdentity!Next
    <3>1. RunIdentity!Spend(p, p)
      BY <2>1, RunSpend
    <3>2. \E c \in Invocation, u \in Invocation : RunIdentity!Spend(c, u)
      BY <3>1 DEF RunIdentity!Spend
    <3> QED BY <3>2 DEF RunIdentity!Next
  <2>2. ASSUME traces' = traces, ledgerSafe' = ledgerSafe \/ ledgerSafe' = ledger
        PROVE  RunIdentity!Next
    BY <2>2, RunCommit DEF RunIdentity!Next
  <2>3. ASSUME NEW p \in Invocation, Run(p) \/ OperationRaises(p) \/ Kill(p)
        PROVE  RunIdentity!Next
    BY <2>1, <2>2, <2>3, QuietKeeps, CreateKeeps, SyncKeeps, JournalKeeps DEF Run
  <2>4. ASSUME UNCHANGED <<memory, sidecar>> PROVE RunIdentity!Next
    BY <2>2, <2>4 DEF memory, sidecar
  <2>5. ASSUME NEW p \in Invocation, NEW f \in FormalFiles \ {"manifest"}, BadBytes(p, f)
        PROVE  RunIdentity!Next
    BY <2>4, <2>5 DEF BadBytes
  <2>6. CASE Drift \/ UNCHANGED vars
    BY <2>4, <2>6 DEF Drift, vars
  <2> QED BY <2>2, <2>3, <2>5, <2>6, PowerLossKeeps DEF Next
<1> QED BY <1>1, <1>2, ReplayInductive, PTL DEF Spec, RunIsOneShot, RunIdentity!Spec

----------------------------------------------------------------------------
(* The account of a run *)

\* The stages of an invocation that is past the sidecar, in the order of _execute.
Opening == {"directory", "recheck", "preflight", "queries0", "results0", "start", "STARTED"}
Querying == {"search", "queryRow", "resultRows", "outputA", "outputB", "readback", "COMMIT"}
Sealing == {"receipts", "barrier", "REFERENCE_LOAD"}
Judging == {"load", "audit", "adjudication", "finish", "HARD_GATE_FAILURE", "end", "metrics",
            "checks", "post", "final", "manifest", "validate"}
Working == Opening \cup Querying \cup Sealing \cup Judging
Operation == Early \cup Working \cup PartialWrite

IsDoc(d) == d = [body |-> d.body, altered |-> d.altered]
IsRows(s) == s \in Seq({s[i] : i \in DOMAIN s})

\* The control of an invocation, and the shape of what it writes.
ControlType(p) ==
    /\ at[p] \in Operation /\ part[p] \in {"begin", "replace", "sync"} /\ turn[p] \in {1, 2}
    /\ comparable[p] \in {"none", "PASS", "NOT_EVALUABLE"}
    /\ part[p] = "replace" => at[p] \in Write

DocType(p) == \A f \in File : \A d \in disk[p][f] \cup safe[p][f] : IsDoc(d)

Shaped(d) == d = [p \in Invocation |-> [f \in File |-> d[p][f]]]

MemoryType ==
    /\ turn = [p \in Invocation |-> turn[p]]
    /\ comparable = [p \in Invocation |-> comparable[p]]
    /\ result = [p \in Invocation |-> result[p]]
    /\ Shaped(disk) /\ Shaped(safe)

Whole(t) == t = [i \in 1..MaxCalls |-> "SUCCEEDED"]
NoneFailed(t) == \A i \in 1..Len(t) : t[i] # "FAILED"
\* A failed ticket is the last one.
FailsLast(t) == \A i \in 1..Len(t) : t[i] = "FAILED" => i = Len(t)
Complete(p) == \A a \in Alias : Whole(traces[p][a])

\* The tickets of both entrants against the operation the invocation is at.
TicketInv(p) ==
    /\ \A a \in Alias : Len(traces[p][a]) <= MaxCalls /\ FailsLast(traces[p][a])
    /\ turn[p] = 1 => traces[p]["B"] = <<>>
    /\ turn[p] = 2 => Whole(traces[p]["A"])
    /\ at[p] \in {"gate", "ledger"} \cup Opening => turn[p] = 1 /\ traces[p]["A"] = <<>>
    /\ at[p] \in Querying \ {"queryRow"} => NoneFailed(traces[p][Entrant(p)])
    /\ at[p] = "queryRow" => traces[p][Entrant(p)] # <<>>
    /\ at[p] \in {"outputA", "outputB"} => at[p] = Output(Entrant(p))
    /\ at[p] \in {"outputA", "outputB", "readback", "COMMIT"}
           => Len(traces[p][Entrant(p)]) = MaxCalls
    /\ at[p] \in Sealing \cup Judging \/ p \in exposed \/ comparable[p] # "none"
           => turn[p] = 2 /\ Complete(p)

SpentBy(p) == Len(traces[p]["A"]) + Len(traces[p]["B"])
Stream(p) == disk[p]["queries"] \cup safe[p]["queries"]

\* The stream of queries, visible and durable, against the tickets spent.
StreamInv(p) ==
    /\ \A d \in Stream(p) : d.body \in Seq(Alias \X Outcome)
    /\ at[p] = "queries0" /\ part[p] = "replace" => disk[p]["temporary"] = {Doc(<<>>)}
    /\ at[p] \in {"results0", "start", "STARTED"} \cup Querying => safe[p]["queries"] # {}
    /\ SpentBy(p) > 0 =>
          /\ safe[p]["queries"] # {}
          /\ \A d \in Stream(p) : Len(d.body) \in {SpentBy(p) - 1, SpentBy(p)}
    /\ at[p] \in {"gate", "ledger"} \cup Opening \cup (Querying \ {"queryRow"}) =>
          \A d \in Stream(p) : Len(d.body) = SpentBy(p)
    /\ at[p] = "queryRow" =>
          /\ \A d \in safe[p]["queries"] : Len(d.body) = SpentBy(p) - 1
          /\ \A d \in disk[p]["queries"] :
                Len(d.body) = IF part[p] = "sync" THEN SpentBy(p) ELSE SpentBy(p) - 1

\* What a power loss cannot take any more, by stage.
FileInv(p) ==
    /\ \A f \in File \ {"temporary"} : safe[p][f] # {} => disk[p][f] # {}
    /\ part[p] = "replace" => disk[p]["temporary"] # {}
    /\ at[p] \in Write /\ part[p] = "sync" => disk[p][Target[at[p]]] # {}
    /\ at[p] \in {"STARTED"} \cup Querying \/ SpentBy(p) > 0 => safe[p]["start"] # {}
    /\ at[p] \in {"readback", "COMMIT"} => safe[p][Output(Entrant(p))] # {}
    /\ turn[p] = 2 => safe[p]["outputA"] # {}
    /\ at[p] \in Sealing \cup Judging \/ p \in exposed => safe[p]["outputB"] # {}

EventsOf(rows) == [i \in DOMAIN rows |-> rows[i].event]
Loaded == <<"STARTED", "COMMIT", "COMMIT", "REFERENCE_LOAD">>

\* The records the sidecar durably holds when an invocation is at an operation.
Told(p) ==
    CASE at[p] \in Opening -> <<>>
      [] at[p] \in Querying -> IF turn[p] = 1 THEN <<"STARTED">> ELSE <<"STARTED", "COMMIT">>
      [] at[p] \in Sealing -> <<"STARTED", "COMMIT", "COMMIT">>
      [] at[p] \in Judging -> Loaded

\* The sidecar, visible and durable, against the operation its owner is at.
JournalInv(p) ==
    /\ at[p] = "ledger" /\ part[p] = "sync" => \A l \in ledger : l.rows = <<>>
    /\ at[p] \in Working =>
          /\ \A l \in ledgerSafe : EventsOf(l.rows) = Told(p)
          /\ \A l \in ledger : EventsOf(l.rows) =
                 IF at[p] \in Journal /\ part[p] = "sync" THEN Append(Told(p), at[p]) ELSE Told(p)
          /\ ledger = ledgerSafe \/ (at[p] \in Journal /\ part[p] = "sync")
    /\ SpentBy(p) > 0 => \A l \in ledger \cup ledgerSafe :
                             l.rows # <<>> /\ EventsOf(l.rows)[1] = "STARTED"
    /\ p \in exposed =>
          /\ at[p] \in (Judging \ {"load"}) \cup PartialWrite \cup Over
          /\ \E l \in ledgerSafe : l.by = p
          /\ \A l \in ledger \cup ledgerSafe :
                EventsOf(l.rows) \in {Loaded, Append(Loaded, "HARD_GATE_FAILURE")}

RowsType ==
    \A l \in ledger \cup ledgerSafe :
        IsRows(l.rows) /\ \A i \in DOMAIN l.rows : l.rows[i].by = l.by

Unjudged == {"gate", "ledger", "load", "audit", "adjudication", "finish", "HARD_GATE_FAILURE"}
                \cup Opening \cup Querying \cup Sealing

\* What a verdict, and a status that was returned, stand on.
VerdictInv(p) ==
    /\ at[p] \in Unjudged => comparable[p] = "none"
    /\ comparable[p] # "none" \/ at[p] \in Judging \ {"load", "audit", "adjudication", "finish",
                                                      "HARD_GATE_FAILURE"} => p \in exposed
    /\ at[p] \in {"audit", "adjudication", "finish", "HARD_GATE_FAILURE"} => p \in exposed
    /\ at[p] = "post" /\ part[p] = "replace" => disk[p]["temporary"] = {Doc(comparable[p])}
    /\ at[p] = "partialPost" /\ part[p] = "replace" => disk[p]["temporary"] = {Doc("PARTIAL")}
    /\ \A d \in disk[p]["post"] \cup safe[p]["post"] : d.body = "PASS" => comparable[p] = "PASS"
    /\ at[p] = "validate" => disk[p] = safe[p]
    /\ result[p] # "none" => at[p] = "returned"
    /\ result[p] = "PRESTART" => SpentBy(p) = 0
    /\ result[p] = "PASS" => /\ comparable[p] = "PASS" /\ disk[p] = safe[p] /\ ledger = ledgerSafe
                             /\ Unaltered(disk[p]) => ValidateComplete(disk[p], ledger)

RunAccount ==
    /\ MemoryType /\ RowsType
    /\ \A p \in Invocation : /\ ControlType(p) /\ DocType(p)
                             /\ TicketInv(p) /\ StreamInv(p) /\ FileInv(p)
                             /\ JournalInv(p) /\ VerdictInv(p)

----------------------------------------------------------------------------
(* Sets of operations and sequences *)

LEMMA Writes ==
  /\ Write = {"preflight", "queries0", "results0", "start", "outputA", "outputB", "receipts",
              "audit", "adjudication", "end", "metrics", "checks", "post", "manifest",
              "partialEnd", "partialPost", "partialJournal", "partialManifest"}
  /\ \A op \in Write : Target[op] \in File \ {"temporary"}
  /\ \A op \in Write : Target[op] = "queries" <=> op = "queries0"
  /\ \A op \in Write : Target[op] = "post" <=> op \in {"post", "partialPost"}
  /\ \A op \in Write : Target[op] = "start" <=> op = "start"
  /\ Target["outputA"] = "outputA" /\ Target["outputB"] = "outputB"
  /\ {"queries", "results", "start", "outputA", "outputB", "post", "temporary"} \subseteq File
<1>1. Write = {"preflight", "queries0", "results0", "start", "outputA", "outputB", "receipts",
              "audit", "adjudication", "end", "metrics", "checks", "post", "manifest",
              "partialEnd", "partialPost", "partialJournal", "partialManifest"}
  BY DEF Write, Target
<1>2. \A op \in Write : Target[op] \in File \ {"temporary"}
  BY <1>1 DEF Target, File
<1>3. \A op \in Write : Target[op] = "queries" <=> op = "queries0"
  BY <1>1 DEF Target
<1>4. \A op \in Write : Target[op] = "post" <=> op \in {"post", "partialPost"}
  BY <1>1 DEF Target
<1>5. \A op \in Write : Target[op] = "start" <=> op = "start"
  BY <1>1 DEF Target
<1>6. Target["outputA"] = "outputA" /\ Target["outputB"] = "outputB"
  BY DEF Target
<1>7. {"queries", "results", "start", "outputA", "outputB", "post", "temporary"} \subseteq File
  <2>1. {Target["queries0"], Target["results0"], Target["start"], Target["outputA"], Target["outputB"],
         Target["post"]} \subseteq File
    BY <1>1 DEF File
  <2> QED BY <2>1 DEF Target, File
<1> QED BY <1>1, <1>2, <1>3, <1>4, <1>5, <1>6, <1>7

LEMMA TwoEntrants ==
  /\ Alias = {"A", "B"}
  /\ \A p \in Invocation : /\ turn[p] = 1 => Entrant(p) = "A"
                           /\ turn[p] = 2 => Entrant(p) = "B"
<1>1. Alias = {"A", "B"}
  BY DEF Alias, Aliases, ToSet
<1> QED BY <1>1 DEF Entrant, Aliases

LEMMA AppendedRows ==
  ASSUME NEW s, IsRows(s), NEW r
  PROVE  /\ IsRows(Append(s, r)) /\ Append(s, r) # <<>>
         /\ DOMAIN s = 1..Len(s) /\ Len(s) \in Nat
         /\ Len(Append(s, r)) = Len(s) + 1 /\ DOMAIN Append(s, r) = 1..(Len(s) + 1)
         /\ \A i \in 1..Len(s) : Append(s, r)[i] = s[i]
         /\ Append(s, r)[Len(s) + 1] = r
<1> DEFINE S == {s[i] : i \in DOMAIN s} \cup {r}
<1>1. s \in Seq(S)
  BY DEF IsRows
<1>2. r \in S
  OBVIOUS
<1> HIDE DEF S
<1>3. /\ Append(s, r) \in Seq(S) /\ Append(s, r) # <<>>
      /\ DOMAIN s = 1..Len(s) /\ Len(s) \in Nat
      /\ Len(Append(s, r)) = Len(s) + 1 /\ DOMAIN Append(s, r) = 1..(Len(s) + 1)
      /\ \A i \in 1..Len(s) : Append(s, r)[i] = s[i]
      /\ Append(s, r)[Len(s) + 1] = r
  BY <1>1, <1>2
<1>4. IsRows(Append(s, r))
  BY <1>3 DEF IsRows
<1> QED BY <1>3, <1>4

LEMMA AppendIs ==
  ASSUME NEW S, NEW x \in S, NEW a \in Seq(S), NEW n, n = Len(a) + 1
  PROVE  Append(a, x) = [i \in 1..n |-> IF i = n THEN x ELSE a[i]]
<1> DEFINE c == Append(a, x)
<1>1. c \in Seq(S) /\ Len(c) = n
  OBVIOUS
<1>2. ASSUME NEW i \in 1..Len(a) PROVE c[i] = a[i]
  OBVIOUS
<1>3. c[Len(a) + 1] = x
  OBVIOUS
<1> HIDE DEF c
<1>4. c = [i \in 1..n |-> c[i]]
  BY <1>1
<1>5. ASSUME NEW i \in 1..n PROVE c[i] = IF i = n THEN x ELSE a[i]
  BY <1>2, <1>3
<1> QED BY <1>4, <1>5 DEF c

LEMMA AppendedEvents ==
  ASSUME NEW s, IsRows(s), NEW r
  PROVE  EventsOf(Append(s, r)) = Append(EventsOf(s), r.event)
<1> DEFINE e == EventsOf(s)
           S == {s[i].event : i \in 1..Len(s)} \cup {r.event}
<1>1. e = [i \in 1..Len(s) |-> s[i].event] /\ Len(s) \in Nat
  BY AppendedRows DEF EventsOf
<1>2. e \in Seq(S) /\ Len(e) = Len(s) /\ r.event \in S
  BY <1>1
<1> HIDE DEF e, S
<1>3. Append(e, r.event) = [i \in 1..(Len(s) + 1) |-> IF i = Len(s) + 1 THEN r.event ELSE e[i]]
  BY <1>1, <1>2, AppendIs
<1>4. EventsOf(Append(s, r))
         = [i \in 1..(Len(s) + 1) |-> IF i = Len(s) + 1 THEN r.event ELSE s[i].event]
  BY <1>1, AppendedRows DEF EventsOf
<1> QED BY <1>1, <1>3, <1>4 DEF e

\* What the next record makes of each stage of the chronicle.
LEMMA Chronicle ==
  ASSUME NEW x
  PROVE  /\ Append(<<>>, x) = <<x>>
         /\ Append(<<"STARTED">>, x) = <<"STARTED", x>>
         /\ Append(<<"STARTED", "COMMIT">>, x) = <<"STARTED", "COMMIT", x>>
         /\ Append(<<"STARTED", "COMMIT", "COMMIT">>, x) = <<"STARTED", "COMMIT", "COMMIT", x>>
<1> DEFINE S == {"STARTED", "COMMIT", x}
<1>1. Append(<<>>, x) = <<x>>
  OBVIOUS
<1>2. Append(<<"STARTED">>, x) = <<"STARTED", x>>
  <2> DEFINE a == <<"STARTED">>
  <2>1. a \in Seq(S) /\ 2 = Len(a) + 1 /\ x \in S
    OBVIOUS
  <2> HIDE DEF a, S
  <2>2. Append(a, x) = [i \in 1..2 |-> IF i = 2 THEN x ELSE a[i]]
    BY <2>1, AppendIs
  <2>3. [i \in 1..2 |-> IF i = 2 THEN x ELSE a[i]] = <<"STARTED", x>>
    BY DEF a
  <2> QED BY <2>2, <2>3 DEF a
<1>3. Append(<<"STARTED", "COMMIT">>, x) = <<"STARTED", "COMMIT", x>>
  <2> DEFINE a == <<"STARTED", "COMMIT">>
  <2>1. a \in Seq(S) /\ 3 = Len(a) + 1 /\ x \in S
    OBVIOUS
  <2> HIDE DEF a, S
  <2>2. Append(a, x) = [i \in 1..3 |-> IF i = 3 THEN x ELSE a[i]]
    BY <2>1, AppendIs
  <2>3. [i \in 1..3 |-> IF i = 3 THEN x ELSE a[i]] = <<"STARTED", "COMMIT", x>>
    BY DEF a
  <2> QED BY <2>2, <2>3 DEF a
<1>4. Append(<<"STARTED", "COMMIT", "COMMIT">>, x) = <<"STARTED", "COMMIT", "COMMIT", x>>
  <2> DEFINE a == <<"STARTED", "COMMIT", "COMMIT">>
  <2>1. a \in Seq(S) /\ 4 = Len(a) + 1 /\ x \in S
    OBVIOUS
  <2> HIDE DEF a, S
  <2>2. Append(a, x) = [i \in 1..4 |-> IF i = 4 THEN x ELSE a[i]]
    BY <2>1, AppendIs
  <2>3. [i \in 1..4 |-> IF i = 4 THEN x ELSE a[i]] = <<"STARTED", "COMMIT", "COMMIT", x>>
    BY DEF a
  <2> QED BY <2>2, <2>3 DEF a
<1> QED BY <1>1, <1>2, <1>3, <1>4

----------------------------------------------------------------------------
(* What a step leaves alone, and the shape of what it does not *)

SameRun(q) ==
    /\ at'[q] = at[q] /\ part'[q] = part[q] /\ turn'[q] = turn[q] /\ traces'[q] = traces[q]
    /\ comparable'[q] = comparable[q] /\ disk'[q] = disk[q] /\ safe'[q] = safe[q]
    /\ result'[q] = result[q] /\ (q \in exposed' <=> q \in exposed)

\* The stream with one more row.
WithRow(p, f) == {[d EXCEPT !.body = Append(@, <<Entrant(p), Last(traces[p][Entrant(p)])>>)]
                   : d \in disk[p][f]}

LEMMA RaiseOthers ==
  ASSUME ReplayType, MemoryType, NEW p \in Invocation, Raise(p), NEW q \in Invocation, q # p
  PROVE  at'[q] = at[q] /\ part'[q] = part[q] /\ result'[q] = result[q]
<1>1. \E op : Goto(p, op)
  BY DEF Raise, Return
<1>2. \A op : Goto(p, op) => at'[q] = at[q] /\ part'[q] = part[q]
  BY DEF Goto, ReplayType
<1>3. result'[q] = result[q]
  BY DEF Raise, Return, MemoryType
<1> QED BY <1>1, <1>2, <1>3

\* One file of one directory is set; one directory is copied from another table.
Puts(e, d, p, f, x) == e = [d EXCEPT ![p][f] = x]
Copies(e, d, p, c) == e = [d EXCEPT ![p] = c[p]]

LEMMA Updated ==
  ASSUME NEW d, Shaped(d), NEW p \in Invocation, NEW f \in File, NEW x, NEW e, Puts(e, d, p, f, x)
  PROVE  /\ Shaped(e) /\ e[p][f] = x
         /\ \A g \in File : g # f => e[p][g] = d[p][g]
         /\ \A q \in Invocation : q # p => e[q] = d[q]
<1>1. /\ d[p] = [g \in File |-> d[p][g]]
      /\ e = [q \in Invocation |-> IF q = p THEN [d[p] EXCEPT ![f] = x] ELSE d[q]]
  BY DEF Shaped, Puts
<1>2. e[p] = [g \in File |-> IF g = f THEN x ELSE d[p][g]]
  BY <1>1
<1>3. ASSUME NEW q \in Invocation PROVE e[q] = [g \in File |-> e[q][g]]
  <2>1. CASE q = p
    BY <1>2, <2>1
  <2>2. CASE q # p
    <3>1. e[q] = d[q] /\ d[q] = [g \in File |-> d[q][g]]
      BY <1>1, <2>2 DEF Shaped
    <3> QED BY <3>1
  <2> QED BY <2>1, <2>2
<1>4. Shaped(e)
  BY <1>1, <1>3 DEF Shaped
<1> QED BY <1>1, <1>2, <1>4

LEMMA Copied ==
  ASSUME NEW d, Shaped(d), NEW c, Shaped(c), NEW p \in Invocation, NEW e, Copies(e, d, p, c)
  PROVE  Shaped(e) /\ e[p] = c[p] /\ \A q \in Invocation : q # p => e[q] = d[q]
<1>1. e = [q \in Invocation |-> IF q = p THEN c[p] ELSE d[q]]
  BY DEF Shaped, Copies
<1>2. ASSUME NEW q \in Invocation PROVE e[q] = [g \in File |-> e[q][g]]
  <2>1. c[q] = [g \in File |-> c[q][g]] /\ d[q] = [g \in File |-> d[q][g]]
    BY DEF Shaped
  <2> QED BY <1>1, <2>1
<1>3. Shaped(e)
  BY <1>1, <1>2 DEF Shaped
<1> QED BY <1>1, <1>3

\* What a write does to the directories.
LEMMA WritesDisk ==
  ASSUME MemoryType, NEW p \in Invocation
  PROVE  /\ FillTemporary(p) => Puts(disk', disk, p, "temporary", {Doc(Content(p))})
         /\ Replace(p) => \E d :
               /\ Puts(d, disk, p, Target[at[p]], disk[p]["temporary"])
               /\ Puts(disk', d, p, "temporary", {})
         /\ AppendRow(p) =>
               /\ at[p] = "queryRow" => Puts(disk', disk, p, "queries", WithRow(p, "queries"))
               /\ at[p] = "resultRows" => Puts(disk', disk, p, "results", WithRow(p, "results"))
         /\ SyncDirectory(p) \/ QueryRecorded(p) \/ ResultsRecorded(p) => Copies(safe', safe, p, disk)
<1>1. FillTemporary(p) => Puts(disk', disk, p, "temporary", {Doc(Content(p))})
  BY DEF FillTemporary, Puts
<1>2. Replace(p) => \E d : /\ Puts(d, disk, p, Target[at[p]], disk[p]["temporary"])
                           /\ Puts(disk', d, p, "temporary", {})
  <2> SUFFICES ASSUME Replace(p)
               PROVE  \E d : /\ Puts(d, disk, p, Target[at[p]], disk[p]["temporary"])
                             /\ Puts(disk', d, p, "temporary", {})
    OBVIOUS
  <2> DEFINE d == [disk EXCEPT ![p][Target[at[p]]] = disk[p]["temporary"]]
  <2>1. Puts(d, disk, p, Target[at[p]], disk[p]["temporary"]) /\ Puts(disk', d, p, "temporary", {})
    BY DEF Replace, Puts
  <2> HIDE DEF d
  <2> QED BY <2>1
<1>3. AppendRow(p) => /\ at[p] = "queryRow" => Puts(disk', disk, p, "queries", WithRow(p, "queries"))
                      /\ at[p] = "resultRows" => Puts(disk', disk, p, "results", WithRow(p, "results"))
  BY DEF AppendRow, Puts, WithRow
<1>4. SyncDirectory(p) \/ QueryRecorded(p) \/ ResultsRecorded(p) => Copies(safe', safe, p, disk)
  BY DEF SyncDirectory, QueryRecorded, ResultsRecorded, Copies
<1> QED BY <1>1, <1>2, <1>3, <1>4

\* The directory after a write, file by file.
LEMMA DiskAfter ==
  ASSUME MemoryType, NEW p \in Invocation, FillTemporary(p) \/ Replace(p) \/ AppendRow(p)
  PROVE  /\ Shaped(disk') /\ \A q \in Invocation : q # p => disk'[q] = disk[q]
         /\ FillTemporary(p) =>
               /\ disk'[p]["temporary"] = {Doc(Content(p))}
               /\ \A f \in File : f # "temporary" => disk'[p][f] = disk[p][f]
         /\ Replace(p) =>
               /\ disk'[p][Target[at[p]]] = disk[p]["temporary"] /\ disk'[p]["temporary"] = {}
               /\ \A f \in File : f # "temporary" /\ f # Target[at[p]] => disk'[p][f] = disk[p][f]
         /\ AppendRow(p) =>
               /\ at[p] = "queryRow" => disk'[p]["queries"] = WithRow(p, "queries")
               /\ \A f \in File : f # "results" /\ (f = "queries" => at[p] # "queryRow")
                      => disk'[p][f] = disk[p][f]
               /\ disk'[p]["results"] = disk[p]["results"] \/ disk'[p]["results"] = WithRow(p, "results")
<1>1. Shaped(disk) /\ {"queries", "results", "temporary"} \subseteq File
  BY Writes DEF MemoryType
<1>2. CASE FillTemporary(p)
  <2> DEFINE x == {Doc(Content(p))}
  <2>0. Puts(disk', disk, p, "temporary", x)
    BY <1>2, WritesDisk
  <2> HIDE DEF x
  <2>1. /\ Shaped(disk') /\ disk'[p]["temporary"] = x
        /\ \A f \in File : f # "temporary" => disk'[p][f] = disk[p][f]
        /\ \A q \in Invocation : q # p => disk'[q] = disk[q]
    BY <1>1, <2>0, Updated
  <2>2. ~Replace(p) /\ ~AppendRow(p)
    BY <1>2, Writes DEF FillTemporary, Replace, AppendRow, Append1
  <2> QED BY <2>1, <2>2 DEF x
<1>3. CASE Replace(p)
  <2>1. PICK d : /\ Puts(d, disk, p, Target[at[p]], disk[p]["temporary"])
                 /\ Puts(disk', d, p, "temporary", {})
    BY <1>3, WritesDisk
  <2>2. Target[at[p]] \in File /\ Target[at[p]] # "temporary"
    BY <1>3, Writes DEF Replace
  <2>3. /\ Shaped(d) /\ d[p][Target[at[p]]] = disk[p]["temporary"]
        /\ \A f \in File : f # Target[at[p]] => d[p][f] = disk[p][f]
        /\ \A q \in Invocation : q # p => d[q] = disk[q]
    BY <1>1, <2>1, <2>2, Updated
  <2>4. /\ Shaped(disk') /\ disk'[p]["temporary"] = {}
        /\ \A f \in File : f # "temporary" => disk'[p][f] = d[p][f]
        /\ \A q \in Invocation : q # p => disk'[q] = d[q]
    BY <1>1, <2>1, <2>3, Updated
  <2>5. ~FillTemporary(p) /\ ~AppendRow(p)
    BY <1>3, Writes DEF FillTemporary, Replace, AppendRow, Append1
  <2> QED BY <2>2, <2>3, <2>4, <2>5
<1>4. CASE AppendRow(p)
  <2>1. /\ ~FillTemporary(p) /\ ~Replace(p)
        /\ at[p] \in {"queryRow", "resultRows"} /\ "queryRow" # "resultRows"
    BY <1>4, Writes DEF FillTemporary, Replace, AppendRow, Append1
  <2>2. CASE at[p] = "queryRow"
    <3>0. Puts(disk', disk, p, "queries", WithRow(p, "queries"))
      BY <1>4, <2>2, WritesDisk
    <3>1. /\ Shaped(disk') /\ disk'[p]["queries"] = WithRow(p, "queries")
          /\ \A f \in File : f # "queries" => disk'[p][f] = disk[p][f]
          /\ \A q \in Invocation : q # p => disk'[q] = disk[q]
      BY <1>1, <3>0, Updated
    <3> QED BY <1>1, <2>1, <2>2, <3>1
  <2>3. CASE at[p] = "resultRows"
    <3>0. Puts(disk', disk, p, "results", WithRow(p, "results"))
      BY <1>4, <2>3, WritesDisk
    <3>1. /\ Shaped(disk') /\ disk'[p]["results"] = WithRow(p, "results")
          /\ \A f \in File : f # "results" => disk'[p][f] = disk[p][f]
          /\ \A q \in Invocation : q # p => disk'[q] = disk[q]
      BY <1>1, <3>0, Updated
    <3> QED BY <1>1, <2>1, <2>3, <3>1
  <2> QED BY <2>1, <2>2, <2>3
<1> QED BY <1>2, <1>3, <1>4

\* A synchronisation of the directory commits it as it is.
LEMMA SafeAfter ==
  ASSUME MemoryType, NEW p \in Invocation,
         SyncDirectory(p) \/ QueryRecorded(p) \/ ResultsRecorded(p)
  PROVE  /\ Shaped(safe') /\ safe'[p] = disk[p] /\ disk' = disk
         /\ \A q \in Invocation : q # p => safe'[q] = safe[q]
<1>1. Copies(safe', safe, p, disk) /\ disk' = disk
  BY WritesDisk DEF SyncDirectory, QueryRecorded, ResultsRecorded
<1> QED BY <1>1, Copied DEF MemoryType

LEMMA Others ==
  ASSUME ReplayType, MemoryType, NEW p \in Invocation, Run(p) \/ OperationRaises(p) \/ Kill(p),
         NEW q \in Invocation, q # p
  PROVE  SameRun(q)
<1> USE RaiseOthers DEF SameRun, memory, files
<1>1. CASE PassGate(p) \/ FailGate(p) \/ CreateLedger(p) \/ LedgerTaken(p) \/ SyncLedger(p)
           \/ MakeDirectory(p) \/ Recheck(p)
  BY <1>1 DEF PassGate, FailGate, CreateLedger, LedgerTaken, SyncLedger, MakeDirectory, Recheck,
     Raises, Goto, ReplayType
<1>2. CASE FillTemporary(p) \/ Replace(p) \/ AppendRow(p)
  BY <1>2, DiskAfter DEF FillTemporary, Replace, AppendRow, ReplayType
<1>3. CASE SyncDirectory(p) \/ SkipWrite(p)
  BY <1>3, SafeAfter DEF SyncDirectory, SkipWrite, Continue, Return, Goto, ReplayType, MemoryType
<1>4. CASE QueryRecorded(p) \/ ResultsRecorded(p)
  BY <1>4, SafeAfter DEF QueryRecorded, ResultsRecorded, Goto, ReplayType
<1>5. CASE JournalRow(p) \/ SyncJournal(p)
  BY <1>5 DEF JournalRow, SyncJournal, Journal, Goto, ReplayType, MemoryType
<1>6. CASE \E outcome \in Outcome : Search(p, outcome)
  BY <1>6 DEF Search, Goto, ReplayType, MemoryType
<1>7. CASE ReadBack(p) \/ Barrier(p) \/ LoadReference(p)
  BY <1>7 DEF ReadBack, Barrier, LoadReference, Goto, ReplayType
<1>8. CASE Finish(p) \/ PackageMutated(p) \/ Final(p) \/ Validate(p)
  BY <1>8 DEF Finish, PackageMutated, Final, Validate, Raises, Return, Goto, ReplayType, MemoryType
<1>9. CASE OperationRaises(p) \/ Kill(p)
  BY <1>9 DEF OperationRaises, Kill, Goto, ReplayType
<1> QED BY <1>1, <1>2, <1>3, <1>4, <1>5, <1>6, <1>7, <1>8, <1>9 DEF Run

LEMMA StepMemory ==
  ASSUME ReplayType, MemoryType, [Next]_vars
  PROVE  MemoryType'
<1> USE DEF MemoryType, memory, files
<1>1. ASSUME NEW p \in Invocation, Run(p) \/ OperationRaises(p) \/ Kill(p) PROVE MemoryType'
  <2>1. CASE FillTemporary(p) \/ Replace(p) \/ AppendRow(p)
    <3>1. UNCHANGED <<turn, comparable, result, safe>>
      BY <2>1 DEF FillTemporary, Replace, AppendRow
    <3>2. Shaped(disk')
      BY <2>1, DiskAfter
    <3> QED BY <3>1, <3>2
  <2>2. CASE SyncDirectory(p) \/ SkipWrite(p) \/ QueryRecorded(p) \/ ResultsRecorded(p)
    <3>1. UNCHANGED <<turn, comparable, disk>>
      BY <2>2 DEF SyncDirectory, SkipWrite, QueryRecorded, ResultsRecorded
    <3>2. result' = [q \in Invocation |-> result'[q]]
      BY <2>2 DEF SyncDirectory, SkipWrite, Continue, Return, QueryRecorded, ResultsRecorded, Raise
    <3>3. Shaped(safe')
      BY <2>2, SafeAfter DEF SkipWrite
    <3> QED BY <3>1, <3>2, <3>3
  <2>3. CASE SyncJournal(p) \/ JournalRow(p) \/ \E outcome \in Outcome : Search(p, outcome)
    BY <2>3 DEF SyncJournal, JournalRow, Search, Raise, Return, Journal
  <2>4. CASE Finish(p) \/ PackageMutated(p) \/ Final(p) \/ Validate(p) \/ OperationRaises(p)
             \/ Kill(p)
    BY <2>4 DEF Finish, PackageMutated, Final, Validate, OperationRaises, Kill, Raises, Raise, Return
  <2>5. CASE PassGate(p) \/ FailGate(p) \/ CreateLedger(p) \/ LedgerTaken(p) \/ SyncLedger(p)
             \/ MakeDirectory(p) \/ Recheck(p) \/ ReadBack(p) \/ Barrier(p) \/ LoadReference(p)
    BY <2>5 DEF PassGate, FailGate, CreateLedger, LedgerTaken, SyncLedger, MakeDirectory, Recheck,
       ReadBack, Barrier, LoadReference, Raises, Raise, Return
  <2> QED BY <1>1, <2>1, <2>2, <2>3, <2>4, <2>5 DEF Run
<1>2. ASSUME NEW p \in Invocation, NEW f \in FormalFiles \ {"manifest"}, BadBytes(p, f)
      PROVE  MemoryType'
  <2>1. f \in File /\ UNCHANGED <<turn, comparable, result>>
    BY <1>2, Writes DEF BadBytes, FormalFiles
  <2>2. Shaped(disk') /\ Shaped(safe')
    <3> DEFINE x(s) == {[d EXCEPT !.altered = TRUE] : d \in s}
    <3>1. Puts(disk', disk, p, f, x(disk[p][f])) /\ Puts(safe', safe, p, f, x(safe[p][f]))
      BY <1>2 DEF BadBytes, Puts
    <3> QED BY <2>1, <3>1, Updated
  <2> QED BY <2>1, <2>2
<1>3. CASE PowerLoss
  <2>1. UNCHANGED <<turn, comparable, result>> /\ Shaped(disk') /\ safe' = disk'
    BY <1>3 DEF PowerLoss, Shaped
  <2> QED BY <2>1
<1>4. CASE Drift \/ UNCHANGED vars
  BY <1>4 DEF Drift, vars
<1> QED BY <1>1, <1>2, <1>3, <1>4 DEF Next

----------------------------------------------------------------------------
(* Control: where the operations lead *)

LEMMA Following ==
  ASSUME NEW p \in Invocation
  PROVE  /\ at[p] = "preflight" => Then(p) = "queries0"
         /\ at[p] = "queries0" => Then(p) = "results0"
         /\ at[p] = "results0" => Then(p) = "start"
         /\ at[p] = "start" => Then(p) = "STARTED"
         /\ at[p] \in {"outputA", "outputB"} => Then(p) = "readback"
         /\ at[p] = "receipts" => Then(p) = "barrier"
         /\ at[p] = "audit" => Then(p) = "adjudication"
         /\ at[p] = "adjudication" => Then(p) = "finish"
         /\ at[p] = "end" => Then(p) = "metrics"
         /\ at[p] = "metrics" => Then(p) = "checks"
         /\ at[p] = "checks" => Then(p) = "post"
         /\ at[p] = "post" => Then(p) = "final"
         /\ at[p] = "manifest" => Then(p) = "validate"
         /\ at[p] = "partialEnd" => Then(p) = "partialPost"
         /\ at[p] = "partialPost" => Then(p) = "partialJournal"
         /\ at[p] = "partialJournal" => Then(p) = "partialManifest"
  BY DEF Then

\* The next operation of an invocation that begins it.
Goes(p, op) == at'[p] = op /\ part'[p] = "begin" /\ result'[p] = result[p]

LEMMA GotoGoes ==
  ASSUME ReplayType, NEW p \in Invocation, NEW op, Goto(p, op)
  PROVE  at'[p] = op /\ part'[p] = "begin"
  BY DEF ReplayType, Goto

LEMMA ReturnGoes ==
  ASSUME ReplayType, MemoryType, NEW p \in Invocation, NEW status, Return(p, status)
  PROVE  at'[p] = "returned" /\ part'[p] = "begin" /\ result'[p] = status
  BY DEF ReplayType, MemoryType, Return, Goto

\* An invocation that gives up, and what it reports.
GivesUp(p) ==
    /\ part'[p] = "begin"
    /\ \/ at'[p] = "partialEnd" /\ result'[p] = result[p] /\ at[p] \in Working
       \/ /\ at'[p] = "returned" /\ result'[p] = "PRESTART"
          /\ at[p] \in {"gate", "ledger", "directory"}
       \/ at'[p] = "returned" /\ result'[p] = PartialStatus(p) /\ at[p] \in PartialWrite

LEMMA RaiseGivesUp ==
  ASSUME ReplayType, MemoryType, NEW p \in Invocation, ControlType(p), at[p] \notin Over, Raise(p)
  PROVE  GivesUp(p)
<1>1. CASE at[p] \in {"gate", "ledger", "directory"}
  <2>1. Return(p, "PRESTART")
    BY <1>1 DEF Raise, PartialWrite
  <2> QED BY <1>1, <2>1, ReturnGoes DEF GivesUp
<1>2. CASE at[p] \in PartialWrite
  <2>1. at[p] \notin {"gate", "ledger", "directory"}
    BY <1>2 DEF PartialWrite
  <2>2. Return(p, PartialStatus(p))
    BY <1>2, <2>1 DEF Raise
  <2> QED BY <1>2, <2>2, ReturnGoes DEF GivesUp
<1>3. CASE at[p] \notin {"gate", "ledger", "directory"} \cup PartialWrite
  <2>1. Goto(p, "partialEnd") /\ UNCHANGED result
    BY <1>3 DEF Raise
  <2>2. at[p] \in Working
    BY <1>3 DEF ControlType, Operation, Early, Over
  <2> QED BY <2>1, <2>2, GotoGoes DEF GivesUp
<1> QED BY <1>1, <1>2, <1>3

\* Every step of an invocation, by what it does to the place where it is.
LEMMA PlacesInRun ==
  ASSUME ReplayType, MemoryType, NEW p \in Invocation, ControlType(p)
  PROVE  /\ PassGate(p) => at[p] = "gate" /\ Goes(p, "ledger")
         /\ SyncLedger(p) => at[p] = "ledger" /\ part[p] = "sync" /\ Goes(p, "directory")
         /\ MakeDirectory(p) => at[p] = "directory" /\ Goes(p, "recheck")
         /\ Recheck(p) => at[p] = "recheck" /\ (Goes(p, "preflight") \/ GivesUp(p))
         /\ ReadBack(p) => at[p] = "readback" /\ (Goes(p, "COMMIT") \/ GivesUp(p))
         /\ Barrier(p) => at[p] = "barrier" /\ (Goes(p, "REFERENCE_LOAD") \/ GivesUp(p))
         /\ LoadReference(p) => at[p] = "load" /\ Goes(p, "audit")
         /\ Final(p) => at[p] = "final" /\ (Goes(p, "manifest") \/ GivesUp(p))
         /\ FailGate(p) \/ LedgerTaken(p) \/ PackageMutated(p) \/ OperationRaises(p) => GivesUp(p)
<1> USE GotoGoes, RaiseGivesUp DEF Goes, Step, Over
<1>1. PassGate(p) => at[p] = "gate" /\ Goes(p, "ledger")
  BY DEF PassGate
<1>2. SyncLedger(p) => at[p] = "ledger" /\ part[p] = "sync" /\ Goes(p, "directory")
  BY DEF SyncLedger
<1>3. MakeDirectory(p) => at[p] = "directory" /\ Goes(p, "recheck")
  BY DEF MakeDirectory
<1>4. Recheck(p) => at[p] = "recheck" /\ (Goes(p, "preflight") \/ GivesUp(p))
  BY DEF Recheck
<1>5. ReadBack(p) => at[p] = "readback" /\ (Goes(p, "COMMIT") \/ GivesUp(p))
  BY DEF ReadBack
<1>6. Barrier(p) => at[p] = "barrier" /\ (Goes(p, "REFERENCE_LOAD") \/ GivesUp(p))
  BY DEF Barrier
<1>7. LoadReference(p) => at[p] = "load" /\ Goes(p, "audit")
  BY DEF LoadReference
<1>8. Final(p) => at[p] = "final" /\ (Goes(p, "manifest") \/ GivesUp(p))
  BY DEF Final
<1>9. FailGate(p) \/ LedgerTaken(p) \/ PackageMutated(p) \/ OperationRaises(p) => GivesUp(p)
  BY DEF FailGate, LedgerTaken, PackageMutated, OperationRaises, Raises
<1> QED BY <1>1, <1>2, <1>3, <1>4, <1>5, <1>6, <1>7, <1>8, <1>9

\* The steps that end an operation in one of several ways.
LEMMA PlacesAfterRun ==
  ASSUME ReplayType, MemoryType, NEW p \in Invocation, ControlType(p)
  PROVE  /\ SyncDirectory(p) => at[p] \in Write /\ part[p] = "sync"
         /\ SkipWrite(p) => at[p] \in PartialWrite
         /\ SyncDirectory(p) \/ SkipWrite(p) =>
               \/ at[p] # "partialManifest" /\ Goes(p, Then(p))
               \/ at[p] = "partialManifest" /\ GivesUp(p)
         /\ (\E outcome \in Outcome : Search(p, outcome)) => at[p] = "search" /\ Goes(p, "queryRow")
         /\ QueryRecorded(p) =>
               /\ at[p] = "queryRow" /\ part[p] = "sync"
               /\ IF Last(traces[p][Entrant(p)]) = "FAILED" THEN GivesUp(p)
                  ELSE Goes(p, "resultRows") \/ Goes(p, NextQuery(p))
         /\ ResultsRecorded(p) => at[p] = "resultRows" /\ part[p] = "sync" /\ Goes(p, NextQuery(p))
         /\ SyncJournal(p) =>
               /\ at[p] \in Journal /\ part[p] = "sync"
               /\ at[p] = "STARTED" => Goes(p, "search")
               /\ at[p] = "COMMIT" /\ turn[p] = 1 => Goes(p, "search")
               /\ at[p] = "COMMIT" /\ turn[p] = 2 => Goes(p, "receipts")
               /\ at[p] = "REFERENCE_LOAD" => Goes(p, "load")
               /\ at[p] = "HARD_GATE_FAILURE" => GivesUp(p)
         /\ Finish(p) =>
               /\ at[p] = "finish"
               /\ \/ GivesUp(p) /\ comparable' = comparable
                  \/ Goes(p, "HARD_GATE_FAILURE") /\ comparable' = comparable
                  \/ Goes(p, "end") /\ comparable'[p] \in {"PASS", "NOT_EVALUABLE"}
         /\ Validate(p) =>
               /\ at[p] = "validate"
               /\ \/ GivesUp(p)
                  \/ /\ at'[p] = "returned" /\ part'[p] = "begin" /\ result'[p] = comparable[p]
                     /\ comparable[p] = "PASS" => ValidateComplete(disk[p], ledger)
         /\ Kill(p) => /\ at[p] \notin Over \cup {"gate"} /\ at'[p] = "killed" /\ part'[p] = "begin"
                       /\ result'[p] = result[p]
<1> USE GotoGoes, ReturnGoes, RaiseGivesUp DEF Goes, Step, Over
<1>1. /\ SyncDirectory(p) => at[p] \in Write /\ part[p] = "sync"
      /\ SkipWrite(p) => at[p] \in PartialWrite
  BY DEF SyncDirectory, SkipWrite, Skipped
<1>2. SyncDirectory(p) \/ SkipWrite(p) =>
               \/ at[p] # "partialManifest" /\ Goes(p, Then(p))
               \/ at[p] = "partialManifest" /\ GivesUp(p)
  <2> SUFFICES ASSUME Continue(p)
               PROVE  \/ at[p] # "partialManifest" /\ Goes(p, Then(p))
                      \/ at[p] = "partialManifest" /\ GivesUp(p)
    BY DEF SyncDirectory, SkipWrite
  <2> QED BY DEF Continue, GivesUp, PartialWrite
<1>3. (\E outcome \in Outcome : Search(p, outcome)) => at[p] = "search" /\ Goes(p, "queryRow")
  BY DEF Search
<1>4. QueryRecorded(p) =>
               /\ at[p] = "queryRow" /\ part[p] = "sync"
               /\ IF Last(traces[p][Entrant(p)]) = "FAILED" THEN GivesUp(p)
                  ELSE Goes(p, "resultRows") \/ Goes(p, NextQuery(p))
  BY DEF QueryRecorded
<1>5. ResultsRecorded(p) => at[p] = "resultRows" /\ part[p] = "sync" /\ Goes(p, NextQuery(p))
  BY DEF ResultsRecorded
<1>6. SyncJournal(p) =>
               /\ at[p] \in Journal /\ part[p] = "sync"
               /\ at[p] = "STARTED" => Goes(p, "search")
               /\ at[p] = "COMMIT" /\ turn[p] = 1 => Goes(p, "search")
               /\ at[p] = "COMMIT" /\ turn[p] = 2 => Goes(p, "receipts")
               /\ at[p] = "REFERENCE_LOAD" => Goes(p, "load")
               /\ at[p] = "HARD_GATE_FAILURE" => GivesUp(p)
  <2> SUFFICES ASSUME SyncJournal(p)
               PROVE  /\ at[p] \in Journal /\ part[p] = "sync"
                      /\ at[p] = "STARTED" => Goes(p, "search")
                      /\ at[p] = "COMMIT" /\ turn[p] = 1 => Goes(p, "search")
                      /\ at[p] = "COMMIT" /\ turn[p] = 2 => Goes(p, "receipts")
                      /\ at[p] = "REFERENCE_LOAD" => Goes(p, "load")
                      /\ at[p] = "HARD_GATE_FAILURE" => GivesUp(p)
    OBVIOUS
  <2>1. /\ at[p] \in Journal /\ part[p] = "sync"
        /\ at[p] = "STARTED" => Goto(p, "search") /\ UNCHANGED result
        /\ at[p] = "COMMIT" => UNCHANGED result
                /\ Goto(p, IF turn[p] = 1 THEN "search" ELSE "receipts")
        /\ at[p] = "REFERENCE_LOAD" => Goto(p, "load") /\ UNCHANGED result
        /\ at[p] = "HARD_GATE_FAILURE" => Raise(p)
    BY DEF SyncJournal
  <2> QED BY <2>1
<1>7. Finish(p) =>
               /\ at[p] = "finish"
               /\ \/ GivesUp(p) /\ comparable' = comparable
                  \/ Goes(p, "HARD_GATE_FAILURE") /\ comparable' = comparable
                  \/ Goes(p, "end") /\ comparable'[p] \in {"PASS", "NOT_EVALUABLE"}
  <2>1. \A c : comparable' = [comparable EXCEPT ![p] = c] => comparable'[p] = c
    BY DEF MemoryType
  <2> QED BY <2>1 DEF Finish
<1>8. Validate(p) =>
               /\ at[p] = "validate"
               /\ \/ GivesUp(p)
                  \/ /\ at'[p] = "returned" /\ part'[p] = "begin" /\ result'[p] = comparable[p]
                     /\ comparable[p] = "PASS" => ValidateComplete(disk[p], ledger)
  BY DEF Validate
<1>9. Kill(p) => /\ at[p] \notin Over \cup {"gate"} /\ at'[p] = "killed" /\ part'[p] = "begin"
                 /\ result'[p] = result[p]
  BY DEF Kill
<1> QED BY <1>1, <1>2, <1>3, <1>4, <1>5, <1>6, <1>7, <1>8, <1>9

----------------------------------------------------------------------------
(* Whose step it is, and the shape of what is stored *)

\* The bytes of a file once they went bad, and what they still have.
Spoiled(s) == {[d EXCEPT !.altered = TRUE] : d \in s}
SameBodies(s, t) == (s = {} <=> t = {}) /\ \A d \in s : IsDoc(d) /\ \E c \in t : d.body = c.body

SpoiledBytes(p) ==
    /\ at'[p] = at[p] /\ part'[p] = part[p] /\ turn'[p] = turn[p] /\ traces'[p] = traces[p]
    /\ comparable'[p] = comparable[p] /\ result'[p] = result[p] /\ UNCHANGED <<sidecar, exposed>>
    /\ \E f \in FormalFiles \ {"manifest"} :
          /\ disk'[p][f] = Spoiled(disk[p][f]) /\ disk[p][f] # {}
          /\ safe'[p][f] = Spoiled(safe[p][f]) /\ safe[p][f] = disk[p][f]
          /\ \A g \in File : g # f => disk'[p][g] = disk[p][g] /\ safe'[p][g] = safe[p][g]
          /\ disk'[p] = [g \in File |-> disk'[p][g]] /\ safe'[p] = [g \in File |-> safe'[p][g]]
          /\ disk[p] = [g \in File |-> disk[p][g]] /\ safe[p] = [g \in File |-> safe[p][g]]

\* A directory and its invocation after a power loss.
Rebooted(p) ==
    /\ at'[p] = (IF at[p] \in Over \cup {"gate"} THEN at[p] ELSE "killed") /\ part'[p] = "begin"
    /\ turn'[p] = turn[p] /\ traces'[p] = traces[p] /\ comparable'[p] = comparable[p]
    /\ result'[p] = result[p] /\ exposed' = exposed
    /\ \A f \in File : disk'[p][f] \in {disk[p][f], safe[p][f]}
    /\ disk[p] = safe[p] => disk'[p] = disk[p]
    /\ safe'[p] = disk'[p]
    /\ ledger' \in {ledger, ledgerSafe} /\ ledgerSafe' = ledger'

LEMMA BadBytesSpoil ==
  ASSUME MemoryType, NEW p \in Invocation, NEW f \in FormalFiles \ {"manifest"}, BadBytes(p, f)
  PROVE  SpoiledBytes(p) /\ \A q \in Invocation : q # p => SameRun(q)
<1> DEFINE x == Spoiled(disk[p][f])
           y == Spoiled(safe[p][f])
<1>1. Puts(disk', disk, p, f, x) /\ Puts(safe', safe, p, f, y)
  BY DEF BadBytes, Puts, Spoiled
<1>2. Shaped(disk) /\ Shaped(safe) /\ f \in File
  BY DEF MemoryType, FormalFiles, File
<1> HIDE DEF x, y
<1>3. /\ Shaped(disk') /\ disk'[p][f] = x
      /\ \A g \in File : g # f => disk'[p][g] = disk[p][g]
      /\ \A q \in Invocation : q # p => disk'[q] = disk[q]
  BY <1>1, <1>2, Updated
<1>4. /\ Shaped(safe') /\ safe'[p][f] = y
      /\ \A g \in File : g # f => safe'[p][g] = safe[p][g]
      /\ \A q \in Invocation : q # p => safe'[q] = safe[q]
  BY <1>1, <1>2, Updated
<1>5. /\ UNCHANGED <<at, part, turn, traces, comparable, ledger, ledgerSafe, exposed, result>>
      /\ disk[p][f] # {} /\ safe[p][f] = disk[p][f]
  BY DEF BadBytes, memory, sidecar, Exists
<1>6. ASSUME NEW q \in Invocation, q # p PROVE SameRun(q)
  BY <1>3, <1>4, <1>5, <1>6 DEF SameRun
<1>7. /\ disk[p] = [g \in File |-> disk[p][g]] /\ disk'[p] = [g \in File |-> disk'[p][g]]
      /\ safe[p] = [g \in File |-> safe[p][g]] /\ safe'[p] = [g \in File |-> safe'[p][g]]
  BY <1>2, <1>3, <1>4 DEF Shaped
<1>8. \E g \in FormalFiles \ {"manifest"} :
          /\ disk'[p][g] = Spoiled(disk[p][g]) /\ disk[p][g] # {}
          /\ safe'[p][g] = Spoiled(safe[p][g]) /\ safe[p][g] = disk[p][g]
          /\ \A h \in File : h # g => disk'[p][h] = disk[p][h] /\ safe'[p][h] = safe[p][h]
  BY <1>3, <1>4, <1>5 DEF x, y
<1> QED BY <1>5, <1>6, <1>7, <1>8 DEF SpoiledBytes, sidecar

LEMMA PowerLossReboots ==
  ASSUME MemoryType, NEW p \in Invocation, PowerLoss
  PROVE  Rebooted(p)
<1>1. /\ at'[p] = (IF at[p] \in Over \cup {"gate"} THEN at[p] ELSE "killed") /\ part'[p] = "begin"
      /\ UNCHANGED <<turn, traces, comparable, exposed, result>>
      /\ safe' = disk' /\ ledger' \in {ledger, ledgerSafe} /\ ledgerSafe' = ledger'
  BY DEF PowerLoss, memory
<1>2. PICK lost \in SUBSET {c \in Invocation \X File : disk[c[1]][c[2]] # safe[c[1]][c[2]]} :
          disk' = [q \in Invocation |-> [f \in File |->
                      IF <<q, f>> \in lost THEN safe[q][f] ELSE disk[q][f]]]
  BY DEF PowerLoss
<1>3. disk'[p] = [f \in File |-> IF <<p, f>> \in lost THEN safe[p][f] ELSE disk[p][f]]
  BY <1>2
<1>4. disk[p] = safe[p] => disk'[p] = disk[p]
  BY <1>3 DEF MemoryType, Shaped
<1>5. ASSUME NEW f \in File PROVE disk'[p][f] \in {disk[p][f], safe[p][f]}
  BY <1>3
<1> QED BY <1>1, <1>4, <1>5 DEF Rebooted

\* A step is one of this invocation, or leaves it alone, or is a fault of the host.
LEMMA StepOf ==
  ASSUME ReplayType, MemoryType, [Next]_vars, NEW p \in Invocation
  PROVE  \/ Run(p) \/ OperationRaises(p) \/ Kill(p)
         \/ SameRun(p)
         \/ SpoiledBytes(p)
         \/ Rebooted(p)
<1>1. ASSUME NEW q \in Invocation, Run(q) \/ OperationRaises(q) \/ Kill(q), q # p
      PROVE  SameRun(p)
  BY <1>1, Others
<1>2. ASSUME NEW q \in Invocation, NEW f \in FormalFiles \ {"manifest"}, BadBytes(q, f)
      PROVE  SameRun(p) \/ SpoiledBytes(p)
  BY <1>2, BadBytesSpoil
<1>3. CASE PowerLoss
  BY <1>3, PowerLossReboots
<1>4. CASE Drift \/ UNCHANGED vars
  BY <1>4 DEF Drift, vars, memory, files, SameRun
<1> QED BY <1>1, <1>2, <1>3, <1>4 DEF Next

\* Spoiled documents keep their bodies.
LEMMA SpoiledBodies ==
  ASSUME NEW p \in Invocation, DocType(p), SpoiledBytes(p)
  PROVE  \A f \in File : /\ SameBodies(disk'[p][f], disk[p][f])
                         /\ SameBodies(safe'[p][f], safe[p][f])
<1>1. ASSUME NEW s, \A d \in s : IsDoc(d) PROVE SameBodies(Spoiled(s), s) /\ SameBodies(s, s)
  <2>1. \A d \in s : /\ [d EXCEPT !.altered = TRUE].body = d.body
                     /\ IsDoc([d EXCEPT !.altered = TRUE])
    <3>1. ASSUME NEW d, IsDoc(d), NEW v
          PROVE  /\ [d EXCEPT !.altered = v].body = d.body
                 /\ [d EXCEPT !.altered = v] = [body |-> d.body, altered |-> v]
      BY <3>1 DEF IsDoc
    <3>2. ASSUME NEW d, IsDoc(d), NEW v
          PROVE  [d EXCEPT !.altered = v].body = d.body /\ IsDoc([d EXCEPT !.altered = v])
      BY <3>1, <3>2 DEF IsDoc
    <3> QED BY <1>1, <3>2
  <2> QED BY <1>1, <2>1 DEF SameBodies, Spoiled
<1>2. ASSUME NEW f \in File
      PROVE  /\ \A d \in disk[p][f] : IsDoc(d)
             /\ \A d \in safe[p][f] : IsDoc(d)
  BY DEF DocType
<1>3. ASSUME NEW f \in File
      PROVE  /\ disk'[p][f] = Spoiled(disk[p][f]) \/ disk'[p][f] = disk[p][f]
             /\ safe'[p][f] = Spoiled(safe[p][f]) \/ safe'[p][f] = safe[p][f]
  BY DEF SpoiledBytes
<1> QED BY <1>1, <1>2, <1>3

Lands(p) ==
    /\ at'[p] \in Operation /\ part'[p] \in {"begin", "replace", "sync"}
    /\ part'[p] = "replace" => at'[p] \in Write

\* The control of an invocation stays well formed.
LEMMA StepControl ==
  ASSUME ReplayType, MemoryType, NEW p \in Invocation, ControlType(p), [Next]_vars
  PROVE  ControlType(p)'
<1>1. CASE SameRun(p) \/ SpoiledBytes(p)
  BY <1>1 DEF SameRun, SpoiledBytes, ControlType
<1>2. CASE Rebooted(p)
  BY <1>2, Writes DEF Rebooted, ControlType, Operation, Early
<1>3. CASE Run(p) \/ OperationRaises(p) \/ Kill(p)
  <2>1. /\ turn'[p] \in {1, 2}
        /\ comparable'[p] \in {"none", "PASS", "NOT_EVALUABLE"}
    <3>1. turn'[p] \in {1, 2}
      <4>1. CASE SyncJournal(p)
        BY <4>1 DEF SyncJournal, MemoryType, ControlType
      <4>2. CASE ~SyncJournal(p)
        <5>1. turn' = turn
          BY <1>3, <4>2 DEF Run, OperationRaises, Kill, PassGate, FailGate, CreateLedger, LedgerTaken,
             SyncLedger, MakeDirectory, Recheck, FillTemporary, Replace, SyncDirectory, SkipWrite,
             AppendRow, QueryRecorded, ResultsRecorded, JournalRow, Search, ReadBack, Barrier,
             LoadReference, Finish, PackageMutated, Final, Validate, Raises, memory
        <5> QED BY <5>1 DEF ControlType
      <4> QED BY <4>1, <4>2
    <3>2. comparable'[p] \in {"none", "PASS", "NOT_EVALUABLE"}
      <4>1. CASE Finish(p)
        BY <4>1, PlacesAfterRun DEF ControlType
      <4>2. CASE ~Finish(p)
        <5>1. comparable' = comparable
          BY <1>3, <4>2 DEF Run, OperationRaises, Kill, PassGate, FailGate, CreateLedger, LedgerTaken,
             SyncLedger, MakeDirectory, Recheck, FillTemporary, Replace, SyncDirectory, SkipWrite,
             AppendRow, QueryRecorded, ResultsRecorded, JournalRow, SyncJournal, Search, ReadBack,
             Barrier, LoadReference, PackageMutated, Final, Validate, Raises, memory
        <5> QED BY <5>1 DEF ControlType
      <4> QED BY <4>1, <4>2
    <3> QED BY <3>1, <3>2
  <2>2. Lands(p)
    <3>0. at[p] \in Operation
      BY DEF ControlType
    <3>1. ASSUME NEW op \in Operation, Goes(p, op) PROVE Lands(p)
      BY <3>1 DEF Goes, Lands
    <3>2. ASSUME GivesUp(p) PROVE Lands(p)
      BY <3>2 DEF GivesUp, Lands, Operation, Early, PartialWrite
    <3>3. CASE PassGate(p) \/ SyncLedger(p) \/ MakeDirectory(p) \/ Recheck(p) \/ ReadBack(p)
               \/ Barrier(p) \/ LoadReference(p) \/ Final(p)
      <4>1. {"ledger", "directory", "recheck", "preflight", "COMMIT", "REFERENCE_LOAD", "audit",
             "manifest"} \subseteq Operation
        BY DEF Operation, Early, Working, Opening, Querying, Sealing, Judging
      <4>2. CASE PassGate(p) \/ SyncLedger(p) \/ MakeDirectory(p) \/ Recheck(p)
        <5>1. GivesUp(p) \/ \E op \in Operation : Goes(p, op)
          BY <4>1, <4>2, PlacesInRun
        <5> QED BY <3>1, <3>2, <5>1
      <4>3. CASE ReadBack(p) \/ Barrier(p) \/ LoadReference(p) \/ Final(p)
        <5>1. GivesUp(p) \/ \E op \in Operation : Goes(p, op)
          BY <4>1, <4>3, PlacesInRun
        <5> QED BY <3>1, <3>2, <5>1
      <4> QED BY <3>3, <4>2, <4>3
    <3>4. CASE FailGate(p) \/ LedgerTaken(p) \/ PackageMutated(p) \/ OperationRaises(p)
      BY <3>2, <3>4, PlacesInRun
    <3>5. CASE CreateLedger(p) \/ FillTemporary(p) \/ Replace(p) \/ AppendRow(p) \/ JournalRow(p)
      <4>1. at'[p] = at[p] /\ part'[p] \in {"replace", "sync"}
        BY <3>5 DEF CreateLedger, FillTemporary, Replace, AppendRow, JournalRow, ReplayType
      <4>2. part'[p] = "replace" => at[p] \in Write
        BY <3>5 DEF CreateLedger, FillTemporary, Replace, AppendRow, JournalRow, ReplayType
      <4> QED BY <3>0, <4>1, <4>2 DEF Lands
    <3>6. CASE SyncDirectory(p) \/ SkipWrite(p)
      <4>1. CASE GivesUp(p)
        BY <3>2, <4>1
      <4>2. CASE at[p] # "partialManifest" /\ Goes(p, Then(p))
        <5>1. at[p] \in Write
          BY <3>6, PlacesAfterRun, Writes DEF PartialWrite
        <5>2. Then(p) \in Operation
          BY <4>2, <5>1, Following, Writes
             DEF Operation, Working, Opening, Querying, Sealing, Judging, PartialWrite
        <5> QED BY <3>1, <4>2, <5>2
      <4> QED BY <3>6, <4>1, <4>2, PlacesAfterRun
    <3>7. CASE (\E outcome \in Outcome : Search(p, outcome)) \/ QueryRecorded(p)
               \/ ResultsRecorded(p) \/ SyncJournal(p) \/ Finish(p)
      <4>1. {"search", "queryRow", "resultRows", "receipts", "load", "HARD_GATE_FAILURE", "end"}
              \subseteq Operation /\ NextQuery(p) \in Operation
        BY DEF Operation, Working, Querying, Sealing, Judging, NextQuery, Output
      <4>2. SyncJournal(p) => at[p] \in Journal /\ turn[p] \in {1, 2}
        BY DEF SyncJournal, ControlType
      <4>3. CASE (\E outcome \in Outcome : Search(p, outcome)) \/ QueryRecorded(p) \/ ResultsRecorded(p)
        <5>1. GivesUp(p) \/ \E op \in Operation : Goes(p, op)
          BY <4>1, <4>3, PlacesAfterRun
        <5> QED BY <3>1, <3>2, <5>1
      <4>4. CASE SyncJournal(p)
        <5>1. GivesUp(p) \/ \E op \in Operation : Goes(p, op)
          BY <4>1, <4>2, <4>4, PlacesAfterRun DEF Journal
        <5> QED BY <3>1, <3>2, <5>1
      <4>5. CASE Finish(p)
        <5>1. GivesUp(p) \/ \E op \in Operation : Goes(p, op)
          BY <4>1, <4>5, PlacesAfterRun
        <5> QED BY <3>1, <3>2, <5>1
      <4> QED BY <3>7, <4>3, <4>4, <4>5
    <3>8. CASE Validate(p)
      <4>1. GivesUp(p) \/ (at'[p] = "returned" /\ part'[p] = "begin")
        BY <3>8, PlacesAfterRun
      <4> QED BY <3>2, <4>1 DEF Lands, Operation, Early
    <3>9. CASE Kill(p)
      BY <3>9, PlacesAfterRun DEF Lands, Operation, Early
    <3> QED BY <1>3, <3>3, <3>4, <3>5, <3>6, <3>7, <3>8, <3>9 DEF Run
  <2> QED BY <2>1, <2>2 DEF Lands, ControlType
<1> QED BY <1>1, <1>2, <1>3, StepOf
----------------------------------------------------------------------------
(* What each step of an invocation can change, and the shape of files and rows *)

Acts(p) == Run(p) \/ OperationRaises(p) \/ Kill(p)

LEMMA Frames ==
  ASSUME NEW p \in Invocation, Acts(p)
  PROVE  /\ FillTemporary(p) \/ Replace(p) \/ AppendRow(p) \/ disk' = disk
         /\ SyncDirectory(p) \/ QueryRecorded(p) \/ ResultsRecorded(p) \/ safe' = safe
         /\ (\E outcome \in Outcome : Search(p, outcome)) \/ traces' = traces
         /\ LoadReference(p) \/ exposed' = exposed
         /\ SyncJournal(p) \/ turn' = turn
         /\ Finish(p) \/ comparable' = comparable
         /\ CreateLedger(p) \/ JournalRow(p) \/ ledger' = ledger
         /\ SyncLedger(p) \/ SyncJournal(p) \/ ledgerSafe' = ledgerSafe
<1> USE DEF Acts, Run, OperationRaises, Kill, PassGate, FailGate, CreateLedger, LedgerTaken,
      SyncLedger, MakeDirectory, Recheck, FillTemporary, Replace, SyncDirectory, SkipWrite, AppendRow,
      QueryRecorded, ResultsRecorded, JournalRow, SyncJournal, Search, ReadBack, Barrier, LoadReference,
      Finish, PackageMutated, Final, Validate, Raises, memory, files, sidecar
<1>1. FillTemporary(p) \/ Replace(p) \/ AppendRow(p) \/ disk' = disk
  OBVIOUS
<1>2. SyncDirectory(p) \/ QueryRecorded(p) \/ ResultsRecorded(p) \/ safe' = safe
  OBVIOUS
<1>3. (\E outcome \in Outcome : Search(p, outcome)) \/ traces' = traces
  OBVIOUS
<1>4. LoadReference(p) \/ exposed' = exposed
  OBVIOUS
<1>5. SyncJournal(p) \/ turn' = turn
  OBVIOUS
<1>6. Finish(p) \/ comparable' = comparable
  OBVIOUS
<1>7. CreateLedger(p) \/ JournalRow(p) \/ ledger' = ledger
  OBVIOUS
<1>8. SyncLedger(p) \/ SyncJournal(p) \/ ledgerSafe' = ledgerSafe
  OBVIOUS
<1> QED BY ONLY <1>1, <1>2, <1>3, <1>4, <1>5, <1>6, <1>7, <1>8

\* Every stored value stays a sealed document.
LEMMA StepDocs ==
  ASSUME ReplayType, MemoryType, NEW p \in Invocation, DocType(p), [Next]_vars
  PROVE  DocType(p)'
<1>0. ASSUME NEW f \in File
      PROVE  /\ \A d \in disk[p][f] : IsDoc(d)
             /\ \A d \in safe[p][f] : IsDoc(d)
  BY DEF DocType
<1>1. CASE SameRun(p)
  BY <1>1 DEF SameRun, DocType
<1>2. CASE SpoiledBytes(p)
  <2>1. ASSUME NEW f \in File, NEW d \in disk'[p][f] \cup safe'[p][f] PROVE IsDoc(d)
    BY <1>2, SpoiledBodies DEF SameBodies
  <2> QED BY <2>1 DEF DocType
<1>3. CASE Rebooted(p)
  <2>1. ASSUME NEW f \in File, NEW d \in disk'[p][f] \cup safe'[p][f] PROVE IsDoc(d)
    BY <1>0, <1>3 DEF Rebooted
  <2> QED BY <2>1 DEF DocType
<1>4. CASE Acts(p)
  <2>1. ASSUME NEW f \in File, NEW d \in disk'[p][f] PROVE IsDoc(d)
    <3>1. CASE disk' = disk
      BY <1>0, <2>1, <3>1
    <3>2. CASE FillTemporary(p)
      <4>1. \A x : IsDoc(Doc(x))
        BY DEF IsDoc, Doc
      <4>2. f = "temporary" => disk'[p][f] = {Doc(Content(p))}
        BY <3>2, DiskAfter
      <4>3. f # "temporary" => disk'[p][f] = disk[p][f]
        BY <3>2, DiskAfter
      <4> QED BY <1>0, <2>1, <4>1, <4>2, <4>3
    <3>3. CASE Replace(p)
      <4>1. f = Target[at[p]] => disk'[p][f] = disk[p]["temporary"]
        BY <3>3, DiskAfter
      <4>2. f = "temporary" => disk'[p][f] = {}
        BY <3>3, DiskAfter
      <4>3. f # "temporary" /\ f # Target[at[p]] => disk'[p][f] = disk[p][f]
        BY <3>3, DiskAfter
      <4> QED BY <1>0, <2>1, <4>1, <4>2, <4>3, Writes
    <3>4. CASE AppendRow(p)
      <4>1. ASSUME NEW g \in File, NEW c \in WithRow(p, g) PROVE IsDoc(c)
        <5>1. \A e \in disk[p][g] : \A x : IsDoc([e EXCEPT !.body = Append(@, x)])
          BY <1>0 DEF IsDoc
        <5> QED BY <4>1, <5>1 DEF WithRow
      <4>2. disk'[p][f] \in {disk[p][f], WithRow(p, f)}
        <5>1. at[p] = "queryRow" => disk'[p]["queries"] = WithRow(p, "queries")
          BY <3>4, DiskAfter
        <5>2. f # "results" /\ (f = "queries" => at[p] # "queryRow") => disk'[p][f] = disk[p][f]
          BY <3>4, DiskAfter
        <5>3. disk'[p]["results"] = disk[p]["results"] \/ disk'[p]["results"] = WithRow(p, "results")
          BY <3>4, DiskAfter
        <5> QED BY <5>1, <5>2, <5>3
      <4> QED BY <1>0, <2>1, <4>1, <4>2
    <3> QED BY <1>4, <3>1, <3>2, <3>3, <3>4, Frames
  <2>2. ASSUME NEW f \in File, NEW d \in safe'[p][f] PROVE IsDoc(d)
    <3>1. safe'[p] = safe[p] \/ safe'[p] = disk[p]
      BY <1>4, Frames, SafeAfter
    <3> QED BY <1>0, <2>2, <3>1
  <2> QED BY <2>1, <2>2 DEF DocType
<1> QED BY <1>1, <1>2, <1>3, <1>4, StepOf DEF Acts

\* The record an invocation leaves in the sidecar.
LedgerRecord(p) ==
    [event |-> at[p], by |-> p, entrant |-> Entrant(p),
     output |-> disk[p][Output(Entrant(p))], start |-> disk[p]["start"]]

\* The sidecar with one more record.
LEMMA RecordAppended ==
  ASSUME LedgerType, RowsType, NEW p \in Invocation, JournalRow(p)
  PROVE  /\ \A m \in ledger' : \E l \in ledger :
              /\ m = [by |-> l.by, rows |-> Append(l.rows, LedgerRecord(p))]
              /\ m.by = l.by /\ m.rows = Append(l.rows, LedgerRecord(p)) /\ IsRows(l.rows)
              /\ IsRows(m.rows) /\ m.rows # <<>>
              /\ EventsOf(m.rows) = Append(EventsOf(l.rows), at[p])
         /\ \A l \in ledger : \E m \in ledger' : m.by = l.by
<1> DEFINE r == LedgerRecord(p)
<1>1. ledger' = {[l EXCEPT !.rows = Append(@, r)] : l \in ledger}
  BY DEF JournalRow, LedgerRecord
<1>2. r.event = at[p]
  BY DEF LedgerRecord
<1> HIDE DEF r
<1>3. ASSUME NEW l \in ledger
      PROVE  /\ [l EXCEPT !.rows = Append(@, r)] = [by |-> l.by, rows |-> Append(l.rows, r)]
             /\ [l EXCEPT !.rows = Append(@, r)].by = l.by
             /\ [l EXCEPT !.rows = Append(@, r)].rows = Append(l.rows, r)
  BY DEF LedgerType
<1>4. ASSUME NEW l \in ledger
      PROVE  /\ IsRows(l.rows) /\ IsRows(Append(l.rows, r)) /\ Append(l.rows, r) # <<>>
             /\ EventsOf(Append(l.rows, r)) = Append(EventsOf(l.rows), at[p])
  <2>1. IsRows(l.rows)
    BY DEF RowsType
  <2>2. IsRows(Append(l.rows, r)) /\ Append(l.rows, r) # <<>>
    BY <2>1, AppendedRows
  <2>3. EventsOf(Append(l.rows, r)) = Append(EventsOf(l.rows), r.event)
    BY <2>1, AppendedEvents
  <2> QED BY <1>2, <2>1, <2>2, <2>3
<1>5. ASSUME NEW m \in ledger'
      PROVE  \E l \in ledger :
              /\ m = [by |-> l.by, rows |-> Append(l.rows, r)]
              /\ m.by = l.by /\ m.rows = Append(l.rows, r) /\ IsRows(l.rows)
              /\ IsRows(m.rows) /\ m.rows # <<>>
              /\ EventsOf(m.rows) = Append(EventsOf(l.rows), at[p])
  <2>1. PICK l \in ledger : m = [l EXCEPT !.rows = Append(@, r)]
    BY <1>1, <1>5
  <2>2. /\ m = [by |-> l.by, rows |-> Append(l.rows, r)]
        /\ m.by = l.by /\ m.rows = Append(l.rows, r)
    BY <1>3, <2>1
  <2> QED BY <1>4, <2>2
<1>6. \A l \in ledger : \E m \in ledger' : m.by = l.by
  BY <1>1, <1>3
<1> QED BY <1>5, <1>6 DEF r

\* Every record names the owner of the sidecar.
LEMMA StepRows ==
  ASSUME ReplayInv, RowsType, [Next]_vars
  PROVE  RowsType'
<1>1. ASSUME NEW p \in Invocation, JournalRow(p) PROVE RowsType'
  <2>0. /\ LedgerType /\ ledgerSafe' = ledgerSafe /\ at[p] \notin Early
    BY <1>1 DEF JournalRow, ReplayInv, Journal, Early
  <2>1. ASSUME NEW m \in ledger' PROVE IsRows(m.rows) /\ \A i \in DOMAIN m.rows : m.rows[i].by = m.by
    <3>1. PICK l \in ledger : /\ m.by = l.by /\ m.rows = Append(l.rows, LedgerRecord(p))
                              /\ IsRows(l.rows) /\ IsRows(m.rows)
      BY <1>1, <2>0, <2>1, RecordAppended
    <3>2. l.by = p
      BY <2>0 DEF ReplayInv, OwnerInv
    <3>3. LedgerRecord(p).by = p
      BY DEF LedgerRecord
    <3>4. \A i \in DOMAIN l.rows : l.rows[i].by = l.by
      BY DEF RowsType
    <3>5. ASSUME NEW i \in DOMAIN m.rows PROVE m.rows[i].by = m.by
      <4>1. /\ DOMAIN l.rows = 1..Len(l.rows) /\ Len(l.rows) \in Nat
            /\ DOMAIN m.rows = 1..(Len(l.rows) + 1)
            /\ \A j \in 1..Len(l.rows) : m.rows[j] = l.rows[j]
            /\ m.rows[Len(l.rows) + 1] = LedgerRecord(p)
        BY <3>1, AppendedRows
      <4> QED BY <3>1, <3>2, <3>3, <3>4, <3>5, <4>1
    <3> QED BY <3>1, <3>5
  <2> QED BY <2>0, <2>1 DEF RowsType
<1>2. ASSUME NEW p \in Invocation, CreateLedger(p) PROVE RowsType'
  <2>1. ledger' = {[by |-> p, rows |-> <<>>]} /\ ledgerSafe' = ledgerSafe
    BY <1>2 DEF CreateLedger
  <2>2. IsRows(<<>>) /\ DOMAIN <<>> = {}
    BY DEF IsRows
  <2> QED BY <2>1, <2>2 DEF RowsType
<1>3. ASSUME NEW p \in Invocation, Acts(p), ~JournalRow(p), ~CreateLedger(p) PROVE RowsType'
  <2>1. ledger' = ledger /\ (ledgerSafe' = ledgerSafe \/ ledgerSafe' = ledger)
    BY <1>3, Frames DEF SyncLedger, SyncJournal
  <2> QED BY <2>1 DEF RowsType
<1>4. ASSUME NEW p \in Invocation, NEW f \in FormalFiles \ {"manifest"}, BadBytes(p, f)
      PROVE  RowsType'
  BY <1>4 DEF BadBytes, sidecar, RowsType
<1>5. CASE PowerLoss
  BY <1>5 DEF PowerLoss, RowsType
<1>6. CASE Drift \/ UNCHANGED vars
  BY <1>6 DEF Drift, vars, sidecar, RowsType
<1> QED BY <1>1, <1>2, <1>3, <1>4, <1>5, <1>6 DEF Next, Acts

----------------------------------------------------------------------------
(* The tickets of both entrants *)

LEMMA Tickets ==
  ASSUME ReplayType, NEW p \in Invocation
  PROVE  \A a \in Alias : /\ traces[p][a] \in Seq(Outcome) /\ Len(traces[p][a]) \in Nat
                          /\ DOMAIN traces[p][a] = 1..Len(traces[p][a])
                          /\ traces[p][a] = <<>> <=> Len(traces[p][a]) = 0
<1> SUFFICES ASSUME NEW a \in Alias
             PROVE  /\ traces[p][a] \in Seq(Outcome) /\ Len(traces[p][a]) \in Nat
                    /\ DOMAIN traces[p][a] = 1..Len(traces[p][a])
                    /\ traces[p][a] = <<>> <=> Len(traces[p][a]) = 0
  OBVIOUS
<1> DEFINE t == traces[p][a]
<1>1. t \in Seq(Outcome)
  BY DEF ReplayType
<1> HIDE DEF t
<1>2. Len(t) \in Nat /\ DOMAIN t = 1..Len(t) /\ (t = <<>> <=> Len(t) = 0)
  BY <1>1
<1> QED BY <1>1, <1>2 DEF t

\* A full trace without a failure is the whole schedule of a profile.
LEMMA WholeTrace ==
  ASSUME NEW t \in Seq(Outcome)
  PROVE  /\ Len(t) = MaxCalls /\ NoneFailed(t) => Whole(t)
         /\ Whole(t) => Len(t) = MaxCalls /\ NoneFailed(t)
<1>1. MaxCalls \in Nat
  BY ProxyAssumption
<1>2. ASSUME Len(t) = MaxCalls, NoneFailed(t) PROVE Whole(t)
  <2>1. t = [i \in 1..MaxCalls |-> t[i]]
    BY <1>2
  <2>2. \A i \in 1..MaxCalls : t[i] = "SUCCEEDED"
    BY <1>2 DEF NoneFailed, Outcome
  <2> QED BY <2>1, <2>2 DEF Whole
<1>3. ASSUME Whole(t) PROVE Len(t) = MaxCalls /\ NoneFailed(t)
  <2>0. DOMAIN t = 1..Len(t) /\ Len(t) \in Nat
    OBVIOUS
  <2>1. DOMAIN t = 1..MaxCalls
    BY <1>3 DEF Whole
  <2>2. Len(t) = MaxCalls
    <3>1. \A i : i \in 1..MaxCalls <=> i \in 1..Len(t)
      BY <2>0, <2>1
    <3>2. MaxCalls \in Nat \ {0}
      BY ProxyAssumption
    <3>3. MaxCalls \in 1..Len(t)
      BY <3>1, <3>2
    <3>4. Len(t) \in 1..MaxCalls
      BY <2>0, <3>1, <3>2, <3>3
    <3>5. \A m, n \in Nat : m \in 1..n /\ n \in 1..m => m = n
      OBVIOUS
    <3> QED BY <2>0, <3>2, <3>3, <3>4, <3>5
  <2>3. \A i \in 1..MaxCalls : t[i] = "SUCCEEDED"
    BY <1>3 DEF Whole
  <2> QED BY <2>2, <2>3 DEF NoneFailed
<1> QED BY <1>2, <1>3

\* From one place to another with the same tickets.
Advances(p) ==
    \/ at'[p] = at[p]
    \/ at'[p] \in PartialWrite \cup Over
    \/ {at[p], at'[p]} \subseteq {"gate", "ledger"} \cup Opening
    \/ {at[p], at'[p]} \subseteq Sealing \cup Judging
    \/ at[p] \in {"outputA", "outputB"} /\ at'[p] = "readback"
    \/ at[p] = "readback" /\ at'[p] = "COMMIT"

LEMMA StagesApart ==
  /\ \A op \in Opening \cup {"gate", "ledger"} : op \notin Querying \cup Sealing \cup Judging
  /\ \A op \in Querying : op \notin Opening \cup Sealing \cup Judging \cup {"gate", "ledger"}
  /\ \A op \in Sealing : op \notin Judging \cup {"gate", "ledger"}
  /\ \A op \in Judging : op \notin Sealing \cup {"gate", "ledger"}
  /\ \A op \in PartialWrite \cup Over :
        op \notin Opening \cup Querying \cup Sealing \cup Judging \cup {"gate", "ledger"}
  BY DEF Opening, Querying, Sealing, Judging, PartialWrite, Over

LEMMA TicketsStay ==
  ASSUME NEW p \in Invocation, TicketInv(p), Advances(p),
         turn'[p] = turn[p], traces'[p] = traces[p],
         p \in exposed' => p \in exposed \/ at[p] \in Judging,
         comparable'[p] # "none" => comparable[p] # "none" \/ at[p] \in Judging
  PROVE  TicketInv(p)'
<1>1. Entrant(p)' = Entrant(p)
  BY DEF Entrant
<1>2. /\ \A a \in Alias : Len(traces'[p][a]) <= MaxCalls /\ FailsLast(traces'[p][a])
      /\ turn'[p] = 1 => traces'[p]["B"] = <<>>
      /\ turn'[p] = 2 => Whole(traces'[p]["A"])
  BY DEF TicketInv
<1>3. at'[p] \in {"gate", "ledger"} \cup Opening => turn'[p] = 1 /\ traces'[p]["A"] = <<>>
  BY StagesApart DEF TicketInv, Advances, Querying
<1>4. /\ at'[p] \in Querying \ {"queryRow"} => NoneFailed(traces[p][Entrant(p)])
      /\ at'[p] = "queryRow" => traces[p][Entrant(p)] # <<>>
      /\ at'[p] \in {"outputA", "outputB"} => at'[p] = Output(Entrant(p))
      /\ at'[p] \in {"outputA", "outputB", "readback", "COMMIT"}
           => Len(traces[p][Entrant(p)]) = MaxCalls
  <2>1. CASE at'[p] = at[p]
    BY <2>1 DEF TicketInv
  <2>2. CASE at'[p] \in PartialWrite \cup Over \/ at'[p] \in {"gate", "ledger"} \cup Opening
             \/ at'[p] \in Sealing \cup Judging
    <3>1. at'[p] \notin Querying
      BY <2>2, StagesApart
    <3> QED BY <3>1 DEF Querying
  <2>3. CASE at[p] \in {"outputA", "outputB", "readback"} /\ at'[p] \in {"readback", "COMMIT"}
    BY <2>3 DEF TicketInv, Querying
  <2> QED BY <2>1, <2>2, <2>3 DEF Advances
<1>5. at'[p] \in Sealing \cup Judging \/ p \in exposed' \/ comparable'[p] # "none"
           => turn[p] = 2 /\ Complete(p)
  BY StagesApart DEF TicketInv, Advances, Querying
<1> QED BY <1>1, <1>2, <1>3, <1>4, <1>5 DEF TicketInv, Complete

\* A search spends a ticket that was left.
LEMMA SearchTickets ==
  ASSUME ReplayType, MemoryType, NEW p \in Invocation, ControlType(p), TicketInv(p),
         NEW outcome \in Outcome, Search(p, outcome)
  PROVE  /\ TicketInv(p)' /\ SpentBy(p)' = SpentBy(p) + 1 /\ turn'[p] = turn[p]
         /\ Len(traces[p][Entrant(p)]) < MaxCalls /\ p \notin exposed
<1> DEFINE e == Entrant(p)
           t == traces[p][e]
<1>1. /\ at[p] = "search" /\ at'[p] = "queryRow" /\ UNCHANGED <<turn, comparable, exposed>>
      /\ Len(t) < MaxCalls
      /\ traces' = [traces EXCEPT ![p][e] = Append(@, outcome)]
  BY DEF Search, Step, Goto, ReplayType, WithinBudget, CallsUsed, Traced
<1>2. /\ e \in Alias /\ Entrant(p)' = e
      /\ turn[p] = 1 => e = "A"
      /\ turn[p] = 2 => e = "B"
  BY <1>1, TwoEntrants DEF Entrant, ControlType
<1>3. MaxCalls \in Nat
  BY ProxyAssumption
<1>4. /\ t \in Seq(Outcome) /\ Len(t) \in Nat
      /\ \A a \in Alias : traces[p][a] \in Seq(Outcome) /\ Len(traces[p][a]) \in Nat
  BY <1>2, Tickets
<1>5. /\ traces'[p][e] = Append(t, outcome)
      /\ \A a \in Alias : a # e => traces'[p][a] = traces[p][a]
  <2>1. traces[p] \in [Alias -> Seq(Outcome)]
    BY DEF ReplayType
  <2>2. traces'[p] = [traces[p] EXCEPT ![e] = Append(@, outcome)]
    BY <1>1 DEF ReplayType
  <2> QED BY <1>2, <2>1, <2>2
<1>6. NoneFailed(t)
  BY <1>1 DEF TicketInv, Querying
<1> HIDE DEF t, e
<1>7. /\ Len(Append(t, outcome)) = Len(t) + 1 /\ Append(t, outcome) # <<>>
      /\ \A i \in 1..Len(t) : Append(t, outcome)[i] = t[i]
  BY <1>4
<1>8. FailsLast(Append(t, outcome))
  BY <1>4, <1>6, <1>7 DEF FailsLast, NoneFailed
<1>9. turn[p] = 2 => e = "B" /\ traces'[p]["A"] = traces[p]["A"]
  BY <1>2, <1>5, TwoEntrants
<1>10. turn[p] = 1 => e = "A" /\ traces'[p]["B"] = traces[p]["B"]
  BY <1>2, <1>5, TwoEntrants
<1>11. ~Complete(p)
  <2>1. Whole(t) => Len(t) = MaxCalls
    BY <1>4, WholeTrace
  <2> QED BY <1>1, <1>2, <1>3, <1>4, <2>1 DEF Complete, t
<1>12. p \notin exposed /\ comparable[p] = "none"
  BY <1>11 DEF TicketInv
<1>13. TicketInv(p)'
  <2>1. \A a \in Alias : Len(traces'[p][a]) <= MaxCalls /\ FailsLast(traces'[p][a])
    <3>1. Len(traces'[p][e]) <= MaxCalls /\ FailsLast(traces'[p][e])
      <4>1. Len(t) < MaxCalls
        BY <1>1 DEF t
      <4> QED BY <1>3, <1>4, <1>5, <1>7, <1>8, <4>1
    <3>2. ASSUME NEW a \in Alias, a # e
          PROVE  Len(traces'[p][a]) <= MaxCalls /\ FailsLast(traces'[p][a])
      BY <1>5, <3>2 DEF TicketInv
    <3> QED BY <3>1, <3>2
  <2>2. /\ turn'[p] = 1 => traces'[p]["B"] = <<>>
        /\ turn'[p] = 2 => Whole(traces'[p]["A"])
    BY <1>1, <1>9, <1>10 DEF TicketInv
  <2>3. traces'[p][Entrant(p)'] # <<>>
    BY <1>2, <1>5, <1>7
  <2> QED BY <1>1, <1>12, <2>1, <2>2, <2>3 DEF TicketInv, Opening, Querying, Sealing, Judging
<1>14. SpentBy(p)' = SpentBy(p) + 1
  <2>1. Len(traces'[p][e]) = Len(traces[p][e]) + 1 /\ Len(traces[p][e]) \in Nat
    BY <1>2, <1>4, <1>5, <1>7 DEF t
  <2>2. /\ {"A", "B"} = Alias /\ Len(traces[p]["A"]) \in Nat /\ Len(traces[p]["B"]) \in Nat
    BY <1>4, TwoEntrants
  <2>5. /\ SpentBy(p) = Len(traces[p]["A"]) + Len(traces[p]["B"])
        /\ SpentBy(p)' = Len(traces'[p]["A"]) + Len(traces'[p]["B"])
    BY DEF SpentBy
  <2>6. Len(traces[p]["A"]) \in Nat /\ Len(traces[p]["B"]) \in Nat
    BY <2>2
  <2>7. \A m, n \in Nat : (m + 1) + n = (m + n) + 1 /\ m + (n + 1) = (m + n) + 1
    OBVIOUS
  <2>3. CASE e = "A"
    <3>1. traces'[p]["B"] = traces[p]["B"]
      BY <1>5, <2>2, <2>3
    <3>2. Len(traces'[p]["A"]) = Len(traces[p]["A"]) + 1
      BY <2>1, <2>3
    <3> QED BY <2>5, <2>6, <2>7, <3>1, <3>2
  <2>4. CASE e = "B"
    <3>1. traces'[p]["A"] = traces[p]["A"]
      BY <1>5, <2>2, <2>4
    <3>2. Len(traces'[p]["B"]) = Len(traces[p]["B"]) + 1
      BY <2>1, <2>4
    <3> QED BY <2>5, <2>6, <2>7, <3>1, <3>2
  <2> QED BY <1>2, <2>2, <2>3, <2>4
<1> QED BY <1>1, <1>12, <1>13, <1>14 DEF t, e

\* After a query that was answered the next one follows, or the submission.
LEMMA QueryTickets ==
  ASSUME ReplayType, MemoryType, NEW p \in Invocation, TicketInv(p), ControlType(p),
         turn'[p] = turn[p], traces'[p] = traces[p], exposed' = exposed, comparable' = comparable,
         at[p] \in {"queryRow", "resultRows"}, NoneFailed(traces[p][Entrant(p)]),
         at'[p] = "resultRows" \/ at'[p] = NextQuery(p)
  PROVE  TicketInv(p)'
<1>1. Entrant(p)' = Entrant(p) /\ Entrant(p) \in Alias
  BY TwoEntrants DEF Entrant, ControlType
<1>2. MaxCalls \in Nat /\ Len(traces[p][Entrant(p)]) \in Nat
  BY <1>1, ProxyAssumption, Tickets
<1>3. Len(traces[p][Entrant(p)]) <= MaxCalls
  BY <1>1 DEF TicketInv
<1>4. \/ at'[p] \in {"resultRows", "search"}
      \/ at'[p] = Output(Entrant(p)) /\ Len(traces[p][Entrant(p)]) = MaxCalls
  <2>1. CASE Len(traces[p][Entrant(p)]) < MaxCalls
    BY <2>1 DEF NextQuery, WithinBudget, CallsUsed
  <2>2. CASE ~(Len(traces[p][Entrant(p)]) < MaxCalls)
    <3>1. Len(traces[p][Entrant(p)]) = MaxCalls
      BY <1>2, <1>3, <2>2
    <3>2. NextQuery(p) = Output(Entrant(p))
      BY <2>2 DEF NextQuery, WithinBudget, CallsUsed
    <3> QED BY <3>1, <3>2
  <2> QED BY <2>1, <2>2
<1>5. /\ at'[p] \in Querying \ {"queryRow"}
      /\ at'[p] \in {"outputA", "outputB"} => at'[p] = Output(Entrant(p))
      /\ at'[p] \in {"outputA", "outputB", "readback", "COMMIT"}
           => Len(traces[p][Entrant(p)]) = MaxCalls
  BY <1>4 DEF Output, Querying
<1>6. at'[p] \notin {"gate", "ledger"} \cup Opening /\ at'[p] \notin Sealing \cup Judging
  BY <1>5, StagesApart
<1> QED BY <1>1, <1>5, <1>6 DEF TicketInv, Complete

\* A commit hands over to the other entrant, or ends the search.
LEMMA JournalTickets ==
  ASSUME ReplayType, MemoryType, NEW p \in Invocation, ControlType(p), TicketInv(p), SyncJournal(p)
  PROVE  TicketInv(p)' /\ (turn'[p] = turn[p] \/ (at[p] = "COMMIT" /\ turn[p] = 1 /\ turn'[p] = 2))
<1>1. /\ at[p] \in Journal /\ traces' = traces /\ exposed' = exposed /\ comparable' = comparable
      /\ turn'[p] = (IF at[p] = "COMMIT" /\ turn[p] = 1 THEN 2 ELSE turn[p])
  BY DEF SyncJournal, MemoryType
<1>2. CASE at[p] # "COMMIT"
  <2>1. turn'[p] = turn[p]
    BY <1>1, <1>2
  <2>2. CASE at[p] = "STARTED"
    <3>1. at'[p] = "search"
      BY <2>2, PlacesAfterRun DEF Goes
    <3>2. turn[p] = 1 /\ traces[p]["A"] = <<>> /\ Entrant(p) = "A" /\ Entrant(p)' = "A"
      BY <2>1, <2>2, TwoEntrants DEF TicketInv, Opening, Entrant, Aliases
    <3>3. NoneFailed(traces[p]["A"])
      BY <3>2 DEF NoneFailed
    <3> QED BY <1>1, <2>1, <3>1, <3>2, <3>3 DEF TicketInv, Opening, Sealing, Judging, Complete
  <2>3. CASE at[p] \in {"REFERENCE_LOAD", "HARD_GATE_FAILURE"}
    <3>1. at'[p] \in {"load", "partialEnd"}
      BY <2>3, PlacesAfterRun DEF Goes, GivesUp, PartialWrite
    <3>2. Advances(p)
      BY <2>3, <3>1 DEF Advances, Sealing, Judging, PartialWrite
    <3> QED BY <1>1, <2>1, <3>2, TicketsStay
  <2> QED BY <1>1, <1>2, <2>2, <2>3 DEF Journal
<1>3. CASE at[p] = "COMMIT"
  <2>1. /\ Entrant(p) \in Alias /\ NoneFailed(traces[p][Entrant(p)])
        /\ Len(traces[p][Entrant(p)]) = MaxCalls
    BY <1>3, TwoEntrants DEF TicketInv, Querying, ControlType
  <2>2. Whole(traces[p][Entrant(p)])
    BY <2>1, Tickets, WholeTrace
  <2>3. CASE turn[p] = 1
    <3>1. at'[p] = "search" /\ turn'[p] = 2
      BY <1>1, <1>3, <2>3, PlacesAfterRun DEF Goes
    <3>2. Entrant(p) = "A" /\ Entrant(p)' = "B" /\ traces[p]["B"] = <<>>
      BY <2>3, <3>1, TwoEntrants DEF TicketInv, Entrant, Aliases
    <3>3. NoneFailed(traces[p]["B"])
      BY <3>2 DEF NoneFailed
    <3>4. /\ at'[p] \notin {"gate", "ledger"} \cup Opening /\ at'[p] \notin Sealing \cup Judging
      BY <3>1 DEF Opening, Sealing, Judging
    <3>5. p \notin exposed /\ comparable[p] = "none"
      BY <2>3 DEF TicketInv
    <3> QED BY <1>1, <1>3, <2>2, <2>3, <3>1, <3>2, <3>3, <3>4, <3>5 DEF TicketInv
  <2>4. CASE turn[p] = 2
    <3>1. at'[p] = "receipts" /\ turn'[p] = 2
      BY <1>1, <1>3, <2>4, PlacesAfterRun DEF Goes
    <3>2. Entrant(p) = "B" /\ Complete(p)
      BY <2>2, <2>4, TwoEntrants DEF TicketInv, Complete
    <3>3. /\ at'[p] \notin {"gate", "ledger"} \cup Opening \cup Querying
      BY <3>1 DEF Opening, Querying
    <3> QED BY <1>1, <2>4, <3>1, <3>2, <3>3 DEF TicketInv, Complete, Querying
  <2> QED BY <2>3, <2>4 DEF ControlType
<1> QED BY <1>2, <1>3

\* The other operations of an invocation leave the tickets as they are.
LEMMA StepTickets ==
  ASSUME ReplayType, MemoryType, NEW p \in Invocation, ControlType(p), TicketInv(p), [Next]_vars
  PROVE  TicketInv(p)'
<1>1. CASE SameRun(p) \/ SpoiledBytes(p)
  <2>1. /\ Advances(p) /\ turn'[p] = turn[p] /\ traces'[p] = traces[p] /\ (p \in exposed' <=> p \in exposed)
        /\ comparable'[p] = comparable[p]
    BY <1>1 DEF SameRun, SpoiledBytes, Advances
  <2> QED BY <2>1, TicketsStay
<1>2. CASE Rebooted(p)
  <2>1. /\ Advances(p) /\ turn'[p] = turn[p] /\ traces'[p] = traces[p] /\ exposed' = exposed
        /\ comparable'[p] = comparable[p]
    BY <1>2 DEF Rebooted, Advances, Over
  <2> QED BY <2>1, TicketsStay
<1>3. CASE Acts(p)
  <2>1. ASSUME Advances(p), turn' = turn, traces' = traces,
               LoadReference(p) \/ exposed' = exposed, Finish(p) \/ comparable' = comparable
        PROVE  TicketInv(p)'
    <3>1. p \in exposed' => p \in exposed \/ at[p] \in Judging
      BY <2>1 DEF LoadReference, Step, Judging
    <3>2. comparable'[p] # "none" => comparable[p] # "none" \/ at[p] \in Judging
      BY <2>1 DEF Finish, Step, Judging
    <3> QED BY <2>1, <3>1, <3>2, TicketsStay
  <2>2. GivesUp(p) => Advances(p)
    BY DEF GivesUp, Advances, PartialWrite, Over
  <2>3. CASE PassGate(p) \/ SyncLedger(p) \/ MakeDirectory(p) \/ Recheck(p)
    <3>1. Advances(p)
      BY <2>2, <2>3, PlacesInRun DEF Goes, Advances, Opening
    <3> QED BY <2>1, <2>3, <3>1 DEF PassGate, SyncLedger, MakeDirectory, Recheck, memory
  <2>4. CASE ReadBack(p) \/ Barrier(p) \/ LoadReference(p) \/ Final(p)
    <3>1. Advances(p)
      BY <2>2, <2>4, PlacesInRun DEF Goes, Advances, Sealing, Judging
    <3> QED BY <2>1, <2>4, <3>1 DEF ReadBack, Barrier, LoadReference, Final, memory
  <2>5. CASE FailGate(p) \/ LedgerTaken(p) \/ PackageMutated(p) \/ OperationRaises(p)
    <3>1. Advances(p)
      BY <2>2, <2>5, PlacesInRun
    <3> QED BY <2>1, <2>5, <3>1 DEF FailGate, LedgerTaken, PackageMutated, OperationRaises, Raises, memory
  <2>6. CASE CreateLedger(p) \/ FillTemporary(p) \/ Replace(p) \/ AppendRow(p) \/ JournalRow(p)
    <3>1. Advances(p)
      BY <2>6 DEF CreateLedger, FillTemporary, Replace, AppendRow, JournalRow, Advances
    <3> QED BY <2>1, <2>6, <3>1 DEF CreateLedger, FillTemporary, Replace, AppendRow, JournalRow, memory
  <2>7. CASE SyncDirectory(p) \/ SkipWrite(p)
    <3>1. Advances(p)
      <4>1. CASE GivesUp(p)
        BY <2>2, <4>1
      <4>2. CASE at[p] # "partialManifest" /\ Goes(p, Then(p))
        <5>1. at[p] \in Write /\ at'[p] = Then(p)
          BY <2>7, <4>2, PlacesAfterRun, Writes DEF PartialWrite, Goes
        <5>2. CASE at[p] \in {"preflight", "queries0", "results0", "start"}
          BY <5>1, <5>2, Following DEF Advances, Opening
        <5>3. CASE at[p] \in {"outputA", "outputB"}
          BY <5>1, <5>3, Following DEF Advances
        <5>4. CASE at[p] \in {"receipts", "audit", "adjudication", "end", "metrics", "checks", "post",
                              "manifest"}
          BY <5>1, <5>4, Following DEF Advances, Sealing, Judging
        <5>5. CASE at[p] \in {"partialEnd", "partialPost", "partialJournal"}
          BY <5>1, <5>5, Following DEF Advances, PartialWrite
        <5> QED BY <4>2, <5>1, <5>2, <5>3, <5>4, <5>5, Writes
      <4> QED BY <2>7, <4>1, <4>2, PlacesAfterRun
    <3> QED BY <2>1, <2>7, <3>1 DEF SyncDirectory, SkipWrite, memory
  <2>8. CASE \E outcome \in Outcome : Search(p, outcome)
    BY <2>8, SearchTickets
  <2>9. CASE QueryRecorded(p)
    <3>0. /\ turn' = turn /\ traces' = traces /\ exposed' = exposed /\ comparable' = comparable
          /\ at[p] = "queryRow"
      BY <2>9, PlacesAfterRun DEF QueryRecorded, memory
    <3>1. CASE GivesUp(p)
      BY <2>1, <2>2, <3>0, <3>1
    <3>2. CASE /\ Last(traces[p][Entrant(p)]) # "FAILED"
               /\ Goes(p, "resultRows") \/ Goes(p, NextQuery(p))
      <4> DEFINE t == traces[p][Entrant(p)]
      <4>1. Entrant(p) \in Alias /\ t # <<>> /\ FailsLast(t)
        BY <3>0, TwoEntrants DEF TicketInv, ControlType
      <4>2. t[Len(t)] # "FAILED"
        BY <3>2 DEF Last
      <4>3. NoneFailed(t)
        BY <4>1, <4>2 DEF FailsLast, NoneFailed
      <4> HIDE DEF t
      <4> QED BY <3>0, <3>2, <4>3, QueryTickets DEF Goes, t
    <3> QED BY <2>9, <3>1, <3>2, PlacesAfterRun
  <2>10. CASE ResultsRecorded(p)
    <3>0. /\ turn' = turn /\ traces' = traces /\ exposed' = exposed /\ comparable' = comparable
          /\ at[p] = "resultRows" /\ at'[p] = NextQuery(p)
      BY <2>10, PlacesAfterRun DEF ResultsRecorded, memory, Goes
    <3>1. NoneFailed(traces[p][Entrant(p)])
      BY <3>0 DEF TicketInv, Querying
    <3> QED BY <3>0, <3>1, QueryTickets
  <2>11. CASE SyncJournal(p)
    BY <2>11, JournalTickets
  <2>12. CASE Finish(p)
    <3>1. Advances(p)
      BY <2>2, <2>12, PlacesAfterRun DEF Goes, Advances, Judging
    <3> QED BY <2>1, <2>12, <3>1 DEF Finish
  <2>13. CASE Validate(p) \/ Kill(p)
    <3>1. Advances(p)
      BY <2>2, <2>13, PlacesAfterRun DEF Advances, Over
    <3> QED BY <2>1, <2>13, <3>1 DEF Validate, Kill, memory
  <2> QED BY <1>3, <2>3, <2>4, <2>5, <2>6, <2>7, <2>8, <2>9, <2>10, <2>11, <2>12, <2>13 DEF Acts, Run
<1> QED BY <1>1, <1>2, <1>3, StepOf DEF Acts

----------------------------------------------------------------------------
(* From where an invocation comes to the operation it is at *)

\* Part of an operation is done.
Stays(p) ==
    /\ at'[p] = at[p]
    /\ \/ FillTemporary(p) /\ part'[p] = "replace"
       \/ CreateLedger(p) \/ Replace(p) \/ AppendRow(p) \/ JournalRow(p)
    /\ ~FillTemporary(p) => part'[p] = "sync"

Sealed(p, op) == SyncDirectory(p) /\ at[p] = op /\ part[p] = "sync"
Recorded(p, op) == SyncJournal(p) /\ at[p] = op /\ part[p] = "sync"

\* The next operation of a run that goes on.
Arrives(p) ==
    \/ PassGate(p) /\ at[p] = "gate" /\ at'[p] = "ledger"
    \/ SyncLedger(p) /\ at[p] = "ledger" /\ part[p] = "sync" /\ at'[p] = "directory"
    \/ MakeDirectory(p) /\ at[p] = "directory" /\ at'[p] = "recheck"
    \/ Recheck(p) /\ at[p] = "recheck" /\ at'[p] = "preflight"
    \/ Sealed(p, "preflight") /\ at'[p] = "queries0"
    \/ Sealed(p, "queries0") /\ at'[p] = "results0"
    \/ Sealed(p, "results0") /\ at'[p] = "start"
    \/ Sealed(p, "start") /\ at'[p] = "STARTED"
    \/ Recorded(p, "STARTED") /\ at'[p] = "search"
    \/ (\E outcome \in Outcome : Search(p, outcome)) /\ at[p] = "search" /\ at'[p] = "queryRow"
    \/ /\ QueryRecorded(p) /\ at[p] = "queryRow" /\ part[p] = "sync"
       /\ at'[p] \in {"resultRows", "search", "outputA", "outputB"}
    \/ /\ ResultsRecorded(p) /\ at[p] = "resultRows" /\ part[p] = "sync"
       /\ at'[p] \in {"search", "outputA", "outputB"}
    \/ (Sealed(p, "outputA") \/ Sealed(p, "outputB")) /\ at'[p] = "readback"
    \/ ReadBack(p) /\ at[p] = "readback" /\ at'[p] = "COMMIT"
    \/ Recorded(p, "COMMIT") /\ at'[p] = (IF turn[p] = 1 THEN "search" ELSE "receipts")
    \/ Sealed(p, "receipts") /\ at'[p] = "barrier"
    \/ Barrier(p) /\ at[p] = "barrier" /\ at'[p] = "REFERENCE_LOAD"
    \/ Recorded(p, "REFERENCE_LOAD") /\ at'[p] = "load"
    \/ LoadReference(p) /\ at[p] = "load" /\ at'[p] = "audit"
    \/ Sealed(p, "audit") /\ at'[p] = "adjudication"
    \/ Sealed(p, "adjudication") /\ at'[p] = "finish"
    \/ Finish(p) /\ at[p] = "finish" /\ at'[p] = "HARD_GATE_FAILURE" /\ comparable' = comparable
    \/ Finish(p) /\ at[p] = "finish" /\ at'[p] = "end"
    \/ Sealed(p, "end") /\ at'[p] = "metrics"
    \/ Sealed(p, "metrics") /\ at'[p] = "checks"
    \/ Sealed(p, "checks") /\ at'[p] = "post"
    \/ Sealed(p, "post") /\ at'[p] = "final"
    \/ Final(p) /\ at[p] = "final" /\ at'[p] = "manifest"
    \/ Sealed(p, "manifest") /\ at'[p] = "validate"

\* A run that goes on no longer.
Leaves(p) ==
    /\ at[p] \notin Over /\ at'[p] \in PartialWrite \cup Over
    /\ comparable' = comparable
    /\ ~FillTemporary(p) /\ ~CreateLedger(p) /\ ~Replace(p) /\ ~AppendRow(p) /\ ~JournalRow(p)

LEMMA GivenUp ==
  ASSUME NEW p \in Invocation, GivesUp(p)
  PROVE  at'[p] \in PartialWrite \cup Over /\ part'[p] = "begin" /\ at[p] \notin Over
  BY DEF GivesUp, PartialWrite, Over, Working, Opening, Querying, Sealing, Judging

\* The five steps that leave an invocation where it is are none of the others.
LEMMA StayingSteps ==
  ASSUME ReplayType, NEW p \in Invocation, part'[p] = "begin"
  PROVE  /\ ~FillTemporary(p) /\ ~CreateLedger(p) /\ ~Replace(p) /\ ~AppendRow(p) /\ ~JournalRow(p)
  BY DEF FillTemporary, CreateLedger, Replace, AppendRow, JournalRow, ReplayType

Acted(p) ==
    /\ at[p] \notin Over
    /\ Stays(p) \/ (part'[p] = "begin" /\ (Arrives(p) \/ Leaves(p)))

LEMMA Arrivals ==
  ASSUME ReplayType, MemoryType, NEW p \in Invocation, ControlType(p), Acts(p)
  PROVE  Acted(p)
<1>1. ASSUME GivesUp(p), comparable' = comparable PROVE Acted(p)
  BY <1>1, GivenUp, StayingSteps DEF Leaves, Acted
<1>2. ASSUME at[p] \notin Over, part'[p] = "begin", Arrives(p) PROVE Acted(p)
  BY <1>2 DEF Acted
<1>3. CASE CreateLedger(p) \/ FillTemporary(p) \/ Replace(p) \/ AppendRow(p) \/ JournalRow(p)
  <2>1. at'[p] = at[p] /\ (FillTemporary(p) => part'[p] = "replace")
        /\ (~FillTemporary(p) => part'[p] = "sync")
    BY <1>3 DEF CreateLedger, FillTemporary, Replace, AppendRow, JournalRow, ReplayType
  <2>2. at[p] \notin Over
    BY <1>3, Writes DEF CreateLedger, FillTemporary, Replace, AppendRow, JournalRow, Step, Over,
       Append1, Journal
  <2> QED BY <1>3, <2>1, <2>2 DEF Stays, Acted
<1>4. CASE PassGate(p) \/ SyncLedger(p) \/ MakeDirectory(p) \/ Recheck(p)
  <2>1. comparable' = comparable
    BY <1>4 DEF PassGate, SyncLedger, MakeDirectory, Recheck, memory
  <2>2. CASE GivesUp(p)
    BY <1>1, <2>1, <2>2
  <2>3. CASE ~GivesUp(p)
    <3>1. Arrives(p) /\ part'[p] = "begin" /\ at[p] \in {"gate", "ledger", "directory", "recheck"}
      BY <1>4, <2>3, PlacesInRun DEF Goes, Arrives
    <3> QED BY <1>2, <3>1 DEF Over
  <2> QED BY <2>2, <2>3
<1>5. CASE ReadBack(p) \/ Barrier(p) \/ LoadReference(p) \/ Final(p)
  <2>1. comparable' = comparable
    BY <1>5 DEF ReadBack, Barrier, LoadReference, Final, memory
  <2>2. CASE GivesUp(p)
    BY <1>1, <2>1, <2>2
  <2>3. CASE ~GivesUp(p)
    <3>1. Arrives(p) /\ part'[p] = "begin" /\ at[p] \in {"readback", "barrier", "load", "final"}
      BY <1>5, <2>3, PlacesInRun DEF Goes, Arrives
    <3> QED BY <1>2, <3>1 DEF Over
  <2> QED BY <2>2, <2>3
<1>6. CASE FailGate(p) \/ LedgerTaken(p) \/ PackageMutated(p) \/ OperationRaises(p)
  <2>1. comparable' = comparable
    BY <1>6 DEF FailGate, LedgerTaken, PackageMutated, OperationRaises, Raises, memory
  <2> QED BY <1>1, <1>6, <2>1, PlacesInRun
<1>7. CASE SyncDirectory(p) \/ SkipWrite(p)
  <2>1. comparable' = comparable
    BY <1>7 DEF SyncDirectory, SkipWrite, memory
  <2>2. CASE GivesUp(p)
    BY <1>1, <2>1, <2>2
  <2>3. CASE at[p] # "partialManifest" /\ Goes(p, Then(p))
    <3>1. /\ at[p] \in Write /\ at'[p] = Then(p) /\ part'[p] = "begin"
          /\ at[p] \in PartialWrite \/ (SyncDirectory(p) /\ part[p] = "sync")
      BY <1>7, <2>3, PlacesAfterRun, Writes DEF PartialWrite, Goes
    <3>2. at[p] \notin Over
      BY <3>1, Writes DEF Over
    <3>3. CASE at[p] \in PartialWrite
      <4>1. at'[p] \in PartialWrite
        BY <2>3, <3>1, <3>3, Following DEF PartialWrite
      <4> QED BY <2>1, <3>1, <3>2, <4>1, StayingSteps DEF Leaves, Acted
    <3>4. CASE at[p] \in {"preflight", "queries0", "results0", "start", "outputA", "outputB"}
      <4>1. Sealed(p, at[p])
        BY <3>1, <3>4 DEF Sealed, PartialWrite
      <4>2. Arrives(p)
        BY <3>1, <3>4, <4>1, Following DEF Arrives
      <4> QED BY <1>2, <3>1, <3>2, <4>2
    <3>5. CASE at[p] \in {"receipts", "audit", "adjudication", "end", "metrics", "checks", "post",
                          "manifest"}
      <4>1. Sealed(p, at[p])
        BY <3>1, <3>5 DEF Sealed, PartialWrite
      <4>2. Arrives(p)
        BY <3>1, <3>5, <4>1, Following DEF Arrives
      <4> QED BY <1>2, <3>1, <3>2, <4>2
    <3> QED BY <3>1, <3>3, <3>4, <3>5, Writes DEF PartialWrite
  <2> QED BY <1>7, <2>2, <2>3, PlacesAfterRun
<1>8. CASE \E outcome \in Outcome : Search(p, outcome)
  BY <1>2, <1>8, PlacesAfterRun DEF Goes, Arrives, Over
<1>9. CASE QueryRecorded(p) \/ ResultsRecorded(p)
  <2>1. comparable' = comparable /\ at[p] \notin Over
    BY <1>9 DEF QueryRecorded, ResultsRecorded, memory, Over
  <2>2. CASE GivesUp(p)
    BY <1>1, <2>1, <2>2
  <2>3. CASE ~GivesUp(p)
    <3>1. NextQuery(p) \in {"search", "outputA", "outputB"}
      BY DEF NextQuery, Output
    <3>2. Arrives(p) /\ part'[p] = "begin"
      BY <1>9, <2>3, <3>1, PlacesAfterRun DEF Goes, Arrives
    <3> QED BY <1>2, <2>1, <3>2
  <2> QED BY <2>2, <2>3
<1>10. CASE SyncJournal(p)
  <2>1. comparable' = comparable /\ at[p] \in Journal /\ turn[p] \in {1, 2} /\ Recorded(p, at[p])
    BY <1>10 DEF SyncJournal, ControlType, Recorded
  <2>2. CASE GivesUp(p)
    BY <1>1, <2>1, <2>2
  <2>3. CASE ~GivesUp(p)
    <3>1. Arrives(p) /\ part'[p] = "begin"
      BY <1>10, <2>1, <2>3, PlacesAfterRun DEF Goes, Arrives, Journal
    <3> QED BY <1>2, <2>1, <3>1 DEF Journal, Over
  <2> QED BY <2>2, <2>3
<1>11. CASE Finish(p)
  <2>1. CASE GivesUp(p) /\ comparable' = comparable
    BY <1>1, <2>1
  <2>2. CASE ~(GivesUp(p) /\ comparable' = comparable)
    <3>1. Arrives(p) /\ part'[p] = "begin" /\ at[p] = "finish"
      BY <1>11, <2>2, PlacesAfterRun DEF Goes, Arrives
    <3> QED BY <1>2, <3>1 DEF Over
  <2> QED BY <2>1, <2>2
<1>12. CASE Validate(p) \/ Kill(p)
  <2>1. /\ comparable' = comparable /\ at'[p] \in PartialWrite \cup Over /\ part'[p] = "begin"
        /\ at[p] \notin Over
    BY <1>12, PlacesAfterRun, GivenUp DEF Validate, Kill, memory, Over
  <2> QED BY <2>1, StayingSteps DEF Leaves, Acted
<1> QED BY <1>3, <1>4, <1>5, <1>6, <1>7, <1>8, <1>9, <1>10, <1>11, <1>12 DEF Acts, Run

----------------------------------------------------------------------------
(* The files that a power loss cannot take *)

\* What an invocation stored is not removed, and a synchronisation only adds to what is safe.
LEMMA FilesStay ==
  ASSUME ReplayType, MemoryType, NEW p \in Invocation, ControlType(p), FileInv(p), Acts(p)
  PROVE  \A f \in File \ {"temporary"} :
            /\ disk[p][f] # {} => disk'[p][f] # {}
            /\ safe[p][f] # {} => safe'[p][f] # {}
            /\ safe'[p][f] # {} => disk'[p][f] # {}
            /\ SyncDirectory(p) /\ disk[p][f] # {} => safe'[p][f] # {}
<1> SUFFICES ASSUME NEW f \in File \ {"temporary"}
             PROVE  /\ disk[p][f] # {} => disk'[p][f] # {}
                    /\ safe[p][f] # {} => safe'[p][f] # {}
                    /\ safe'[p][f] # {} => disk'[p][f] # {}
                    /\ SyncDirectory(p) /\ disk[p][f] # {} => safe'[p][f] # {}
  OBVIOUS
<1>0. safe[p][f] # {} => disk[p][f] # {}
  BY DEF FileInv
<1>1. disk[p][f] # {} => disk'[p][f] # {}
  <2>1. CASE disk' = disk
    BY <2>1
  <2>2. CASE FillTemporary(p)
    BY <2>2, DiskAfter
  <2>3. CASE Replace(p)
    <3>1. disk[p]["temporary"] # {}
      BY <2>3 DEF Replace, FileInv
    <3> QED BY <2>3, <3>1, DiskAfter
  <2>4. CASE AppendRow(p)
    <3>1. \A g \in File : disk[p][g] # {} => WithRow(p, g) # {}
      BY DEF WithRow
    <3>2. at[p] = "queryRow" => disk'[p]["queries"] = WithRow(p, "queries")
      BY <2>4, DiskAfter
    <3>3. f # "results" /\ (f = "queries" => at[p] # "queryRow") => disk'[p][f] = disk[p][f]
      BY <2>4, DiskAfter
    <3>4. disk'[p]["results"] = disk[p]["results"] \/ disk'[p]["results"] = WithRow(p, "results")
      BY <2>4, DiskAfter
    <3> QED BY <3>1, <3>2, <3>3, <3>4
  <2> QED BY <2>1, <2>2, <2>3, <2>4, Frames
<1>2. safe'[p] = safe[p] \/ (safe'[p] = disk[p] /\ disk' = disk)
  BY Frames, SafeAfter
<1>3. SyncDirectory(p) => safe'[p] = disk[p]
  BY SafeAfter
<1> QED BY <1>0, <1>1, <1>2, <1>3

\* Only a search spends.
LEMMA SpentGrows ==
  ASSUME ReplayType, MemoryType, NEW p \in Invocation, ControlType(p), TicketInv(p), Acts(p)
  PROVE  /\ SpentBy(p) \in Nat
         /\ SpentBy(p)' = SpentBy(p) \/ (at[p] = "search" /\ SpentBy(p)' = SpentBy(p) + 1)
<1>1. SpentBy(p) \in Nat
  <2>1. Len(traces[p]["A"]) \in Nat /\ Len(traces[p]["B"]) \in Nat
    BY Tickets, TwoEntrants
  <2>2. \A m, n \in Nat : m + n \in Nat
    OBVIOUS
  <2> QED BY <2>1, <2>2 DEF SpentBy
<1>2. CASE traces' = traces
  BY <1>1, <1>2 DEF SpentBy
<1>3. CASE \E outcome \in Outcome : Search(p, outcome)
  <2>1. at[p] = "search"
    BY <1>3 DEF Search, Step
  <2>2. SpentBy(p)' = SpentBy(p) + 1
    BY <1>3, SearchTickets
  <2> QED BY <1>1, <2>1, <2>2
<1> QED BY <1>2, <1>3, Frames

LEMMA ActFiles ==
  ASSUME ReplayType, MemoryType, NEW p \in Invocation, ControlType(p), TicketInv(p), FileInv(p),
         Acts(p)
  PROVE  FileInv(p)'
<1>0. /\ at[p] \notin Over
      /\ Stays(p) \/ (part'[p] = "begin" /\ (Arrives(p) \/ Leaves(p)))
  BY Arrivals DEF Acted
<1>1. \A f \in File \ {"temporary"} : safe'[p][f] # {} => disk'[p][f] # {}
  BY FilesStay
<1>2. part'[p] = "replace" => disk'[p]["temporary"] # {}
  <2>1. FillTemporary(p) => disk'[p]["temporary"] = {Doc(Content(p))}
    BY DiskAfter
  <2> QED BY <1>0, <2>1 DEF Stays
<1>3. at'[p] \in Write /\ part'[p] = "sync" => disk'[p][Target[at'[p]]] # {}
  <2> SUFFICES ASSUME at'[p] \in Write, part'[p] = "sync"
               PROVE  disk'[p][Target[at'[p]]] # {}
    OBVIOUS
  <2>1. Replace(p) /\ at'[p] = at[p]
    BY <1>0, Writes DEF Stays, CreateLedger, AppendRow, JournalRow, Step, Append1, Journal
  <2>2. disk'[p][Target[at[p]]] = disk[p]["temporary"]
    BY <2>1, DiskAfter
  <2>3. disk[p]["temporary"] # {}
    BY <2>1 DEF Replace, FileInv
  <2> QED BY <2>1, <2>2, <2>3
<1>4. at'[p] \in {"STARTED"} \cup Querying \/ SpentBy(p)' > 0 => safe'[p]["start"] # {}
  <2>1. safe[p]["start"] # {} => safe'[p]["start"] # {}
    BY FilesStay, Writes
  <2>2. CASE SpentBy(p)' > 0 /\ at'[p] \notin {"STARTED"} \cup Querying
    <3>1. SpentBy(p) > 0 \/ at[p] = "search"
      BY <2>2, SpentGrows
    <3> QED BY <2>1, <3>1 DEF FileInv, Querying
  <2>3. CASE at'[p] \in {"STARTED"} \cup Querying
    <3>1. CASE at[p] \in {"STARTED"} \cup Querying
      BY <2>1, <3>1 DEF FileInv
    <3>2. CASE at[p] \notin {"STARTED"} \cup Querying
      <4>1. Sealed(p, "start")
        BY <1>0, <2>3, <3>2 DEF Stays, Arrives, Leaves, Querying, PartialWrite, Over, Sealed, Recorded
      <4>2. disk[p]["start"] # {}
        BY <4>1, Writes DEF Sealed, FileInv, Target
      <4> QED BY <4>1, <4>2, FilesStay, Writes DEF Sealed
    <3> QED BY <3>1, <3>2
  <2> QED BY <2>2, <2>3
<1>5. at'[p] \in {"readback", "COMMIT"} => safe'[p][Output(Entrant(p)')] # {}
  <2> SUFFICES ASSUME at'[p] \in {"readback", "COMMIT"}
               PROVE  safe'[p][Output(Entrant(p)')] # {}
    OBVIOUS
  <2>1. \/ at'[p] = at[p] /\ Stays(p)
        \/ Sealed(p, "outputA") \/ Sealed(p, "outputB")
        \/ at[p] = "readback" /\ ReadBack(p)
    BY <1>0 DEF Stays, Arrives, Leaves, PartialWrite, Over
  <2>2. turn' = turn /\ Entrant(p)' = Entrant(p)
    <3>1. ~SyncJournal(p)
      BY <2>1 DEF Sealed, Stays, SyncJournal, CreateLedger, FillTemporary, Replace, AppendRow,
         JournalRow, Journal, ReplayType, Goto, Raise, Return
    <3> QED BY <3>1, Frames DEF Entrant
  <2>3. Output(Entrant(p)) \in File \ {"temporary"} /\ {"outputA", "outputB"} \subseteq Write
    BY Writes DEF Output
  <2>4. CASE at[p] \in {"readback", "COMMIT"}
    <3>1. safe[p][Output(Entrant(p))] # {}
      BY <2>4 DEF FileInv
    <3> QED BY <2>2, <2>3, <3>1, FilesStay
  <2>5. CASE Sealed(p, "outputA") \/ Sealed(p, "outputB")
    <3>1. Target[at[p]] = at[p] /\ at[p] = Output(Entrant(p))
      BY <2>5, Writes DEF Sealed, TicketInv
    <3>2. disk[p][Output(Entrant(p))] # {}
      BY <2>3, <2>5, <3>1 DEF Sealed, FileInv
    <3> QED BY <2>2, <2>3, <2>5, <3>2, FilesStay DEF Sealed
  <2> QED BY <2>1, <2>4, <2>5
<1>6. turn'[p] = 2 => safe'[p]["outputA"] # {}
  <2>1. safe[p]["outputA"] # {} => safe'[p]["outputA"] # {}
    BY FilesStay, Writes
  <2>2. CASE turn[p] = 2
    BY <2>1, <2>2 DEF FileInv
  <2>3. CASE turn[p] = 1
    <3>1. turn'[p] = 2 => at[p] = "COMMIT"
      BY <2>3, Frames, JournalTickets
    <3>2. Output(Entrant(p)) = "outputA"
      BY <2>3, TwoEntrants DEF Output
    <3>3. at[p] = "COMMIT" => safe[p]["outputA"] # {}
      BY <3>2 DEF FileInv
    <3> QED BY <2>1, <3>1, <3>3
  <2> QED BY <2>2, <2>3 DEF ControlType
<1>7. at'[p] \in Sealing \cup Judging \/ p \in exposed' => safe'[p]["outputB"] # {}
  <2>1. safe[p]["outputB"] # {} => safe'[p]["outputB"] # {}
    BY FilesStay, Writes
  <2>2. CASE at[p] \in Sealing \cup Judging \/ p \in exposed
    BY <2>1, <2>2 DEF FileInv
  <2>3. CASE ~(at[p] \in Sealing \cup Judging \/ p \in exposed)
    <3>1. p \notin exposed'
      BY <2>3, Frames DEF LoadReference, Step, Judging
    <3>2. at'[p] \in Sealing \cup Judging => at[p] = "COMMIT" /\ turn[p] = 2
      BY <1>0, <2>3 DEF Stays, Arrives, Leaves, Sealing, Judging, PartialWrite, Over, Sealed, Recorded,
         ControlType
    <3>3. turn[p] = 2 => Output(Entrant(p)) = "outputB"
      BY TwoEntrants DEF Output
    <3>4. at[p] = "COMMIT" /\ turn[p] = 2 => safe[p]["outputB"] # {}
      BY <3>3 DEF FileInv
    <3> QED BY <2>1, <3>1, <3>2, <3>4
  <2> QED BY <2>2, <2>3
<1> QED BY <1>1, <1>2, <1>3, <1>4, <1>5, <1>6, <1>7 DEF FileInv

LEMMA StepFiles ==
  ASSUME ReplayType, MemoryType, NEW p \in Invocation, ControlType(p), DocType(p), TicketInv(p),
         FileInv(p), [Next]_vars
  PROVE  FileInv(p)'
<1>1. CASE SameRun(p)
  BY <1>1 DEF SameRun, FileInv, Entrant, SpentBy
<1>2. CASE SpoiledBytes(p)
  <2>1. \A f \in File : /\ disk'[p][f] = {} <=> disk[p][f] = {}
                        /\ safe'[p][f] = {} <=> safe[p][f] = {}
    BY <1>2, SpoiledBodies DEF SameBodies
  <2>2. /\ at'[p] = at[p] /\ part'[p] = part[p] /\ turn'[p] = turn[p] /\ exposed' = exposed
        /\ Entrant(p)' = Entrant(p) /\ SpentBy(p)' = SpentBy(p)
    BY <1>2 DEF SpoiledBytes, Entrant, SpentBy
  <2>3. Output(Entrant(p)) \in File
    BY Writes DEF Output
  <2>4. at[p] \in Write => Target[at[p]] \in File
    BY Writes
  <2> QED BY <2>1, <2>2, <2>3, <2>4, Writes DEF FileInv
<1>3. CASE Rebooted(p)
  <2>1. \A f \in File \ {"temporary"} : safe[p][f] # {} => disk'[p][f] # {} /\ safe'[p][f] # {}
    BY <1>3 DEF Rebooted, FileInv
  <2>2. /\ at'[p] \in Over \cup {"gate"} /\ part'[p] = "begin" /\ turn'[p] = turn[p]
        /\ exposed' = exposed /\ SpentBy(p)' = SpentBy(p) /\ safe'[p] = disk'[p]
    BY <1>3 DEF Rebooted, SpentBy, Over
  <2>3. at'[p] \notin {"STARTED", "readback", "COMMIT"} \cup Querying \cup Sealing \cup Judging
    BY <2>2, StagesApart DEF Over
  <2> QED BY <2>1, <2>2, <2>3, Writes DEF FileInv
<1> QED BY <1>1, <1>2, <1>3, ActFiles, StepOf DEF Acts

----------------------------------------------------------------------------
(* The stream of queries *)

\* A row of the stream: whose ticket it was, and what became of it.
LEMMA RowAdded ==
  ASSUME ReplayType, NEW p \in Invocation, ControlType(p), DocType(p), NEW f \in File,
         traces[p][Entrant(p)] # <<>>,
         \A d \in disk[p][f] : d.body \in Seq(Alias \X Outcome)
  PROVE  \A c \in WithRow(p, f) : /\ c.body \in Seq(Alias \X Outcome)
                                  /\ \E d \in disk[p][f] : Len(c.body) = Len(d.body) + 1
<1> DEFINE r == <<Entrant(p), Last(traces[p][Entrant(p)])>>
<1>1. r \in Alias \X Outcome
  <2>1. Entrant(p) \in Alias
    BY TwoEntrants DEF ControlType
  <2>2. traces[p][Entrant(p)] \in Seq(Outcome) /\ Len(traces[p][Entrant(p)]) \in Nat \ {0}
    BY <2>1, Tickets
  <2>3. Last(traces[p][Entrant(p)]) \in Outcome
    BY <2>2 DEF Last
  <2> QED BY <2>1, <2>3
<1>2. WithRow(p, f) = {[d EXCEPT !.body = Append(@, r)] : d \in disk[p][f]}
  BY DEF WithRow
<1> HIDE DEF r
<1>3. ASSUME NEW d \in disk[p][f]
      PROVE  [d EXCEPT !.body = Append(@, r)].body = Append(d.body, r)
  <2>1. IsDoc(d)
    BY DEF DocType
  <2> QED BY <2>1 DEF IsDoc
<1>4. ASSUME NEW s \in Seq(Alias \X Outcome)
      PROVE  Append(s, r) \in Seq(Alias \X Outcome) /\ Len(Append(s, r)) = Len(s) + 1
  BY <1>1
<1>5. ASSUME NEW c \in WithRow(p, f)
      PROVE  /\ c.body \in Seq(Alias \X Outcome)
             /\ \E d \in disk[p][f] : Len(c.body) = Len(d.body) + 1
  <2>1. PICK d \in disk[p][f] : c = [d EXCEPT !.body = Append(@, r)]
    BY <1>2, <1>5
  <2>2. c.body = Append(d.body, r)
    BY <1>3, <2>1
  <2> QED BY <1>4, <2>2
<1> QED BY <1>5

\* The lengths that the stream may have at an operation.
Due(p) == {"gate", "ledger"} \cup Opening \cup (Querying \ {"queryRow"})

\* The visible stream after a step.
LEMMA StreamAfter ==
  ASSUME ReplayType, MemoryType, NEW p \in Invocation, ControlType(p), DocType(p), TicketInv(p),
         StreamInv(p), Acts(p)
  PROVE  /\ \A d \in disk'[p]["queries"] : d.body \in Seq(Alias \X Outcome)
         /\ (disk'[p]["queries"] = disk[p]["queries"] /\ ~(AppendRow(p) /\ at[p] = "queryRow"))
               \/ (Replace(p) /\ at[p] = "queries0" /\ disk'[p]["queries"] = {Doc(<<>>)})
               \/ /\ AppendRow(p) /\ at[p] = "queryRow"
                  /\ \A d \in disk'[p]["queries"] : \E c \in disk[p]["queries"] :
                        Len(d.body) = Len(c.body) + 1
<1>0. \A d \in disk[p]["queries"] : d.body \in Seq(Alias \X Outcome)
  BY DEF StreamInv, Stream
<1>1. CASE disk' = disk /\ ~AppendRow(p)
  BY <1>0, <1>1
<1>2. CASE FillTemporary(p)
  <2>1. at[p] # "queryRow"
    BY <1>2, Writes DEF FillTemporary
  <2> QED BY <1>0, <1>2, <2>1, DiskAfter, Writes
<1>3. CASE Replace(p)
  <2>1. CASE at[p] = "queries0"
    <3>1. disk'[p]["queries"] = {Doc(<<>>)}
      <4>1. disk[p]["temporary"] = {Doc(<<>>)}
        BY <1>3, <2>1 DEF Replace, StreamInv
      <4>2. at[p] \in Write /\ Target[at[p]] = "queries"
        BY <2>1, Writes
      <4> QED BY <1>3, <4>1, <4>2, DiskAfter
    <3>2. Doc(<<>>).body \in Seq(Alias \X Outcome)
      BY DEF Doc
    <3> QED BY <1>3, <2>1, <3>1, <3>2
  <2>2. CASE at[p] # "queries0"
    <3>1. Target[at[p]] # "queries" /\ at[p] # "queryRow"
      BY <1>3, <2>2, Writes DEF Replace
    <3> QED BY <1>0, <1>3, <3>1, DiskAfter, Writes
  <2> QED BY <2>1, <2>2
<1>4. CASE AppendRow(p)
  <2>1. CASE at[p] = "queryRow"
    <3>1. disk'[p]["queries"] = WithRow(p, "queries")
      BY <1>4, <2>1, DiskAfter
    <3>2. traces[p][Entrant(p)] # <<>> /\ "queries" \in File
      BY <2>1, Writes DEF TicketInv
    <3>3. \A c \in WithRow(p, "queries") : /\ c.body \in Seq(Alias \X Outcome)
                                  /\ \E d \in disk[p]["queries"] : Len(c.body) = Len(d.body) + 1
      BY <1>0, <3>2, RowAdded
    <3> QED BY <1>4, <2>1, <3>1, <3>3
  <2>2. CASE at[p] # "queryRow"
    BY <1>0, <1>4, <2>2, DiskAfter, Writes
  <2> QED BY <2>1, <2>2
<1> QED BY <1>1, <1>2, <1>3, <1>4, Frames

\* The stream and the tickets after a step.
Lengths(p, n, D, S) ==
    /\ n > 0 => \A d \in D \cup S : Len(d.body) \in {n - 1, n}
    /\ at'[p] \in Due(p) => \A d \in D \cup S : Len(d.body) = n
    /\ at'[p] = "queryRow" => /\ \A d \in S : Len(d.body) = n - 1
                              /\ part'[p] = "sync" => \A d \in D : Len(d.body) = n
                              /\ part'[p] # "sync" => \A d \in D : Len(d.body) = n - 1

LEMMA ActStream ==
  ASSUME ReplayType, MemoryType, NEW p \in Invocation, ControlType(p), DocType(p), TicketInv(p),
         StreamInv(p), FileInv(p), Acts(p)
  PROVE  StreamInv(p)'
<1>0. /\ at[p] \notin Over
      /\ Stays(p) \/ (part'[p] = "begin" /\ (Arrives(p) \/ Leaves(p)))
  BY Arrivals DEF Acted
<1>1. safe'[p] = safe[p] \/ (safe'[p] = disk[p] /\ disk' = disk)
  BY Frames, SafeAfter
<1>2. /\ \A d \in disk[p]["queries"] \cup safe[p]["queries"] : d.body \in Seq(Alias \X Outcome) /\ Len(d.body) \in Nat
      /\ \A d \in disk'[p]["queries"] \cup safe'[p]["queries"] : d.body \in Seq(Alias \X Outcome) /\ Len(d.body) \in Nat
  <2>1. \A d \in disk'[p]["queries"] : d.body \in Seq(Alias \X Outcome)
    BY StreamAfter
  <2>2. \A d \in disk[p]["queries"] \cup safe[p]["queries"] : d.body \in Seq(Alias \X Outcome)
    BY DEF StreamInv, Stream
  <2>3. \A s \in Seq(Alias \X Outcome) : Len(s) \in Nat
    OBVIOUS
  <2> QED BY <1>1, <2>1, <2>2, <2>3
<1>3. at'[p] = "queries0" /\ part'[p] = "replace" => disk'[p]["temporary"] = {Doc(<<>>)}
  <2>1. FillTemporary(p) => disk'[p]["temporary"] = {Doc(Content(p))}
    BY DiskAfter
  <2>2. at[p] = "queries0" => Content(p) = <<>>
    BY DEF Content, PartialWrite
  <2> QED BY <1>0, <2>1, <2>2 DEF Stays
<1>4. SpentBy(p) \in Nat /\ (SpentBy(p)' = SpentBy(p) \/ (at[p] = "search" /\ SpentBy(p)' = SpentBy(p) + 1))
  BY SpentGrows
<1>5. safe[p]["queries"] # {} => safe'[p]["queries"] # {}
  BY FilesStay, Writes
<1>6. at'[p] \in {"results0", "start", "STARTED"} \cup Querying => safe'[p]["queries"] # {}
  <2> SUFFICES ASSUME at'[p] \in {"results0", "start", "STARTED"} \cup Querying
               PROVE  safe'[p]["queries"] # {}
    OBVIOUS
  <2>1. CASE at[p] \in {"results0", "start", "STARTED"} \cup Querying
    BY <1>5, <2>1 DEF StreamInv
  <2>2. CASE at[p] \notin {"results0", "start", "STARTED"} \cup Querying
    <3>1. Sealed(p, "queries0")
      BY <1>0, <2>2 DEF Stays, Arrives, Leaves, Querying, PartialWrite, Over, Sealed, Recorded
    <3>2. disk[p]["queries"] # {}
      BY <3>1, Writes DEF Sealed, FileInv, Target
    <3> QED BY <3>1, <3>2, FilesStay, Writes DEF Sealed
  <2> QED BY <2>1, <2>2
<1>7. SpentBy(p)' > 0 => safe'[p]["queries"] # {}
  <2>1. SpentBy(p)' > 0 => SpentBy(p) > 0 \/ at[p] = "search"
    BY <1>4
  <2> QED BY <1>5, <2>1 DEF StreamInv, Querying
<1> DEFINE n == SpentBy(p)
           D == disk[p]["queries"]
           S == safe[p]["queries"]
           E == disk'[p]["queries"]
           T == safe'[p]["queries"]
<1>8. /\ n > 0 => \A d \in D \cup S : Len(d.body) \in {n - 1, n}
      /\ at[p] \in Due(p) => \A d \in D \cup S : Len(d.body) = n
      /\ at[p] = "queryRow" => /\ \A d \in S : Len(d.body) = n - 1
                               /\ part[p] = "sync" => \A d \in D : Len(d.body) = n
                               /\ part[p] # "sync" => \A d \in D : Len(d.body) = n - 1
  BY DEF StreamInv, Stream, Due
<1>9. \/ E = D /\ ~(AppendRow(p) /\ at[p] = "queryRow")
      \/ Replace(p) /\ at[p] = "queries0" /\ E = {Doc(<<>>)}
      \/ /\ AppendRow(p) /\ at[p] = "queryRow"
         /\ \A d \in E : \E c \in D : Len(d.body) = Len(c.body) + 1
  BY StreamAfter
<1>10. T = S \/ (T = D /\ E = D)
  BY <1>1
<1>11. Lengths(p, n', E, T)
  <2>1. CASE \E outcome \in Outcome : Search(p, outcome)
    <3>1. /\ at[p] = "search" /\ at'[p] = "queryRow" /\ part'[p] = "begin" /\ n' = n + 1
          /\ E = D /\ T = S
      BY <2>1, PlacesAfterRun, SearchTickets DEF Goes, Search, files
    <3>2. \A d \in D \cup S : Len(d.body) = n
      BY <1>8, <3>1 DEF Due, Querying
    <3>3. at'[p] \notin Due(p) /\ n' - 1 = n
      BY <1>4, <3>1 DEF Due, Opening, Querying
    <3> HIDE DEF n, D, S, E, T
    <3> QED BY <3>1, <3>2, <3>3 DEF Lengths
  <2>2. ASSUME n' = n, AppendRow(p), at[p] = "queryRow",
               \A d \in E : \E c \in D : Len(d.body) = Len(c.body) + 1
        PROVE  Lengths(p, n', E, T)
    <3>1. /\ at'[p] = "queryRow" /\ part[p] = "begin" /\ part'[p] = "sync" /\ T = S
      BY <2>2 DEF AppendRow, ReplayType
    <3>2. \A d \in S : Len(d.body) = n - 1
      BY <1>8, <2>2
    <3>3. \A d \in E : Len(d.body) = n
      <4>1. \A d \in D : Len(d.body) = n - 1
        BY <1>8, <2>2, <3>1
      <4>2. \A m \in Nat : (m - 1) + 1 = m
        OBVIOUS
      <4> HIDE DEF n, D, S, E, T
      <4> QED BY <1>4, <2>2, <4>1, <4>2 DEF n
    <3>4. at'[p] \notin Due(p)
      BY <3>1 DEF Due, Opening, Querying
    <3> HIDE DEF n, D, S, E, T
    <3> QED BY <2>2, <3>1, <3>2, <3>3, <3>4 DEF Lengths
  <2>3. ASSUME n' = n, QueryRecorded(p) PROVE Lengths(p, n', E, T)
    <3>1. /\ at[p] = "queryRow" /\ part[p] = "sync" /\ at'[p] # "queryRow"
      BY <1>0, <2>3, PlacesAfterRun DEF Stays, Arrives, Leaves, Sealed, Recorded, PartialWrite, Over,
         QueryRecorded, FillTemporary, CreateLedger, Replace, AppendRow, JournalRow, Step, Journal
    <3>2. E = D /\ T = D /\ \A d \in D : Len(d.body) = n
      BY <1>8, <2>3, <3>1, SafeAfter
    <3> HIDE DEF n, D, S, E, T
    <3> QED BY <2>3, <3>1, <3>2 DEF Lengths
  <2>4. ASSUME n' = n, Replace(p), at[p] = "queries0", E = {Doc(<<>>)} PROVE Lengths(p, n', E, T)
    <3>1. at'[p] = "queries0" /\ safe' = safe
      BY <2>4 DEF Replace
    <3>2. n = 0
      <4>1. traces[p]["A"] = <<>> /\ traces[p]["B"] = <<>>
        BY <2>4 DEF TicketInv, Opening
      <4> QED BY <4>1 DEF SpentBy
    <3>3. \A d \in S : Len(d.body) = n
      BY <1>8, <2>4 DEF Due, Opening
    <3>4. \A d \in E : Len(d.body) = 0
      BY <2>4 DEF Doc
    <3>5. T = S
      BY <3>1
    <3> HIDE DEF n, D, S, E, T
    <3> QED BY <2>4, <3>1, <3>2, <3>3, <3>4, <3>5 DEF Lengths
  <2>5. ASSUME n' = n, E = D, ~QueryRecorded(p), ~\E outcome \in Outcome : Search(p, outcome),
               ~(AppendRow(p) /\ at[p] = "queryRow")
        PROVE  Lengths(p, n', E, T)
    <3>1. \A d \in E \cup T : d \in D \cup S
      BY <1>10, <2>5
    <3>2. at'[p] # "queryRow"
      BY <1>0, <2>5, Writes DEF Stays, Arrives, Leaves, Sealed, Recorded, PartialWrite, Over,
         FillTemporary, CreateLedger, Replace, JournalRow, Step, Journal
    <3>3. at'[p] \in Due(p) => at[p] \in Due(p)
      BY <1>0, <2>5 DEF Stays, Arrives, Leaves, Sealed, Recorded, PartialWrite, Over, Due, Opening,
         Querying
    <3> HIDE DEF n, D, S, E, T
    <3> QED BY <1>8, <2>5, <3>1, <3>2, <3>3 DEF Lengths
  <2>6. ~(\E outcome \in Outcome : Search(p, outcome)) => n' = n
    BY Frames DEF SpentBy
  <2> QED BY <1>9, <2>1, <2>2, <2>3, <2>4, <2>5, <2>6
<1> QED BY <1>2, <1>3, <1>6, <1>7, <1>11 DEF Lengths, StreamInv, Stream, Due

LEMMA StepStream ==
  ASSUME ReplayType, MemoryType, NEW p \in Invocation, ControlType(p), DocType(p), TicketInv(p),
         StreamInv(p), FileInv(p), [Next]_vars
  PROVE  StreamInv(p)'
<1>1. CASE SameRun(p)
  BY <1>1 DEF SameRun, StreamInv, Stream, SpentBy
<1>2. CASE SpoiledBytes(p)
  <2>1. /\ \A d \in disk'[p]["queries"] : \E c \in disk[p]["queries"] : d.body = c.body
        /\ \A d \in safe'[p]["queries"] : \E c \in safe[p]["queries"] : d.body = c.body
        /\ safe'[p]["queries"] = {} <=> safe[p]["queries"] = {}
    BY <1>2, SpoiledBodies, Writes DEF SameBodies
  <2>2. disk'[p]["temporary"] = disk[p]["temporary"]
    BY <1>2, Writes DEF SpoiledBytes, FormalFiles
  <2>3. at'[p] = at[p] /\ part'[p] = part[p] /\ SpentBy(p)' = SpentBy(p)
    BY <1>2 DEF SpoiledBytes, SpentBy
  <2> QED BY <2>1, <2>2, <2>3 DEF StreamInv, Stream
<1>3. CASE Rebooted(p)
  <2>1. /\ safe'[p] = disk'[p] /\ disk'[p]["queries"] \in {disk[p]["queries"], safe[p]["queries"]}
        /\ SpentBy(p)' = SpentBy(p) /\ at'[p] \in Over \cup {"gate"}
    BY <1>3, Writes DEF Rebooted, SpentBy, Over
  <2>2. safe[p]["queries"] # {} => disk[p]["queries"] # {}
    BY Writes DEF FileInv
  <2>3. at'[p] = "gate" => at[p] = "gate"
    BY <1>3 DEF Rebooted
  <2>4. at'[p] \notin Opening \cup Querying \cup {"ledger"}
    <3>1. at'[p] \notin Opening \cup Querying
      BY <2>1 DEF Over, Opening, Querying
    <3> QED BY <2>1, <3>1 DEF Over
  <2>5. \A d \in disk'[p]["queries"] \cup safe'[p]["queries"] : d \in Stream(p)
    BY <2>1 DEF Stream
  <2> QED BY <2>1, <2>2, <2>3, <2>4, <2>5 DEF StreamInv, Stream, Opening, Querying
<1> QED BY <1>1, <1>2, <1>3, ActStream, StepOf DEF Acts

----------------------------------------------------------------------------
(* The records of the sidecar *)

Begun(rows) == rows # <<>> /\ EventsOf(rows)[1] = "STARTED"

\* Only its owner writes in a sidecar.
LEMMA LedgerKept ==
  ASSUME ReplayInv, NEW p \in Invocation, NEW q \in Invocation, q # p, Acts(q),
         \E l \in ledger \cup ledgerSafe : l.by = p
  PROVE  ledger' = ledger /\ ledgerSafe' = ledgerSafe
<1>1. ledger # {}
  BY DEF ReplayInv, OwnerInv
<1>2. ASSUME at[q] \notin Early \/ (at[q] = "ledger" /\ part[q] = "sync") PROVE FALSE
  BY <1>2 DEF ReplayInv, OwnerInv
<1>3. ~CreateLedger(q)
  BY <1>1 DEF CreateLedger
<1>4. ~JournalRow(q) /\ ~SyncLedger(q) /\ ~SyncJournal(q)
  BY <1>2 DEF JournalRow, SyncLedger, SyncJournal, Journal, Early
<1> QED BY <1>3, <1>4, Frames

\* An invocation with something to tell owns the sidecar.
LEMMA TellerOwns ==
  ASSUME ReplayInv, NEW p \in Invocation, JournalInv(p),
         at[p] \in Working \/ (at[p] = "ledger" /\ part[p] = "sync") \/ SpentBy(p) > 0 \/ p \in exposed
  PROVE  \E l \in ledger \cup ledgerSafe : l.by = p
<1>1. CASE at[p] \in Working
  BY <1>1 DEF ReplayInv, OwnerInv, Early, Working, Opening, Querying, Sealing, Judging
<1>2. CASE at[p] = "ledger" /\ part[p] = "sync"
  BY <1>2 DEF ReplayInv, OwnerInv
<1>3. CASE SpentBy(p) > 0
  <2>1. \E a \in Alias : traces[p][a] # <<>>
    <3>1. traces[p]["A"] = <<>> /\ traces[p]["B"] = <<>> => SpentBy(p) = 0
      BY DEF SpentBy
    <3>2. "A" \in Alias /\ "B" \in Alias
      BY TwoEntrants
    <3> QED BY <1>3, <3>1, <3>2
  <2> QED BY <2>1 DEF ReplayInv, OwnerInv
<1>4. CASE p \in exposed
  BY <1>4 DEF JournalInv
<1> QED BY <1>1, <1>2, <1>3, <1>4

\* The stage of an invocation decides what the sidecar tells.
LEMMA Telling ==
  ASSUME NEW p \in Invocation
  PROVE  /\ at[p] \in Opening => Told(p) = <<>>
         /\ at[p] \in Querying /\ turn[p] = 1 => Told(p) = <<"STARTED">>
         /\ at[p] \in Querying /\ turn[p] = 2 => Told(p) = <<"STARTED", "COMMIT">>
         /\ at[p] \in Sealing => Told(p) = <<"STARTED", "COMMIT", "COMMIT">>
         /\ at[p] \in Judging => Told(p) = Loaded
<1>1. at[p] \in Opening => Told(p) = <<>>
  BY StagesApart DEF Told
<1>2. at[p] \in Querying /\ turn[p] = 1 => Told(p) = <<"STARTED">>
  BY StagesApart DEF Told
<1>3. at[p] \in Querying /\ turn[p] = 2 => Told(p) = <<"STARTED", "COMMIT">>
  BY StagesApart DEF Told
<1>4. at[p] \in Sealing => Told(p) = <<"STARTED", "COMMIT", "COMMIT">>
  <2>1. at[p] \in Sealing => at[p] \notin Opening /\ at[p] \notin Querying /\ at[p] \notin Judging
    BY DEF Opening, Querying, Sealing, Judging
  <2> QED BY <2>1 DEF Told
<1>5. at[p] \in Judging => Told(p) = Loaded
  <2>1. at[p] \in Judging => at[p] \notin Opening /\ at[p] \notin Querying /\ at[p] \notin Sealing
    BY DEF Opening, Querying, Sealing, Judging
  <2> QED BY <2>1 DEF Told
<1> QED BY <1>1, <1>2, <1>3, <1>4, <1>5

\* The same, of the next state.
LEMMA TellingNext ==
  ASSUME NEW p \in Invocation
  PROVE  /\ at'[p] \in Opening => Told(p)' = <<>>
         /\ at'[p] \in Querying /\ turn'[p] = 1 => Told(p)' = <<"STARTED">>
         /\ at'[p] \in Querying /\ turn'[p] = 2 => Told(p)' = <<"STARTED", "COMMIT">>
         /\ at'[p] \in Sealing => Told(p)' = <<"STARTED", "COMMIT", "COMMIT">>
         /\ at'[p] \in Judging => Told(p)' = Loaded
<1>1. at'[p] \in Opening => Told(p)' = <<>>
  BY StagesApart DEF Told
<1>2. at'[p] \in Querying /\ turn'[p] = 1 => Told(p)' = <<"STARTED">>
  BY StagesApart DEF Told
<1>3. at'[p] \in Querying /\ turn'[p] = 2 => Told(p)' = <<"STARTED", "COMMIT">>
  BY StagesApart DEF Told
<1>4. at'[p] \in Sealing => Told(p)' = <<"STARTED", "COMMIT", "COMMIT">>
  <2>1. at'[p] \in Sealing => at'[p] \notin Opening /\ at'[p] \notin Querying /\ at'[p] \notin Judging
    BY DEF Opening, Querying, Sealing, Judging
  <2> QED BY <2>1 DEF Told
<1>5. at'[p] \in Judging => Told(p)' = Loaded
  <2>1. at'[p] \in Judging => at'[p] \notin Opening /\ at'[p] \notin Querying /\ at'[p] \notin Sealing
    BY DEF Opening, Querying, Sealing, Judging
  <2> QED BY <2>1 DEF Told
<1> QED BY <1>1, <1>2, <1>3, <1>4, <1>5

\* The record that is synchronised is the one the next stage presupposes.
LEMMA ToldNext ==
  ASSUME ReplayType, MemoryType, NEW p \in Invocation, ControlType(p), TicketInv(p), SyncJournal(p),
         at'[p] \in Working
  PROVE  Told(p)' = Append(Told(p), at[p])
<1>1. /\ Arrives(p) /\ at[p] \in Journal /\ turn[p] \in {1, 2}
      /\ turn'[p] = (IF at[p] = "COMMIT" /\ turn[p] = 1 THEN 2 ELSE turn[p])
  <2>1. Acted(p)
    BY Arrivals DEF Acts, Run
  <2>2. ~Stays(p)
    BY Writes DEF Stays, SyncJournal, CreateLedger, FillTemporary, Replace, AppendRow, JournalRow, Step,
       Append1, Journal
  <2>3. ~Leaves(p)
    BY DEF Leaves, PartialWrite, Over, Working, Opening, Querying, Sealing, Judging
  <2> QED BY <2>1, <2>2, <2>3 DEF Acted, SyncJournal, MemoryType, ControlType
<1>2. \/ at[p] = "STARTED" /\ at'[p] = "search"
      \/ at[p] = "COMMIT" /\ turn[p] = 1 /\ at'[p] = "search"
      \/ at[p] = "COMMIT" /\ turn[p] = 2 /\ at'[p] = "receipts"
      \/ at[p] = "REFERENCE_LOAD" /\ at'[p] = "load"
  BY <1>1 DEF Arrives, Journal, Sealed, Recorded
<1>3. CASE at[p] = "STARTED" /\ at'[p] = "search"
  <2>1. turn[p] = 1 /\ turn'[p] = 1
    BY <1>1, <1>3 DEF TicketInv, Opening
  <2>2. Told(p) = <<>> /\ Told(p)' = <<"STARTED">>
    BY <1>3, <2>1, Telling, TellingNext DEF Opening, Querying
  <2> QED BY <1>3, <2>2, Chronicle
<1>4. CASE at[p] = "COMMIT" /\ turn[p] = 1 /\ at'[p] = "search"
  <2>2. Told(p) = <<"STARTED">> /\ Told(p)' = <<"STARTED", "COMMIT">>
    BY <1>1, <1>4, Telling, TellingNext DEF Querying
  <2> QED BY <1>4, <2>2, Chronicle
<1>5. CASE at[p] = "COMMIT" /\ turn[p] = 2 /\ at'[p] = "receipts"
  <2>2. Told(p) = <<"STARTED", "COMMIT">> /\ Told(p)' = <<"STARTED", "COMMIT", "COMMIT">>
    BY <1>1, <1>5, Telling, TellingNext DEF Querying, Sealing
  <2> QED BY <1>5, <2>2, Chronicle
<1>6. CASE at[p] = "REFERENCE_LOAD" /\ at'[p] = "load"
  <2>2. Told(p) = <<"STARTED", "COMMIT", "COMMIT">> /\ Told(p)' = Loaded
    BY <1>6, Telling, TellingNext DEF Sealing, Judging
  <2> QED BY <1>6, <2>2, Chronicle DEF Loaded
<1> QED BY <1>2, <1>3, <1>4, <1>5, <1>6

\* Moving on within a stage tells nothing new.
LEMMA ToldStays ==
  ASSUME ReplayType, MemoryType, NEW p \in Invocation, ControlType(p), Acts(p),
         at'[p] \in Working, ~SyncLedger(p), ~SyncJournal(p)
  PROVE  at[p] \in Working /\ Told(p)' = Told(p)
<1>1. /\ Stays(p) \/ Arrives(p)
      /\ turn' = turn /\ turn[p] \in {1, 2}
  <2>1. ~Leaves(p)
    BY StagesApart DEF Leaves, Working
  <2>2. turn' = turn
    BY Frames
  <2> QED BY <2>1, <2>2, Arrivals DEF Acted, ControlType
<1>2. \/ at'[p] = at[p]
      \/ at[p] \in Opening /\ at'[p] \in Opening
      \/ at[p] \in Querying /\ at'[p] \in Querying
      \/ at[p] \in Sealing /\ at'[p] \in Sealing
      \/ at[p] \in Judging /\ at'[p] \in Judging
  <2>1. CASE Stays(p)
    BY <2>1 DEF Stays
  <2>2. CASE Arrives(p)
    BY <2>2 DEF Arrives, Sealed, Recorded, Opening, Querying, Sealing, Judging, Working
  <2> QED BY <1>1, <2>1, <2>2
<1>3. at[p] \in Working
  BY <1>2 DEF Working
<1>4. CASE at'[p] = at[p]
  BY <1>1, <1>4 DEF Told
<1>5. CASE at[p] \in Opening /\ at'[p] \in Opening
  BY <1>3, <1>5, Telling, TellingNext
<1>6. CASE at[p] \in Querying /\ at'[p] \in Querying
  BY <1>1, <1>3, <1>6, Telling, TellingNext
<1>7. CASE at[p] \in Sealing /\ at'[p] \in Sealing
  BY <1>3, <1>7, Telling, TellingNext
<1>8. CASE at[p] \in Judging /\ at'[p] \in Judging
  BY <1>3, <1>8, Telling, TellingNext
<1> QED BY <1>2, <1>3, <1>4, <1>5, <1>6, <1>7, <1>8

\* What the sidecar tells of an invocation that is past it.
Chronicled(p) ==
    /\ \A l \in ledgerSafe : EventsOf(l.rows) = Told(p)
    /\ \A l \in ledger : EventsOf(l.rows) =
           IF at[p] \in Journal /\ part[p] = "sync" THEN Append(Told(p), at[p]) ELSE Told(p)
    /\ ledger = ledgerSafe \/ (at[p] \in Journal /\ part[p] = "sync")

LEMMA ActChronicle ==
  ASSUME ReplayInv, MemoryType, RowsType, NEW p \in Invocation, ControlType(p), TicketInv(p),
         JournalInv(p), Acts(p), at'[p] \in Working
  PROVE  Chronicled(p)'
<1>0. /\ ReplayType /\ LedgerType
      /\ Stays(p) \/ (part'[p] = "begin" /\ (Arrives(p) \/ Leaves(p)))
  BY Arrivals DEF Acted, ReplayInv
<1>1. at[p] \in Working => Chronicled(p)
  BY DEF JournalInv, Chronicled
<1>2. CASE SyncLedger(p)
  <2>1. /\ at[p] = "ledger" /\ part[p] = "sync" /\ at'[p] = "directory" /\ part'[p] = "begin"
        /\ ledger' = ledger /\ ledgerSafe' = ledger
    BY <1>0, <1>2, PlacesInRun DEF Goes, SyncLedger
  <2>2. \A l \in ledger : l.rows = <<>>
    BY <2>1 DEF JournalInv
  <2>3. EventsOf(<<>>) = <<>>
    BY DEF EventsOf
  <2>4. Told(p)' = <<>> /\ at'[p] \notin Journal
    BY <2>1, TellingNext DEF Opening, Journal
  <2> QED BY <2>1, <2>2, <2>3, <2>4 DEF Chronicled
<1>3. CASE JournalRow(p)
  <2>1. /\ at[p] \in Journal /\ part[p] = "begin" /\ at'[p] = at[p] /\ part'[p] = "sync"
        /\ ledgerSafe' = ledgerSafe /\ ~SyncLedger(p) /\ ~SyncJournal(p)
    BY <1>0, <1>3 DEF JournalRow, SyncLedger, SyncJournal, ReplayType
  <2>2. at[p] \in Working /\ Told(p)' = Told(p)
    BY <1>0, <2>1, ToldStays
  <2>3. /\ \A l \in ledgerSafe : EventsOf(l.rows) = Told(p)
        /\ \A l \in ledger : EventsOf(l.rows) = Told(p)
    BY <1>1, <2>1, <2>2 DEF Chronicled
  <2>4. ASSUME NEW m \in ledger' PROVE EventsOf(m.rows) = Append(Told(p), at[p])
    <3>1. PICK l \in ledger : EventsOf(m.rows) = Append(EventsOf(l.rows), at[p])
      BY <1>0, <1>3, <2>4, RecordAppended
    <3> QED BY <2>3, <3>1
  <2> QED BY <2>1, <2>2, <2>3, <2>4 DEF Chronicled
<1>4. CASE SyncJournal(p)
  <2>1. /\ at[p] \in Journal /\ part[p] = "sync" /\ ledger' = ledger /\ ledgerSafe' = ledger
        /\ at[p] \in Working
    BY <1>4 DEF SyncJournal, Journal, Working, Opening, Querying, Sealing, Judging
  <2>2. part'[p] = "begin"
    <3>1. ~Stays(p)
      BY <1>4, Writes DEF Stays, SyncJournal, CreateLedger, FillTemporary, Replace, AppendRow,
         JournalRow, Step, Append1, Journal
    <3> QED BY <1>0, <3>1
  <2>3. Told(p)' = Append(Told(p), at[p])
    BY <1>0, <1>4, ToldNext
  <2>4. \A l \in ledger : EventsOf(l.rows) = Append(Told(p), at[p])
    BY <1>1, <2>1 DEF Chronicled
  <2> QED BY <2>1, <2>2, <2>3, <2>4 DEF Chronicled
<1>5. CASE ~SyncLedger(p) /\ ~SyncJournal(p) /\ ~JournalRow(p)
  <2>1. at[p] \in Working /\ Told(p)' = Told(p)
    BY <1>0, <1>5, ToldStays
  <2>2. ledgerSafe' = ledgerSafe /\ ledger' = ledger
    <3>1. ~CreateLedger(p)
      BY <2>1 DEF CreateLedger, Step, Working, Opening, Querying, Sealing, Judging
    <3> QED BY <1>5, <3>1, Frames
  <2>3. ~(at[p] \in Journal /\ part[p] = "sync") /\ ~(at'[p] \in Journal /\ part'[p] = "sync")
    <3>1. ~Leaves(p)
      BY StagesApart DEF Leaves, Working
    <3>2. CASE Stays(p)
      BY <1>5, <2>1, <3>2, Writes DEF Stays, CreateLedger, FillTemporary, Replace, AppendRow, Step,
         Append1, Journal
    <3>3. CASE Arrives(p) /\ part'[p] = "begin"
      BY <1>5, <3>3 DEF Arrives, Sealed, Recorded, Journal
    <3> QED BY <1>0, <3>1, <3>2, <3>3
  <2>4. /\ \A l \in ledgerSafe : EventsOf(l.rows) = Told(p)
        /\ \A l \in ledger : EventsOf(l.rows) = Told(p)
        /\ ledger = ledgerSafe
    BY <1>1, <2>1, <2>3 DEF Chronicled
  <2> QED BY <2>1, <2>2, <2>3, <2>4 DEF Chronicled
<1> QED BY <1>2, <1>3, <1>4, <1>5

\* Whoever spent a ticket began with a STARTED record.
LEMMA ActBegun ==
  ASSUME ReplayInv, MemoryType, RowsType, NEW p \in Invocation, ControlType(p), TicketInv(p),
         JournalInv(p), Acts(p), SpentBy(p)' > 0
  PROVE  \A l \in ledger' \cup ledgerSafe' : Begun(l.rows)
<1>0. ReplayType /\ LedgerType
  BY DEF ReplayInv
<1>1. \A l \in ledger \cup ledgerSafe : Begun(l.rows)
  <2>1. CASE SpentBy(p) > 0
    BY <2>1 DEF JournalInv, Begun
  <2>2. CASE at[p] = "search"
    <3>1. /\ at[p] \in Working /\ at[p] \notin Journal /\ turn[p] \in {1, 2}
      BY <2>2 DEF Working, Querying, Journal, ControlType
    <3>2. Told(p) \in {<<"STARTED">>, <<"STARTED", "COMMIT">>}
      BY <2>2, <3>1, Telling DEF Querying
    <3>3. Told(p)[1] = "STARTED" /\ Told(p) # <<>>
      BY <3>2
    <3>4. ASSUME NEW l \in ledger \cup ledgerSafe PROVE Begun(l.rows)
      <4>1. EventsOf(l.rows) = Told(p)
        BY <3>1, <3>4 DEF JournalInv
      <4>2. EventsOf(<<>>) = <<>>
        BY DEF EventsOf
      <4> QED BY <3>3, <4>1, <4>2 DEF Begun
    <3> QED BY <3>4
  <2> QED BY <1>0, <2>1, <2>2, SpentGrows
<1>2. ~CreateLedger(p)
  <2>1. at[p] = "ledger" => SpentBy(p)' = 0
    <3>1. at[p] = "ledger" => traces[p]["A"] = <<>> /\ traces[p]["B"] = <<>>
      BY DEF TicketInv
    <3>2. traces[p]["A"] = <<>> /\ traces[p]["B"] = <<>> => SpentBy(p) = 0
      BY DEF SpentBy
    <3> QED BY <1>0, <3>1, <3>2, SpentGrows
  <2> QED BY <2>1 DEF CreateLedger, Step
<1>3. CASE JournalRow(p)
  <2>1. ledgerSafe' = ledgerSafe
    BY <1>3 DEF JournalRow
  <2>2. ASSUME NEW m \in ledger' PROVE Begun(m.rows)
    <3>1. PICK l \in ledger : /\ m.rows = Append(l.rows, LedgerRecord(p)) /\ IsRows(l.rows)
                              /\ EventsOf(m.rows) = Append(EventsOf(l.rows), at[p]) /\ m.rows # <<>>
      BY <1>0, <1>3, <2>2, RecordAppended
    <3>2. Begun(l.rows)
      BY <1>1
    <3>3. EventsOf(m.rows)[1] = EventsOf(l.rows)[1]
      <4>1. /\ DOMAIN l.rows = 1..Len(l.rows) /\ Len(l.rows) \in Nat
            /\ DOMAIN m.rows = 1..(Len(l.rows) + 1)
            /\ \A i \in 1..Len(l.rows) : m.rows[i] = l.rows[i]
        BY <3>1, AppendedRows
      <4>2. 1 \in 1..Len(l.rows)
        <5>1. l.rows # <<>>
          BY <3>2 DEF Begun
        <5>2. \A s : IsRows(s) /\ Len(s) = 0 => s = <<>>
          BY DEF IsRows
        <5> QED BY <3>1, <4>1, <5>1, <5>2
      <4>3. 1 \in DOMAIN l.rows /\ 1 \in DOMAIN m.rows /\ m.rows[1] = l.rows[1]
        BY <4>1, <4>2
      <4> QED BY <4>3 DEF EventsOf
    <3> QED BY <3>1, <3>2, <3>3 DEF Begun
  <2> QED BY <1>1, <2>1, <2>2
<1>4. CASE ~JournalRow(p)
  <2>1. ledger' = ledger /\ (ledgerSafe' = ledgerSafe \/ ledgerSafe' = ledger)
    BY <1>2, <1>4, Frames DEF SyncLedger, SyncJournal
  <2> QED BY <1>1, <2>1
<1> QED BY <1>3, <1>4

\* Whoever read the labels did so after both commits, and on the record.
LEMMA ActExposed ==
  ASSUME ReplayInv, MemoryType, RowsType, NEW p \in Invocation, ControlType(p), TicketInv(p),
         JournalInv(p), Acts(p), p \in exposed'
  PROVE  /\ at'[p] \in (Judging \ {"load"}) \cup PartialWrite \cup Over
         /\ \E l \in ledgerSafe' : l.by = p
         /\ \A l \in ledger' \cup ledgerSafe' :
                EventsOf(l.rows) \in {Loaded, Append(Loaded, "HARD_GATE_FAILURE")}
<1>0. /\ ReplayType /\ LedgerType /\ at[p] \notin Over
      /\ Stays(p) \/ (part'[p] = "begin" /\ (Arrives(p) \/ Leaves(p)))
  BY Arrivals DEF Acted, ReplayInv
<1>1. CASE LoadReference(p)
  <2>1. /\ at[p] = "load" /\ at'[p] = "audit" /\ ledger' = ledger /\ ledgerSafe' = ledgerSafe
    BY <1>0, <1>1, PlacesInRun DEF Goes, LoadReference, sidecar
  <2>2. at[p] \in Working /\ at[p] \notin Early /\ at[p] \notin Journal /\ at[p] \in Judging
    BY <2>1 DEF Working, Judging, Early, Journal
  <2>3. \E l \in ledgerSafe : l.by = p
    BY <2>2 DEF ReplayInv, OwnerInv
  <2>4. Told(p) = Loaded
    BY <2>2, Telling
  <2>5. \A l \in ledger \cup ledgerSafe : EventsOf(l.rows) = Loaded
    BY <2>2, <2>4 DEF JournalInv
  <2> QED BY <2>1, <2>3, <2>5 DEF Judging
<1>2. CASE ~LoadReference(p)
  <2>1. /\ p \in exposed /\ at[p] \in (Judging \ {"load"}) \cup PartialWrite
        /\ \E l \in ledgerSafe : l.by = p
        /\ \A l \in ledger \cup ledgerSafe :
               EventsOf(l.rows) \in {Loaded, Append(Loaded, "HARD_GATE_FAILURE")}
    BY <1>0, <1>2, Frames DEF JournalInv
  <2>2. at'[p] \in (Judging \ {"load"}) \cup PartialWrite \cup Over
    <3>1. CASE Stays(p)
      BY <2>1, <3>1 DEF Stays
    <3>2. CASE Leaves(p)
      BY <3>2 DEF Leaves
    <3>3. CASE Arrives(p)
      BY <2>1, <3>3 DEF Arrives, Sealed, Recorded, Judging, PartialWrite
    <3> QED BY <1>0, <3>1, <3>2, <3>3
  <2>3. ~CreateLedger(p) /\ ~SyncLedger(p)
    BY <2>1 DEF CreateLedger, SyncLedger, Step, Judging, PartialWrite
  <2>4. \A m \in ledger' : EventsOf(m.rows) \in {Loaded, Append(Loaded, "HARD_GATE_FAILURE")}
    <3>1. CASE JournalRow(p)
      <4>1. at[p] = "HARD_GATE_FAILURE" /\ part[p] # "sync"
        BY <2>1, <3>1 DEF JournalRow, Journal, Judging, PartialWrite
      <4>2. at[p] \in Working /\ Told(p) = Loaded
        BY <4>1, Telling DEF Working, Judging
      <4>3. \A l \in ledger : EventsOf(l.rows) = Loaded
        BY <4>1, <4>2 DEF JournalInv
      <4>4. ASSUME NEW m \in ledger' PROVE EventsOf(m.rows) = Append(Loaded, "HARD_GATE_FAILURE")
        <5>1. PICK l \in ledger : EventsOf(m.rows) = Append(EventsOf(l.rows), at[p])
          BY <1>0, <3>1, <4>4, RecordAppended
        <5> QED BY <4>1, <4>3, <5>1
      <4> QED BY <4>4
    <3>2. CASE ~JournalRow(p)
      <4>1. ledger' = ledger
        BY <2>3, <3>2, Frames
      <4> QED BY <2>1, <4>1
    <3> QED BY <3>1, <3>2
  <2>5. /\ \A m \in ledgerSafe' : EventsOf(m.rows) \in {Loaded, Append(Loaded, "HARD_GATE_FAILURE")}
        /\ \E l \in ledgerSafe' : l.by = p
    <3>1. CASE SyncJournal(p)
      <4>1. ledgerSafe' = ledger
        BY <3>1 DEF SyncJournal
      <4>2. \E l \in ledger : l.by = p
        BY <2>1 DEF ReplayInv, OwnerInv
      <4> QED BY <2>1, <4>1, <4>2
    <3>2. CASE ~SyncJournal(p)
      <4>1. ledgerSafe' = ledgerSafe
        BY <2>3, <3>2, Frames
      <4> QED BY <2>1, <4>1
    <3> QED BY <3>1, <3>2
  <2> QED BY <2>2, <2>4, <2>5
<1> QED BY <1>1, <1>2

LEMMA StepJournal ==
  ASSUME ReplayInv, MemoryType, RowsType, NEW p \in Invocation, ControlType(p), TicketInv(p),
         JournalInv(p), [Next]_vars
  PROVE  JournalInv(p)'
<1>0. ReplayType /\ LedgerType
  BY DEF ReplayInv
<1>1. CASE Acts(p)
  <2>1. at'[p] = "ledger" /\ part'[p] = "sync" => \A l \in ledger' : l.rows = <<>>
    <3>1. Acted(p)
      BY <1>0, <1>1, Arrivals
    <3>2. at'[p] = "ledger" /\ part'[p] = "sync" => CreateLedger(p)
      BY <3>1, Writes DEF Acted, Stays, Replace, AppendRow, JournalRow, Append1, Journal
    <3> QED BY <3>2 DEF CreateLedger
  <2>2. at'[p] \in Working => Chronicled(p)'
    BY <1>1, ActChronicle
  <2>3. SpentBy(p)' > 0 => \A l \in ledger' \cup ledgerSafe' : Begun(l.rows)
    BY <1>1, ActBegun
  <2>4. p \in exposed' =>
          /\ at'[p] \in (Judging \ {"load"}) \cup PartialWrite \cup Over
          /\ \E l \in ledgerSafe' : l.by = p
          /\ \A l \in ledger' \cup ledgerSafe' :
                EventsOf(l.rows) \in {Loaded, Append(Loaded, "HARD_GATE_FAILURE")}
    BY <1>1, ActExposed
  <2> QED BY <2>1, <2>2, <2>3, <2>4 DEF JournalInv, Chronicled, Begun
<1>2. ASSUME SameRun(p), ledger' = ledger, ledgerSafe' = ledgerSafe PROVE JournalInv(p)'
  <2>1. /\ at'[p] = at[p] /\ part'[p] = part[p] /\ (p \in exposed' <=> p \in exposed)
        /\ SpentBy(p)' = SpentBy(p) /\ Told(p)' = Told(p)
    BY <1>2 DEF SameRun, SpentBy, Told
  <2> QED BY <1>2, <2>1 DEF JournalInv
<1>3. ASSUME NEW q \in Invocation, q # p, Acts(q) PROVE JournalInv(p)'
  <2>1. SameRun(p)
    BY <1>0, <1>3, Others DEF Acts
  <2>2. CASE \E l \in ledger \cup ledgerSafe : l.by = p
    BY <1>2, <1>3, <2>1, <2>2, LedgerKept
  <2>3. CASE ~\E l \in ledger \cup ledgerSafe : l.by = p
    <3>1. /\ at[p] \notin Working /\ ~(at[p] = "ledger" /\ part[p] = "sync") /\ ~(SpentBy(p) > 0)
          /\ p \notin exposed
      BY <2>3, TellerOwns
    <3>2. /\ at'[p] = at[p] /\ part'[p] = part[p] /\ (p \in exposed' <=> p \in exposed)
          /\ SpentBy(p)' = SpentBy(p)
      BY <2>1 DEF SameRun, SpentBy
    <3> QED BY <3>1, <3>2 DEF JournalInv
  <2> QED BY <2>2, <2>3
<1>4. ASSUME SpoiledBytes(p) PROVE JournalInv(p)'
  <2>1. /\ at'[p] = at[p] /\ part'[p] = part[p] /\ exposed' = exposed
        /\ SpentBy(p)' = SpentBy(p) /\ Told(p)' = Told(p) /\ ledger' = ledger /\ ledgerSafe' = ledgerSafe
    BY <1>4 DEF SpoiledBytes, sidecar, SpentBy, Told
  <2> QED BY <2>1 DEF JournalInv
<1>5. ASSUME NEW q \in Invocation, NEW f \in FormalFiles \ {"manifest"}, BadBytes(q, f)
      PROVE  JournalInv(p)'
  <2>1. SameRun(p) \/ SpoiledBytes(p)
    BY <1>5, BadBytesSpoil
  <2>2. ledger' = ledger /\ ledgerSafe' = ledgerSafe
    BY <1>5 DEF BadBytes, sidecar
  <2> QED BY <1>2, <1>4, <2>1, <2>2
<1>6. CASE PowerLoss
  <2>1. Rebooted(p)
    BY <1>6, PowerLossReboots
  <2>2. /\ at'[p] \in Over \cup {"gate"} /\ SpentBy(p)' = SpentBy(p) /\ exposed' = exposed
        /\ ledger' \in {ledger, ledgerSafe} /\ ledgerSafe' = ledger'
        /\ at'[p] = "gate" => at[p] = "gate"
    BY <2>1 DEF Rebooted, SpentBy, Over
  <2>3. at'[p] \notin Working /\ at'[p] # "ledger"
    BY <2>2 DEF Over, Working, Opening, Querying, Sealing, Judging
  <2>4. p \in exposed => at[p] # "gate"
    BY DEF JournalInv, Judging, PartialWrite, Over
  <2>5. p \in exposed => \E l \in ledgerSafe' : l.by = p
    BY <2>2 DEF JournalInv, ReplayInv, OwnerInv
  <2>6. \A l \in ledger' \cup ledgerSafe' : l \in ledger \cup ledgerSafe
    BY <2>2
  <2> QED BY <2>2, <2>3, <2>4, <2>5, <2>6 DEF JournalInv
<1>7. CASE Drift \/ UNCHANGED vars
  <2>1. SameRun(p) /\ ledger' = ledger /\ ledgerSafe' = ledgerSafe
    BY <1>7 DEF Drift, vars, memory, files, sidecar, SameRun
  <2> QED BY <1>2, <2>1
<1> QED BY <1>1, <1>3, <1>5, <1>6, <1>7 DEF Next, Acts

----------------------------------------------------------------------------
(* Verdicts *)

\* What a call returns, and from where.
LEMMA Results ==
  ASSUME ReplayType, MemoryType, NEW p \in Invocation, ControlType(p), Acts(p)
  PROVE  \/ result'[p] = result[p]
         \/ /\ at'[p] = "returned" /\ part'[p] = "begin"
            /\ \/ result'[p] = "PRESTART" /\ at[p] \in {"gate", "ledger", "directory"}
               \/ result'[p] = PartialStatus(p)
               \/ /\ Validate(p) /\ at[p] = "validate" /\ result'[p] = comparable[p]
                  /\ comparable[p] = "PASS" => ValidateComplete(disk[p], ledger)
<1> DEFINE back == /\ at'[p] = "returned" /\ part'[p] = "begin"
                   /\ \/ result'[p] = "PRESTART" /\ at[p] \in {"gate", "ledger", "directory"}
                      \/ result'[p] = PartialStatus(p)
                      \/ /\ Validate(p) /\ at[p] = "validate" /\ result'[p] = comparable[p]
                         /\ comparable[p] = "PASS" => ValidateComplete(disk[p], ledger)
<1>1. GivesUp(p) => result'[p] = result[p] \/ back
  BY DEF GivesUp
<1>2. CASE CreateLedger(p) \/ FillTemporary(p) \/ Replace(p) \/ AppendRow(p) \/ JournalRow(p)
  BY <1>2 DEF CreateLedger, FillTemporary, Replace, AppendRow, JournalRow
<1>3. CASE PassGate(p) \/ SyncLedger(p) \/ MakeDirectory(p) \/ Recheck(p)
  BY <1>1, <1>3, PlacesInRun DEF Goes
<1>4. CASE ReadBack(p) \/ Barrier(p) \/ LoadReference(p) \/ Final(p)
  BY <1>1, <1>4, PlacesInRun DEF Goes
<1>5. CASE FailGate(p) \/ LedgerTaken(p) \/ PackageMutated(p) \/ OperationRaises(p)
  BY <1>1, <1>5, PlacesInRun
<1>6. CASE SyncDirectory(p) \/ SkipWrite(p)
  BY <1>1, <1>6, PlacesAfterRun DEF Goes
<1>7. CASE (\E outcome \in Outcome : Search(p, outcome)) \/ QueryRecorded(p) \/ ResultsRecorded(p)
  BY <1>1, <1>7, PlacesAfterRun DEF Goes
<1>8. CASE SyncJournal(p)
  <2>1. turn[p] \in {1, 2}
    BY DEF ControlType
  <2> QED BY <1>1, <1>8, <2>1, PlacesAfterRun DEF Goes, Journal
<1>9. CASE Finish(p) \/ Kill(p)
  BY <1>1, <1>9, PlacesAfterRun DEF Goes
<1>10. CASE Validate(p)
  <2>1. CASE GivesUp(p)
    BY <1>1, <2>1
  <2>2. CASE ~GivesUp(p)
    BY <1>10, <2>2, PlacesAfterRun
  <2> QED BY <2>1, <2>2
<1> QED BY <1>2, <1>3, <1>4, <1>5, <1>6, <1>7, <1>8, <1>9, <1>10 DEF Acts, Run

\* The post-run document says PASS only of a run that was judged so.
LEMMA PostAfter ==
  ASSUME ReplayType, MemoryType, NEW p \in Invocation, ControlType(p), VerdictInv(p), Acts(p)
  PROVE  \A d \in disk'[p]["post"] \cup safe'[p]["post"] : d.body = "PASS" => comparable[p] = "PASS"
<1>0. \A d \in disk[p]["post"] \cup safe[p]["post"] : d.body = "PASS" => comparable[p] = "PASS"
  BY DEF VerdictInv
<1>1. ASSUME NEW d \in disk'[p]["post"], d.body = "PASS" PROVE comparable[p] = "PASS"
  <2>1. CASE disk'[p]["post"] = disk[p]["post"]
    BY <1>0, <1>1, <2>1
  <2>2. CASE FillTemporary(p) \/ AppendRow(p)
    <3>1. disk'[p]["post"] = disk[p]["post"]
      BY <2>2, DiskAfter, Writes
    <3> QED BY <2>1, <3>1
  <2>3. CASE Replace(p)
    <3>1. CASE at[p] \in {"post", "partialPost"}
      <4>1. Target[at[p]] = "post" /\ at[p] \in Write /\ part[p] = "replace"
        BY <2>3, <3>1, Writes DEF Replace
      <4>2. disk'[p]["post"] = disk[p]["temporary"]
        BY <2>3, <4>1, DiskAfter
      <4>3. disk[p]["temporary"] \in {{Doc(comparable[p])}, {Doc("PARTIAL")}}
        BY <3>1, <4>1 DEF VerdictInv
      <4>4. d.body \in {comparable[p], "PARTIAL"}
        BY <1>1, <4>2, <4>3 DEF Doc
      <4> QED BY <1>1, <4>4
    <3>2. CASE at[p] \notin {"post", "partialPost"}
      <4>1. Target[at[p]] # "post"
        BY <2>3, <3>2, Writes DEF Replace
      <4>2. disk'[p]["post"] = disk[p]["post"]
        BY <2>3, <4>1, DiskAfter, Writes
      <4> QED BY <2>1, <4>2
    <3> QED BY <3>1, <3>2
  <2> QED BY <2>1, <2>2, <2>3, Frames
<1>2. safe'[p] = safe[p] \/ safe'[p] = disk[p]
  BY Frames, SafeAfter
<1> QED BY <1>0, <1>1, <1>2

LEMMA ActVerdict ==
  ASSUME ReplayInv, MemoryType, NEW p \in Invocation, ControlType(p), TicketInv(p), FileInv(p),
         JournalInv(p), VerdictInv(p), Acts(p)
  PROVE  VerdictInv(p)'
<1>0. /\ ReplayType /\ at[p] \notin Over
      /\ Stays(p) \/ (part'[p] = "begin" /\ (Arrives(p) \/ Leaves(p)))
  BY Arrivals DEF Acted, ReplayInv
<1>1. /\ p \in exposed => p \in exposed'
      /\ LoadReference(p) => p \in exposed'
  BY Frames DEF LoadReference
<1>2. comparable' = comparable \/ (Finish(p) /\ at[p] = "finish" /\ at'[p] = "end" /\ comparable[p] = "none")
  <2>1. CASE Finish(p)
    <3>1. ~Stays(p)
      BY <2>1, Writes DEF Stays, Finish, CreateLedger, FillTemporary, Replace, AppendRow, JournalRow,
         Step, Append1, Journal
    <3>2. at[p] = "finish" /\ comparable[p] = "none"
      BY <2>1 DEF Finish, Step, VerdictInv, Unjudged
    <3> QED BY <1>0, <3>1, <3>2 DEF Arrives, Leaves, Sealed, Recorded
  <2> QED BY <2>1, Frames
<1>3. at'[p] \in Unjudged => comparable'[p] = "none"
  <2> SUFFICES ASSUME at'[p] \in Unjudged PROVE comparable'[p] = "none"
    OBVIOUS
  <2>1. comparable' = comparable
    BY <1>2 DEF Unjudged, Opening, Querying, Sealing
  <2>2. at[p] \in Unjudged
    <3>1. CASE Stays(p)
      BY <3>1 DEF Stays
    <3>2. CASE Arrives(p)
      BY <3>2 DEF Arrives, Sealed, Recorded, Unjudged, Opening, Querying, Sealing
    <3>3. ~Leaves(p)
      BY DEF Leaves, PartialWrite, Over, Unjudged, Opening, Querying, Sealing
    <3> QED BY <1>0, <3>1, <3>2, <3>3
  <2> QED BY <2>1, <2>2 DEF VerdictInv
<1>4. comparable'[p] # "none" \/ at'[p] \in Judging \ {"load"} => p \in exposed'
  <2>1. at[p] \in Judging \ {"load"} => p \in exposed
    BY DEF VerdictInv, Judging
  <2>2. comparable'[p] # "none" => p \in exposed
    BY <1>2, <2>1 DEF VerdictInv, Judging
  <2>3. at'[p] \in Judging \ {"load"} => at[p] \in Judging \ {"load"} \/ LoadReference(p)
    <3>1. CASE Stays(p)
      BY <3>1 DEF Stays
    <3>2. CASE Arrives(p)
      BY <3>2 DEF Arrives, Sealed, Recorded, Judging
    <3>3. CASE Leaves(p)
      BY <3>3 DEF Leaves, PartialWrite, Over, Judging
    <3> QED BY <1>0, <3>1, <3>2, <3>3
  <2> QED BY <1>1, <2>1, <2>2, <2>3
<1>5. /\ at'[p] = "post" /\ part'[p] = "replace" => disk'[p]["temporary"] = {Doc(comparable'[p])}
      /\ at'[p] = "partialPost" /\ part'[p] = "replace" => disk'[p]["temporary"] = {Doc("PARTIAL")}
  <2>1. FillTemporary(p) => disk'[p]["temporary"] = {Doc(Content(p))}
    BY <1>0, DiskAfter
  <2>2. at[p] = "post" => Content(p) = comparable[p]
    BY DEF Content, PartialWrite
  <2>3. at[p] = "partialPost" => Content(p) = "PARTIAL"
    BY DEF Content, PartialWrite
  <2> QED BY <1>0, <1>2, <2>1, <2>2, <2>3 DEF Stays
<1>6. \A d \in disk'[p]["post"] \cup safe'[p]["post"] : d.body = "PASS" => comparable'[p] = "PASS"
  BY <1>0, <1>2, PostAfter
<1>7. at'[p] = "validate" => disk'[p] = safe'[p]
  <2> SUFFICES ASSUME at'[p] = "validate" PROVE disk'[p] = safe'[p]
    OBVIOUS
  <2>1. Sealed(p, "manifest")
    BY <1>0, Writes DEF Stays, Arrives, Leaves, PartialWrite, Over, CreateLedger, FillTemporary,
       Replace, AppendRow, JournalRow, Step, Append1, Journal, Sealed, Recorded
  <2> QED BY <2>1, SafeAfter DEF Sealed
<1>8. result[p] = "none"
  BY <1>0 DEF VerdictInv, Over
<1>9. \/ result'[p] = "none"
      \/ /\ at'[p] = "returned" /\ part'[p] = "begin"
         /\ \/ result'[p] = "PRESTART" /\ at[p] \in {"gate", "ledger", "directory"}
            \/ result'[p] = PartialStatus(p)
            \/ /\ Validate(p) /\ at[p] = "validate" /\ result'[p] = comparable[p]
               /\ comparable[p] = "PASS" => ValidateComplete(disk[p], ledger)
  BY <1>0, <1>8, Results
<1>10. result'[p] # "none" => at'[p] = "returned"
  BY <1>9
<1>11. result'[p] = "PRESTART" => SpentBy(p)' = 0
  <2> SUFFICES ASSUME result'[p] = "PRESTART" PROVE SpentBy(p)' = 0
    OBVIOUS
  <2>1. SpentBy(p) = 0
    <3>1. CASE at[p] \in {"gate", "ledger", "directory"}
      <4>1. traces[p]["A"] = <<>> /\ traces[p]["B"] = <<>>
        BY <3>1 DEF TicketInv, Opening
      <4> QED BY <4>1 DEF SpentBy
    <3>2. CASE PartialStatus(p) = "PRESTART"
      <4>1. safe[p]["start"] = {}
        BY <3>2, Writes DEF PartialStatus, Exists, FileInv
      <4>2. ~(SpentBy(p) > 0)
        BY <4>1 DEF FileInv
      <4> QED BY <1>0, <4>2, SpentGrows
    <3>3. comparable[p] # "PRESTART"
      BY DEF ControlType
    <3> QED BY <1>9, <3>1, <3>2, <3>3
  <2>2. at[p] # "search"
    <3>1. at[p] = "search" => ~Validate(p) /\ at[p] \notin {"gate", "ledger", "directory"} /\ safe[p]["start"] # {}
      BY DEF Validate, Step, FileInv, Querying
    <3>2. safe[p]["start"] # {} => PartialStatus(p) = "NOT_EVALUABLE"
      BY Writes DEF PartialStatus, Exists, FileInv
    <3> QED BY <1>9, <3>1, <3>2
  <2> QED BY <1>0, <2>1, <2>2, SpentGrows
<1>12. result'[p] = "PASS" => /\ comparable'[p] = "PASS" /\ disk'[p] = safe'[p] /\ ledger' = ledgerSafe'
                              /\ Unaltered(disk'[p]) => ValidateComplete(disk'[p], ledger')
  <2> SUFFICES ASSUME result'[p] = "PASS"
               PROVE  /\ comparable'[p] = "PASS" /\ disk'[p] = safe'[p] /\ ledger' = ledgerSafe'
                      /\ Unaltered(disk'[p]) => ValidateComplete(disk'[p], ledger')
    OBVIOUS
  <2>1. PartialStatus(p) # "PASS"
    BY DEF PartialStatus
  <2>2. /\ Validate(p) /\ at[p] = "validate" /\ comparable[p] = "PASS"
        /\ ValidateComplete(disk[p], ledger)
    BY <1>9, <2>1
  <2>3. UNCHANGED <<comparable, disk, safe, ledger, ledgerSafe>>
    BY <2>2 DEF Validate, memory, files, sidecar
  <2>4. ledger = ledgerSafe
    BY <2>2 DEF JournalInv, Working, Judging, Journal
  <2>5. disk[p] = safe[p]
    BY <2>2 DEF VerdictInv
  <2> QED BY <2>2, <2>3, <2>4, <2>5
<1> QED BY <1>3, <1>4, <1>5, <1>6, <1>7, <1>10, <1>11, <1>12 DEF VerdictInv, Judging

----------------------------------------------------------------------------
(* The account holds *)

LEMMA StepVerdict ==
  ASSUME ReplayInv, MemoryType, NEW p \in Invocation, ControlType(p), DocType(p), TicketInv(p),
         FileInv(p), JournalInv(p), VerdictInv(p), [Next]_vars
  PROVE  VerdictInv(p)'
<1>0. ReplayType
  BY DEF ReplayInv
<1>1. ASSUME SameRun(p), result[p] = "PASS" => ledger' = ledger /\ ledgerSafe' = ledgerSafe
      PROVE  VerdictInv(p)'
  <2>1. SpentBy(p)' = SpentBy(p)
    BY <1>1 DEF SameRun, SpentBy
  <2> QED BY <1>1, <2>1 DEF SameRun, VerdictInv
<1>2. ASSUME NEW q \in Invocation, q # p, Acts(q) PROVE VerdictInv(p)'
  <2>1. SameRun(p)
    BY <1>0, <1>2, Others DEF Acts
  <2>2. ASSUME result[p] = "PASS" PROVE ledger' = ledger /\ ledgerSafe' = ledgerSafe
    <3>1. p \in exposed
      BY <2>2 DEF VerdictInv
    <3> QED BY <1>2, <3>1, TellerOwns, LedgerKept
  <2> QED BY <1>1, <2>1, <2>2
<1>3. ASSUME SpoiledBytes(p) PROVE VerdictInv(p)'
  <2>1. /\ at'[p] = at[p] /\ part'[p] = part[p] /\ comparable'[p] = comparable[p]
        /\ result'[p] = result[p] /\ exposed' = exposed /\ ledger' = ledger /\ ledgerSafe' = ledgerSafe
        /\ SpentBy(p)' = SpentBy(p)
    BY <1>3 DEF SpoiledBytes, sidecar, SpentBy
  <2>2. /\ \A d \in disk'[p]["post"] : \E c \in disk[p]["post"] : d.body = c.body
        /\ \A d \in safe'[p]["post"] : \E c \in safe[p]["post"] : d.body = c.body
    BY <1>3, SpoiledBodies, Writes DEF SameBodies
  <2>3. disk'[p]["temporary"] = disk[p]["temporary"]
    BY <1>3, Writes DEF SpoiledBytes, FormalFiles
  <2>4. PICK f \in FormalFiles \ {"manifest"} :
          /\ disk'[p][f] = Spoiled(disk[p][f]) /\ disk[p][f] # {}
          /\ safe'[p][f] = Spoiled(safe[p][f]) /\ safe[p][f] = disk[p][f]
          /\ \A g \in File : g # f => disk'[p][g] = disk[p][g] /\ safe'[p][g] = safe[p][g]
          /\ disk'[p] = [g \in File |-> disk'[p][g]] /\ safe'[p] = [g \in File |-> safe'[p][g]]
    BY <1>3 DEF SpoiledBytes
  <2>5. disk[p] = safe[p] => disk'[p] = safe'[p]
    <3> SUFFICES ASSUME disk[p] = safe[p] PROVE disk'[p] = safe'[p]
      OBVIOUS
    <3>1. \A g \in File : disk'[p][g] = safe'[p][g]
      BY <2>4
    <3> QED BY <2>4, <3>1
  <2>6. ~Unaltered(disk'[p])
    <3>1. PICK d \in disk[p][f] : TRUE
      BY <2>4
    <3>2. IsDoc(d)
      BY <2>4, <3>1, Writes DEF DocType, FormalFiles, File
    <3>3. \A x : IsDoc(x) => [x EXCEPT !.altered = TRUE].altered
      BY DEF IsDoc
    <3>4. [d EXCEPT !.altered = TRUE] \in disk'[p][f]
      BY <2>4, <3>1 DEF Spoiled
    <3> QED BY <3>2, <3>3, <3>4 DEF Unaltered
  <2> QED BY <2>1, <2>2, <2>3, <2>5, <2>6 DEF VerdictInv
<1>4. ASSUME NEW q \in Invocation, NEW f \in FormalFiles \ {"manifest"}, BadBytes(q, f)
      PROVE  VerdictInv(p)'
  <2>1. SameRun(p) \/ SpoiledBytes(p)
    BY <1>4, BadBytesSpoil
  <2>2. ledger' = ledger /\ ledgerSafe' = ledgerSafe
    BY <1>4 DEF BadBytes, sidecar
  <2> QED BY <1>1, <1>3, <2>1, <2>2
<1>5. CASE PowerLoss
  <2>1. Rebooted(p)
    BY <1>5, PowerLossReboots
  <2>2. /\ at'[p] \in Over \cup {"gate"} /\ part'[p] = "begin" /\ comparable'[p] = comparable[p]
        /\ result'[p] = result[p] /\ exposed' = exposed /\ SpentBy(p)' = SpentBy(p)
        /\ safe'[p] = disk'[p] /\ (disk[p] = safe[p] => disk'[p] = disk[p])
        /\ ledger' \in {ledger, ledgerSafe} /\ ledgerSafe' = ledger'
        /\ disk'[p]["post"] \in {disk[p]["post"], safe[p]["post"]}
        /\ at'[p] = "gate" => at[p] = "gate"
        /\ at[p] = "returned" => at'[p] = "returned"
    BY <2>1, Writes DEF Rebooted, SpentBy, Over
  <2>3. at'[p] \notin Judging /\ (at'[p] \in Unjudged => at'[p] = "gate")
    BY <2>2 DEF Over, Judging, Unjudged, Opening, Querying, Sealing
  <2>4. at'[p] \in Unjudged => comparable'[p] = "none"
    BY <2>2, <2>3 DEF VerdictInv, Unjudged
  <2>5. \A d \in disk'[p]["post"] \cup safe'[p]["post"] : d.body = "PASS" => comparable'[p] = "PASS"
    BY <2>2 DEF VerdictInv
  <2>6. result'[p] = "PASS" => /\ comparable'[p] = "PASS" /\ disk'[p] = safe'[p] /\ ledger' = ledgerSafe'
                               /\ Unaltered(disk'[p]) => ValidateComplete(disk'[p], ledger')
    <3>1. result[p] = "PASS" => /\ comparable[p] = "PASS" /\ disk[p] = safe[p] /\ ledger = ledgerSafe
                                /\ Unaltered(disk[p]) => ValidateComplete(disk[p], ledger)
      BY DEF VerdictInv
    <3> QED BY <2>2, <3>1
  <2> QED BY <2>2, <2>3, <2>4, <2>5, <2>6 DEF VerdictInv, Judging
<1>6. CASE Drift \/ UNCHANGED vars
  <2>1. SameRun(p) /\ ledger' = ledger /\ ledgerSafe' = ledgerSafe
    BY <1>6 DEF Drift, vars, memory, files, sidecar, SameRun
  <2> QED BY <1>1, <2>1
<1> QED BY <1>2, <1>4, <1>5, <1>6, ActVerdict DEF Next, Acts

\* Nothing is stored, nothing told and no ticket spent.
LEMMA AccountStart == Init => RunAccount
<1> SUFFICES ASSUME Init PROVE RunAccount
  OBVIOUS
<1>1. MemoryType /\ RowsType
  BY DEF Init, MemoryType, Shaped, RowsType
<1>2. ASSUME NEW p \in Invocation
      PROVE  /\ at[p] = "gate" /\ part[p] = "begin" /\ turn[p] = 1 /\ comparable[p] = "none"
             /\ traces[p]["A"] = <<>> /\ traces[p]["B"] = <<>> /\ SpentBy(p) = 0
             /\ \A f \in File : disk[p][f] = {} /\ safe[p][f] = {}
             /\ p \notin exposed /\ result[p] = "none" /\ ledger = {} /\ ledgerSafe = {}
  <2>1. traces[p]["A"] = <<>> /\ traces[p]["B"] = <<>>
    BY TwoEntrants DEF Init
  <2>2. SpentBy(p) = 0
    BY <2>1 DEF SpentBy
  <2>3. at[p] = "gate" /\ part[p] = "begin" /\ turn[p] = 1 /\ comparable[p] = "none"
    BY DEF Init
  <2>4. \A f \in File : disk[p][f] = {} /\ safe[p][f] = {}
    BY DEF Init
  <2>5. p \notin exposed /\ result[p] = "none" /\ ledger = {} /\ ledgerSafe = {}
    BY DEF Init
  <2> QED BY <2>1, <2>2, <2>3, <2>4, <2>5
<1>3. ASSUME NEW p \in Invocation
      PROVE  /\ ControlType(p) /\ DocType(p) /\ TicketInv(p) /\ StreamInv(p) /\ FileInv(p)
             /\ JournalInv(p) /\ VerdictInv(p)
  <2>0. /\ at[p] \notin Opening \cup Querying \cup Sealing \cup Judging \cup Working \cup PartialWrite
        /\ at[p] \in Operation /\ {"queries", "start", "outputA", "outputB", "post"} \subseteq File
    BY <1>2, Writes DEF Opening, Querying, Sealing, Judging, Working, PartialWrite, Operation, Early
  <2>1. ControlType(p) /\ DocType(p)
    BY <1>2, <2>0 DEF ControlType, DocType
  <2>2. TicketInv(p)
    <3>1. \A a \in Alias : traces[p][a] = <<>>
      BY <1>2, TwoEntrants
    <3>2. Len(<<>>) <= MaxCalls /\ FailsLast(<<>>)
      BY ProxyAssumption DEF FailsLast
    <3> QED BY <1>2, <2>0, <3>1, <3>2 DEF TicketInv, Querying
  <2>3. StreamInv(p) /\ FileInv(p)
    BY <1>2, <2>0 DEF StreamInv, FileInv, Stream, Opening, Querying
  <2>4. JournalInv(p)
    BY <1>2, <2>0 DEF JournalInv
  <2>5. VerdictInv(p)
    BY <1>2, <2>0 DEF VerdictInv, Judging
  <2> QED BY <2>1, <2>2, <2>3, <2>4, <2>5
<1> QED BY <1>1, <1>3 DEF RunAccount

\* What every invocation spent, stored, told and returned agrees with the operation it is
\* at, through every exception, kill, power loss, drift and bad byte.
THEOREM RunAccounted == Spec => []RunAccount
<1>1. ReplayInv /\ RunAccount /\ [Next]_vars => RunAccount'
  <2> SUFFICES ASSUME ReplayInv, RunAccount, [Next]_vars PROVE RunAccount'
    OBVIOUS
  <2>0. ReplayType /\ MemoryType /\ RowsType
    BY DEF ReplayInv, RunAccount
  <2>1. MemoryType'
    BY <2>0, StepMemory
  <2>2. RowsType'
    BY <2>0, StepRows
  <2>3. ASSUME NEW p \in Invocation
        PROVE  /\ ControlType(p)' /\ DocType(p)' /\ TicketInv(p)' /\ StreamInv(p)' /\ FileInv(p)'
               /\ JournalInv(p)' /\ VerdictInv(p)'
    <3>1. /\ ControlType(p) /\ DocType(p) /\ TicketInv(p) /\ StreamInv(p) /\ FileInv(p)
          /\ JournalInv(p) /\ VerdictInv(p)
      BY DEF RunAccount
    <3>2. ControlType(p)'
      BY <2>0, <3>1, StepControl
    <3>3. DocType(p)'
      BY <2>0, <3>1, StepDocs
    <3>4. TicketInv(p)'
      BY <2>0, <3>1, StepTickets
    <3>5. StreamInv(p)'
      BY <2>0, <3>1, StepStream
    <3>6. FileInv(p)'
      BY <2>0, <3>1, StepFiles
    <3>7. JournalInv(p)'
      BY <2>0, <3>1, StepJournal
    <3>8. VerdictInv(p)'
      BY <2>0, <3>1, StepVerdict
    <3> QED BY <3>2, <3>3, <3>4, <3>5, <3>6, <3>7, <3>8
  <2> QED BY <2>1, <2>2, <2>3 DEF RunAccount
<1> QED BY <1>1, AccountStart, ReplayInductive, PTL DEF Spec

----------------------------------------------------------------------------
(* What the account says of the labels, of a complete directory and of the queries *)

\* Only an invocation loads the labels.
LoadersType == exposed \subseteq Invocation

LEMMA LoadersAreInvocations == Spec => []LoadersType
<1>1. Init => LoadersType
  BY DEF Init, LoadersType
<1>2. LoadersType /\ [Next]_vars => LoadersType'
  <2> SUFFICES ASSUME LoadersType, [Next]_vars PROVE LoadersType'
    OBVIOUS
  <2>1. ASSUME NEW p \in Invocation, Acts(p) PROVE LoadersType'
    BY <2>1, Frames DEF LoadReference, LoadersType
  <2>2. CASE \E p \in Invocation, f \in FormalFiles \ {"manifest"} : BadBytes(p, f)
    BY <2>2 DEF BadBytes, LoadersType
  <2>3. CASE PowerLoss \/ Drift \/ UNCHANGED vars
    BY <2>3 DEF PowerLoss, Drift, vars, LoadersType
  <2> QED BY <2>1, <2>2, <2>3 DEF Next, Acts
<1> QED BY <1>1, <1>2, PTL DEF Spec

\* The sidecar, seen as the rows of its only file.
LEMMA OneSidecar ==
  ASSUME ReplayInv, NEW l \in ledgerSafe
  PROVE  \E m \in ledgerSafe : RowsIn(ledgerSafe) = m.rows /\ m.by = l.by
<1> DEFINE m == CHOOSE x \in ledgerSafe : TRUE
<1>1. m \in ledgerSafe
  OBVIOUS
<1>2. RowsIn(ledgerSafe) = m.rows
  BY DEF RowsIn
<1> HIDE DEF m
<1>3. m.by = l.by
  BY <1>1 DEF ReplayInv, OwnerInv
<1> QED BY <1>1, <1>2, <1>3

LEMMA GivenUpAtGate ==
  Append(Loaded, "HARD_GATE_FAILURE")
     = <<"STARTED", "COMMIT", "COMMIT", "REFERENCE_LOAD", "HARD_GATE_FAILURE">>
<1> DEFINE S == {"STARTED", "COMMIT", "REFERENCE_LOAD", "HARD_GATE_FAILURE"}
           a == Loaded
           x == "HARD_GATE_FAILURE"
<1>1. a \in Seq(S) /\ 5 = Len(a) + 1 /\ x \in S
  BY DEF Loaded
<1>2. [i \in 1..5 |-> IF i = 5 THEN x ELSE a[i]]
         = <<"STARTED", "COMMIT", "COMMIT", "REFERENCE_LOAD", "HARD_GATE_FAILURE">>
  BY DEF Loaded
<1> HIDE DEF S, a, x
<1>3. Append(a, x) = [i \in 1..5 |-> IF i = 5 THEN x ELSE a[i]]
  BY <1>1, AppendIs
<1> QED BY <1>2, <1>3 DEF a, x

LEMMA AccountOfLabels ==
  ReplayInv /\ RunAccount /\ LoadersType => LabelsFollowCommits
<1> SUFFICES ASSUME ReplayInv, RunAccount, NEW p \in Invocation, p \in exposed
             PROVE  /\ \A a \in Alias : Len(traces[p][a]) = MaxCalls /\ safe[p][Output(a)] # {}
                    /\ EventsOf(RowsIn(ledgerSafe))
                          \in {Loaded, <<"STARTED", "COMMIT", "COMMIT", "REFERENCE_LOAD",
                                         "HARD_GATE_FAILURE">>}
                    /\ \A i \in DOMAIN RowsIn(ledgerSafe) : RowsIn(ledgerSafe)[i].by = p
  BY DEF LabelsFollowCommits, EventsOf, Loaded, LoadersType
<1>1. TicketInv(p) /\ FileInv(p) /\ JournalInv(p) /\ RowsType /\ ReplayType
  BY DEF RunAccount, ReplayInv
<1>2. turn[p] = 2 /\ Complete(p)
  BY <1>1 DEF TicketInv
<1>3. ASSUME NEW a \in Alias PROVE Len(traces[p][a]) = MaxCalls /\ safe[p][Output(a)] # {}
  <2>1. Len(traces[p][a]) = MaxCalls
    BY <1>1, <1>2, Tickets, WholeTrace DEF Complete
  <2>2. safe[p]["outputA"] # {} /\ safe[p]["outputB"] # {}
    BY <1>1, <1>2 DEF FileInv
  <2> QED BY <2>1, <2>2 DEF Output
<1>4. PICK l \in ledgerSafe : l.by = p
  BY <1>1 DEF JournalInv
<1>5. PICK m \in ledgerSafe : RowsIn(ledgerSafe) = m.rows /\ m.by = p
  BY <1>4, OneSidecar
<1>6. EventsOf(m.rows) \in {Loaded, Append(Loaded, "HARD_GATE_FAILURE")}
  BY <1>1 DEF JournalInv
<1>7. \A i \in DOMAIN m.rows : m.rows[i].by = p
  BY <1>1, <1>5 DEF RowsType
<1> QED BY <1>3, <1>5, <1>6, <1>7, GivenUpAtGate

\* "The formal reference loader is a separate late capability, invoked only after both
\* durable commits": LoadReference is reached only with both schedules spent, both outputs and
\* the four records durable, and no fault takes any of it away.
THEOREM LabelsAfterCommits == Spec => []LabelsFollowCommits
BY AccountOfLabels, LoadersAreInvocations, ReplayInductive, RunAccounted, PTL

LEMMA MarkerIsNoFormalFile == "partial-journal" \in File \ FormalFiles
<1>1. "partialJournal" \in Write /\ Target["partialJournal"] = "partial-journal"
  BY Writes DEF Target
<1>2. \A op \in Write \ PartialWrite : Target[op] # "partial-journal"
  BY Writes DEF Target, PartialWrite
<1> QED BY <1>1, <1>2 DEF File, FormalFiles

LEMMA AccountOfComplete == ReplayInv /\ RunAccount => CompleteMeansWholePlan
<1> SUFFICES ASSUME ReplayInv, RunAccount, NEW p \in Invocation
             PROVE  /\ ValidateComplete(disk[p], ledger) =>
                          /\ Complete(p) /\ p \in exposed /\ \A l \in ledger : l.by = p
                          /\ disk[p]["partial-journal"] = {}
                    /\ result[p] = "PASS" /\ Unaltered(disk[p]) =>
                          ValidateComplete(safe[p], ledgerSafe)
  BY DEF CompleteMeansWholePlan, Complete, Whole
<1>1. TicketInv(p) /\ JournalInv(p) /\ VerdictInv(p)
  BY DEF RunAccount
<1>2. ASSUME ValidateComplete(disk[p], ledger)
      PROVE  /\ Complete(p) /\ p \in exposed /\ \A l \in ledger : l.by = p
             /\ disk[p]["partial-journal"] = {}
  <2>1. disk[p]["post"] = {Doc("PASS")} /\ Names(disk[p]) = FormalFiles
    BY <1>2 DEF ValidateComplete
  <2>2. Doc("PASS") \in disk[p]["post"] /\ Doc("PASS").body = "PASS"
    BY <2>1 DEF Doc
  <2>3. comparable[p] = "PASS"
    BY <1>1, <2>2 DEF VerdictInv
  <2>4. Complete(p) /\ p \in exposed
    BY <1>1, <2>3 DEF TicketInv, VerdictInv
  <2>5. \A l \in ledger : l.by = p
    BY <1>1, <2>4 DEF JournalInv, ReplayInv, OwnerInv
  <2>6. disk[p]["partial-journal"] = {}
    BY <2>1, MarkerIsNoFormalFile DEF Names
  <2> QED BY <2>4, <2>5, <2>6
<1>3. ASSUME result[p] = "PASS", Unaltered(disk[p]) PROVE ValidateComplete(safe[p], ledgerSafe)
  BY <1>1, <1>3 DEF VerdictInv
<1> QED BY <1>2, <1>3

\* validate_complete: a directory it accepts stands for the whole plan, carried out by the owner
\* of the sidecar and not given up; and a PASS that replay returned is accepted again after a
\* power loss, as long as no byte of it went bad.
THEOREM CompleteIsWhole == Spec => []CompleteMeansWholePlan
BY AccountOfComplete, ReplayInductive, RunAccounted, PTL

\* The first failure of a trace, when only its last ticket may fail.
LEMMA FirstFailure ==
  ASSUME NEW t \in Seq(Outcome), FailsLast(t), "FAILED" \in ToSet(t)
  PROVE  SelectInSeq(t, LAMBDA o : o = "FAILED") = Len(t)
<1> DEFINE I == {i \in 1..Len(t) : t[i] = "FAILED"}
<1>1. DOMAIN t = 1..Len(t) /\ Len(t) \in Nat
  OBVIOUS
<1>2. PICK i \in 1..Len(t) : t[i] = "FAILED"
  BY <1>1 DEF ToSet
<1>3. I = {Len(t)}
  BY <1>2 DEF FailsLast
<1>4. Min({Len(t)}) = Len(t)
  BY <1>1 DEF Min
<1>5. SelectInSeq(t, LAMBDA o : o = "FAILED") = IF I # {} THEN Min(I) ELSE 0
  BY DEF SelectInSeq
<1> HIDE DEF I
<1> QED BY <1>3, <1>4, <1>5

LEMMA AccountOfQueries == ReplayInv /\ RunAccount => QueriesAreTold
<1> SUFFICES ASSUME ReplayInv, RunAccount, NEW p \in Invocation
             PROVE  LET failed == {a \in Alias : "FAILED" \in ToSet(traces[p][a])}
                    IN  /\ SpentBy(p) > 0 => \A d \in safe[p]["queries"] :
                                                Len(d.body) \in {SpentBy(p) - 1, SpentBy(p)}
                        /\ SpentBy(p) > 0 => safe[p]["queries"] # {} /\ safe[p]["start"] # {}
                        /\ SpentBy(p) > 0 => \E l \in ledgerSafe : l.by = p /\ l.rows # <<>>
                                                     /\ Head(l.rows).event = "STARTED"
                        /\ failed # {} => /\ traces[p]["B"] = <<>> \/ failed = {"B"}
                                          /\ \A a \in failed : SelectInSeq(traces[p][a],
                                                 LAMBDA o : o = "FAILED") = Len(traces[p][a])
                        /\ result[p] = "PRESTART" => SpentBy(p) = 0
  BY DEF QueriesAreTold, SpentBy
<1> DEFINE failed == {a \in Alias : "FAILED" \in ToSet(traces[p][a])}
<1>1. /\ TicketInv(p) /\ StreamInv(p) /\ FileInv(p) /\ JournalInv(p) /\ VerdictInv(p)
      /\ ControlType(p) /\ RowsType /\ ReplayType /\ OwnerInv
  BY DEF RunAccount, ReplayInv
<1>2. SpentBy(p) > 0 => \A d \in safe[p]["queries"] : Len(d.body) \in {SpentBy(p) - 1, SpentBy(p)}
  BY <1>1 DEF StreamInv, Stream
<1>3. SpentBy(p) > 0 => safe[p]["queries"] # {} /\ safe[p]["start"] # {}
  BY <1>1 DEF StreamInv, FileInv
<1>4. ASSUME SpentBy(p) > 0
      PROVE  \E l \in ledgerSafe : l.by = p /\ l.rows # <<>> /\ Head(l.rows).event = "STARTED"
  <2>1. \E a \in Alias : traces[p][a] # <<>>
    <3>1. traces[p]["A"] = <<>> /\ traces[p]["B"] = <<>> => SpentBy(p) = 0
      BY DEF SpentBy
    <3> QED BY <1>4, <3>1, TwoEntrants
  <2>2. PICK l \in ledgerSafe : l.by = p
    BY <1>1, <2>1 DEF OwnerInv
  <2>3. l.rows # <<>> /\ EventsOf(l.rows)[1] = "STARTED" /\ IsRows(l.rows)
    BY <1>1, <1>4 DEF JournalInv, RowsType
  <2>4. 1 \in DOMAIN l.rows /\ Head(l.rows) = l.rows[1]
    <3> DEFINE s == l.rows
               S == {s[i] : i \in DOMAIN s}
    <3>1. s \in Seq(S) /\ s # <<>>
      BY <2>3 DEF IsRows
    <3> HIDE DEF s, S
    <3> QED BY <3>1 DEF s
  <2>5. Head(l.rows).event = "STARTED"
    BY <2>3, <2>4 DEF EventsOf
  <2> QED BY <2>2, <2>3, <2>5
<1>5. ASSUME NEW a \in failed
      PROVE  SelectInSeq(traces[p][a], LAMBDA o : o = "FAILED") = Len(traces[p][a])
  BY <1>1, Tickets, FirstFailure DEF TicketInv
<1>6. traces[p]["B"] = <<>> \/ ~("FAILED" \in ToSet(traces[p]["A"]))
  <2>1. CASE turn[p] = 1
    BY <1>1, <2>1 DEF TicketInv
  <2>2. CASE turn[p] = 2
    <3>1. Whole(traces[p]["A"])
      BY <1>1, <2>2 DEF TicketInv
    <3>2. \A i \in DOMAIN traces[p]["A"] : traces[p]["A"][i] = "SUCCEEDED"
      BY <3>1 DEF Whole
    <3> QED BY <3>2 DEF ToSet
  <2> QED BY <1>1, <2>1, <2>2 DEF ControlType
<1>7. failed # {} => traces[p]["B"] = <<>> \/ failed = {"B"}
  BY <1>6, TwoEntrants
<1>8. result[p] = "PRESTART" => SpentBy(p) = 0
  BY <1>1 DEF VerdictInv
<1> QED BY <1>2, <1>3, <1>4, <1>5, <1>7, <1>8

\* "A backend failure consumes the single attempted ticket and stops": queries.jsonl tells every
\* ticket but the last, a failed one is the last of the run, run-start.json and the STARTED record
\* are durable before the first, and a run that reports PRESTART has spent none.
THEOREM QueriesTold == Spec => []QueriesAreTold
BY AccountOfQueries, ReplayInductive, RunAccounted, PTL

----------------------------------------------------------------------------
(* The accounting of a run: what a later event cannot lower *)

Event ==
    [id : Nat, turn : 0..MaxEvents, retry : {"NONE", "MANUAL", "AUTOMATIC"}, of : Nat,
     kind : {"SEARCH", "VERIFY", "MODEL"}, unit : STRING,
     status : {"SUCCEEDED", "FAILED", "REJECTED"}, class : STRING, results : Nat,
     elapsed : Nat, tokens : Measure, money : Measure, request : BOOLEAN]

\* The bounded maximum that Largest chooses.
LEMMA LargestOf ==
  ASSUME NEW S \in SUBSET (0..MaxEvents)
  PROVE  /\ Largest(S) \in 0..MaxEvents
         /\ \A k \in S : k <= Largest(S)
         /\ Largest(S) \in S \cup {0}
<1> DEFINE B == {n \in Nat : \A k \in S : k <= n}
<1>1. MaxEvents \in B
  BY BoundsAssumption
<1>2. PICK m \in B : \A n \in B : m <= n
  <2>1. B \in SUBSET Nat /\ B # {}
    BY <1>1
  <2> HIDE DEF B
  <2> QED BY <2>1, LeastElement
<1>3. m \in S \cup {0}
  <2> SUFFICES ASSUME m # 0, m \notin S PROVE FALSE
    OBVIOUS
  <2>1. \A k \in S : k <= m - 1
    BY <1>2, BoundsAssumption
  <2>2. m - 1 \in B /\ ~(m <= m - 1)
    BY <1>2, <2>1
  <2> QED BY <1>2, <2>2
<1>4. \E n \in S \cup {0} : \A k \in S : k <= n
  BY <1>2, <1>3
<1>5. Largest(S) \in S \cup {0} /\ \A k \in S : k <= Largest(S)
  BY <1>4, Zenon DEF Largest
<1>6. \A k \in S \cup {0} : k \in 0..MaxEvents
  BY BoundsAssumption
<1> QED BY <1>5, <1>6

LEMMA Grown ==
  ASSUME NEW es \in Seq(Event), NEW e \in Event
  PROVE  LET fs == Append(es, e) IN
         /\ fs \in Seq(Event) /\ Len(es) \in Nat /\ Len(fs) = Len(es) + 1
         /\ DOMAIN es = 1..Len(es) /\ DOMAIN fs = DOMAIN es \cup {Len(es) + 1}
         /\ Len(es) + 1 \notin DOMAIN es
         /\ \A i \in DOMAIN es : fs[i] = es[i] /\ es[i] \in Event
         /\ fs[Len(es) + 1] = e
OBVIOUS

LEMMA CountsGrow ==
  ASSUME NEW es \in Seq(Event), NEW e \in Event, NEW kind
  PROVE  /\ Attempts(es) \subseteq Attempts(Append(es, e))
         /\ Of(es, kind) \subseteq Of(Append(es, e), kind)
         /\ Cardinality(Of(es, kind)) \in Nat
         /\ Cardinality(Of(Append(es, e), kind)) \in Nat
         /\ Cardinality(Of(es, kind)) <= Cardinality(Of(Append(es, e), kind))
<1> DEFINE fs == Append(es, e)
<1>1. Attempts(es) \subseteq Attempts(fs) /\ Of(es, kind) \subseteq Of(fs, kind)
  BY Grown DEF Attempts, Of
<1>2. IsFiniteSet(Of(fs, kind))
  <2>1. Of(fs, kind) \subseteq 1..(Len(es) + 1) /\ Len(es) + 1 \in Nat
    BY Grown DEF Attempts, Of
  <2>2. IsFiniteSet(1..(Len(es) + 1))
    BY <2>1, FS_Interval
  <2> QED BY <2>1, <2>2, FS_Subset
<1>3. IsFiniteSet(Of(es, kind)) /\ Cardinality(Of(es, kind)) <= Cardinality(Of(fs, kind))
  BY <1>1, <1>2, FS_Subset
<1> QED BY <1>1, <1>2, <1>3, FS_CardinalityType

LEMMA TurnsGrow ==
  ASSUME NEW es \in Seq(Event), NEW e \in Event
  PROVE  /\ Turns(es) \in 0..MaxEvents /\ Turns(Append(es, e)) \in 0..MaxEvents
         /\ Turns(es) <= Turns(Append(es, e))
<1> DEFINE fs == Append(es, e)
           S == {es[i].turn : i \in Of(es, "SEARCH")}
           T == {fs[i].turn : i \in Of(fs, "SEARCH")}
<1>1. S \subseteq T
  BY CountsGrow, Grown DEF Attempts, Of
<1>2. T \subseteq 0..MaxEvents
  <2>1. \A i \in DOMAIN fs : fs[i] \in Event
    BY Grown
  <2>2. \A i \in Of(fs, "SEARCH") : i \in DOMAIN fs
    BY DEF Of, Attempts
  <2>3. \A f \in Event : f.turn \in 0..MaxEvents
    BY DEF Event
  <2> QED BY <2>1, <2>2, <2>3
<1>3. Largest(S) \in 0..MaxEvents /\ Largest(T) \in 0..MaxEvents /\ Largest(S) <= Largest(T)
  <2> HIDE DEF S, T
  <2>1. S \in SUBSET (0..MaxEvents) /\ T \in SUBSET (0..MaxEvents)
    BY <1>1, <1>2
  <2>2. /\ Largest(S) \in 0..MaxEvents /\ Largest(T) \in 0..MaxEvents
        /\ Largest(S) \in S \cup {0} /\ \A k \in T : k <= Largest(T)
    BY <2>1, LargestOf
  <2> QED BY <1>1, <2>2, BoundsAssumption
<1> QED BY <1>3 DEF Turns

\* A total that is missing stays missing, and one that is known only grows.
LEMMA TotalGrows ==
  ASSUME NEW es \in Seq(Event), NEW e \in Event, NEW what \in {"tokens", "money"}
  PROVE  /\ Total(es, what) \in Measure /\ Total(Append(es, e), what) \in Measure
         /\ Total(es, what).state # "KNOWN" => Total(Append(es, e), what).state # "KNOWN"
         /\ Total(Append(es, e), what).state = "KNOWN" =>
               Total(es, what).value <= Total(Append(es, e), what).value
<1> DEFINE fs == Append(es, e)
           n == Len(es)
           amount(ds) == [i \in DOMAIN ds |-> IF Crossed(ds[i]) THEN ds[i][what].value ELSE 0]
           states(ds) == {ds[i][what].state : i \in Attempts(ds)}
<1>1. \A d \in Event : d[what] \in Measure
  BY DEF Event
<1>2. \A m \in Measure : m.value \in Nat /\ m.state \in {"KNOWN", "UNKNOWN", "NOT_APPLICABLE"}
  BY DEF Measure
<1>3. /\ n \in Nat /\ DOMAIN es = 1..n /\ DOMAIN fs = 1..(n + 1)
      /\ \A i \in 1..n : es[i] \in Event /\ fs[i] = es[i]
      /\ \A i \in 1..(n + 1) : fs[i] \in Event
      /\ Len(fs) = n + 1
  <2>1. \A i \in DOMAIN fs : fs[i] \in Event
    BY Grown
  <2> QED BY <2>1, Grown
<1>4. /\ \A i \in 1..n : amount(es)[i] \in Nat /\ amount(fs)[i] = amount(es)[i]
      /\ \A i \in 1..(n + 1) : amount(fs)[i] \in Nat
  BY <1>1, <1>2, <1>3
<1>5. /\ SumTo(amount(es), n) \in Nat /\ SumTo(amount(fs), n + 1) \in Nat
      /\ SumTo(amount(es), n) <= SumTo(amount(fs), n + 1)
  <2> DEFINE f == amount(es)  g == amount(fs)
  <2>1. /\ \A i \in 1..n : f[i] \in Nat /\ g[i] = f[i]
        /\ \A i \in 1..(n + 1) : g[i] \in Nat
    BY <1>4
  <2> HIDE DEF f, g
  <2>2. n \in 0..n /\ n + 1 \in Nat /\ n + 1 \in 0..(n + 1) /\ n + 1 \in 1..(n + 1)
    BY <1>3
  <2>3. SumTo(f, n) \in Nat
    BY <1>3, <2>1, <2>2, SumType
  <2>4. SumTo(g, n + 1) \in Nat
    BY <2>1, <2>2, SumType
  <2>5. SumTo(g, n) = SumTo(f, n)
    BY <1>3, <2>1, SumSame
  <2>6. SumTo(g, n + 1) = SumTo(g, n) + g[n + 1]
    BY <1>3, SumGrows
  <2>7. SumTo(f, n) <= SumTo(g, n + 1)
    BY <2>1, <2>2, <2>3, <2>5, <2>6
  <2> QED BY <2>3, <2>4, <2>7 DEF f, g
<1>6. states(es) \subseteq states(fs)
  <2>1. \A i \in Attempts(es) : i \in Attempts(fs) /\ fs[i] = es[i]
    BY <1>3, CountsGrow DEF Attempts
  <2> QED BY <2>1
<1>7. /\ Total(es, what) = IF "UNKNOWN" \in states(es) THEN Missing("UNKNOWN")
                           ELSE IF "NOT_APPLICABLE" \in states(es) THEN Missing("NOT_APPLICABLE")
                           ELSE Known(SumTo(amount(es), n))
      /\ Total(fs, what) = IF "UNKNOWN" \in states(fs) THEN Missing("UNKNOWN")
                           ELSE IF "NOT_APPLICABLE" \in states(fs) THEN Missing("NOT_APPLICABLE")
                           ELSE Known(SumTo(amount(fs), n + 1))
  BY <1>3 DEF Total
<1> HIDE DEF amount, states
<1> QED BY <1>5, <1>6, <1>7 DEF Measure, Known, Missing

\* A breach of a ceiling is not mended by more of what was measured.
LEMMA BreachStays ==
  ASSUME NEW a \in Measure, NEW b \in Measure, NEW ceiling \in Measure, NEW label,
         a.state # "KNOWN" => b.state # "KNOWN",
         b.state = "KNOWN" => a.value <= b.value
  PROVE  Breach(a, ceiling, label) # {} => Breach(b, ceiling, label) # {}
<1>1. ceiling.value \in Nat /\ a.value \in Nat /\ b.value \in Nat
  BY DEF Measure
<1>2. \A v \in {a, b} : Breach(v, ceiling, label) # {} <=>
         ceiling.state = "KNOWN" /\ (v.state # "KNOWN" \/ v.value > ceiling.value)
  BY DEF Breach
<1>3. /\ Breach(a, ceiling, label) # {} <=>
            ceiling.state = "KNOWN" /\ (a.state # "KNOWN" \/ a.value > ceiling.value)
      /\ Breach(b, ceiling, label) # {} <=>
            ceiling.state = "KNOWN" /\ (b.state # "KNOWN" \/ b.value > ceiling.value)
  BY <1>2
<1> QED BY <1>1, <1>3

LEMMA SpecTypes ==
  ASSUME spec \in Specs
  PROVE  /\ spec.calls \in Nat /\ spec.turns \in Nat /\ spec.links \in Nat
         /\ spec.results \in Nat /\ spec.timeout \in Nat /\ spec.automaticRetries \in Nat
         /\ spec.runtime \in Measure /\ spec.tokens \in Measure /\ spec.money \in Measure
         /\ spec.manualRetry \in BOOLEAN
BY SpecsAssumption

\* Once over a limit or refused, over a limit or refused for good.
LEMMA OverrunsStay ==
  ASSUME spec \in Specs, NEW es \in Seq(Event), NEW e \in Event,
         NEW m \in Nat, NEW n \in Nat, m <= n
  PROVE  Overruns(es, m) # {} => Overruns(Append(es, e), n) # {}
<1> DEFINE fs == Append(es, e)
<1>1. /\ Attempts(es) \subseteq Attempts(fs)
      /\ \A k \in {"SEARCH", "VERIFY"} :
            /\ Of(es, k) \subseteq Of(fs, k)
            /\ Cardinality(Of(es, k)) \in Nat /\ Cardinality(Of(fs, k)) \in Nat
            /\ Cardinality(Of(es, k)) <= Cardinality(Of(fs, k))
  BY CountsGrow
<1>2. /\ \A i \in DOMAIN es : i \in DOMAIN fs /\ fs[i] = es[i]
      /\ Attempts(es) \subseteq DOMAIN es /\ Attempts(fs) \subseteq DOMAIN fs
      /\ Of(es, "SEARCH") \subseteq DOMAIN es
  BY Grown DEF Attempts, Of
<1>3. Turns(es) \in Nat /\ Turns(fs) \in Nat /\ Turns(es) <= Turns(fs)
  BY TurnsGrow, BoundsAssumption
<1>4. \A what \in {"tokens", "money"} :
         /\ Total(es, what) \in Measure /\ Total(fs, what) \in Measure
         /\ Total(es, what).state # "KNOWN" => Total(fs, what).state # "KNOWN"
         /\ Total(fs, what).state = "KNOWN" => Total(es, what).value <= Total(fs, what).value
  BY TotalGrows
<1>5. /\ Known(m) \in Measure /\ Known(n) \in Measure
      /\ Known(m).state = "KNOWN" /\ Known(m).value <= Known(n).value
  BY DEF Known, Measure
<1>6. PICK tokens, money, runtime : /\ tokens = Breach(Total(es, "tokens"), spec.tokens, "TOKENS")
                                   /\ money = Breach(Total(es, "money"), spec.money, "MONEY")
                                   /\ runtime = Breach(Known(m), spec.runtime, "RUNTIME")
  OBVIOUS
<1>7. PICK tokens2, money2, runtime2 :
         /\ tokens2 = Breach(Total(fs, "tokens"), spec.tokens, "TOKENS")
         /\ money2 = Breach(Total(fs, "money"), spec.money, "MONEY")
         /\ runtime2 = Breach(Known(n), spec.runtime, "RUNTIME")
  OBVIOUS
<1>8. /\ tokens # {} => tokens2 # {}
      /\ money # {} => money2 # {}
      /\ runtime # {} => runtime2 # {}
  BY <1>4, <1>5, <1>6, <1>7, BreachStays, SpecTypes
<1>9. \A r \in Overruns(es, m) :
         \/ r = <<"SEARCH_CALLS", "EXCEEDED">> /\ Cardinality(Of(es, "SEARCH")) > spec.calls
         \/ r = <<"SEARCH_TURNS", "EXCEEDED">> /\ Turns(es) > spec.turns
         \/ r = <<"FOLLOW_LINKS", "EXCEEDED">> /\ Cardinality(Of(es, "VERIFY")) > spec.links
         \/ /\ r = <<"RESULT_LIMIT", "EXCEEDED">>
            /\ \E i \in Of(es, "SEARCH") : es[i].results > spec.results
         \/ /\ r = <<"CALL_TIMEOUT", "EXCEEDED">>
            /\ \E i \in Attempts(es) : es[i].elapsed > spec.timeout
         \/ r \in tokens \/ r \in money \/ r \in runtime
         \/ r = <<"REQUEST", "REJECTED">> /\ Attempts(es) # DOMAIN es
  BY <1>6 DEF Overruns, Reason
<1>10. /\ Cardinality(Of(fs, "SEARCH")) > spec.calls => Overruns(fs, n) # {}
       /\ Turns(fs) > spec.turns => Overruns(fs, n) # {}
       /\ Cardinality(Of(fs, "VERIFY")) > spec.links => Overruns(fs, n) # {}
       /\ (\E i \in Of(fs, "SEARCH") : fs[i].results > spec.results) => Overruns(fs, n) # {}
       /\ (\E i \in Attempts(fs) : fs[i].elapsed > spec.timeout) => Overruns(fs, n) # {}
       /\ tokens2 # {} \/ money2 # {} \/ runtime2 # {} => Overruns(fs, n) # {}
       /\ Attempts(fs) # DOMAIN fs => Overruns(fs, n) # {}
  BY <1>7 DEF Overruns, Reason
<1>11. Attempts(es) # DOMAIN es => Attempts(fs) # DOMAIN fs
  BY <1>2 DEF Attempts
<1>12. ASSUME NEW r \in Overruns(es, m) PROVE Overruns(fs, n) # {}
  <2>1. CASE Cardinality(Of(es, "SEARCH")) > spec.calls
    BY <1>1, <1>10, <2>1, SpecTypes
  <2>2. CASE Turns(es) > spec.turns
    BY <1>3, <1>10, <2>2, SpecTypes
  <2>3. CASE Cardinality(Of(es, "VERIFY")) > spec.links
    BY <1>1, <1>10, <2>3, SpecTypes
  <2>4. CASE \E i \in Of(es, "SEARCH") : es[i].results > spec.results
    BY <1>1, <1>2, <1>10, <2>4
  <2>5. CASE \E i \in Attempts(es) : es[i].elapsed > spec.timeout
    BY <1>1, <1>2, <1>10, <2>5
  <2>6. CASE r \in tokens \/ r \in money \/ r \in runtime
    BY <1>8, <1>10, <2>6
  <2>7. CASE Attempts(es) # DOMAIN es
    BY <1>10, <1>11, <2>7
  <2> QED BY <1>9, <2>1, <2>2, <2>3, <2>4, <2>5, <2>6, <2>7
<1> QED BY <1>12

----------------------------------------------------------------------------
(* Receipts and verdicts *)

ReasonCode ==
    {"SEARCH_CALLS", "SEARCH_TURNS", "FOLLOW_LINKS", "RESULT_LIMIT", "CALL_TIMEOUT", "TOKENS",
     "MONEY", "RUNTIME", "REQUEST", "PRICE_EVIDENCE"}
        \X {"EXCEEDED", "COMPLIANCE_UNKNOWN", "REJECTED", "MISSING"}
ReceiptDoc ==
    [events : Seq(Event), reasons : SUBSET ReasonCode, failed : Nat,
     terminal : {"BLOCKED", "NOT_EVALUABLE", "PASS"}]

\* What no later event mends.
Broken(es, elapsed) == Overruns(es, elapsed) # {} \/ Failures(es) > 0

LEMMA ReasonsAreNamed ==
  ASSUME NEW es, NEW elapsed, NEW priced
  PROVE  Violations(es, elapsed, priced) \in SUBSET ReasonCode
<1>1. \A observed, ceiling, label :
         Breach(observed, ceiling, label) \subseteq
           {<<label, "EXCEEDED">>, <<label, "COMPLIANCE_UNKNOWN">>}
  BY DEF Breach
<1>2. PICK tokens, money, runtime :
         /\ tokens = Breach(Total(es, "tokens"), spec.tokens, "TOKENS")
         /\ money = Breach(Total(es, "money"), spec.money, "MONEY")
         /\ runtime = Breach(Known(elapsed), spec.runtime, "RUNTIME")
  OBVIOUS
<1>3. /\ tokens \subseteq {<<"TOKENS", "EXCEEDED">>, <<"TOKENS", "COMPLIANCE_UNKNOWN">>}
      /\ money \subseteq {<<"MONEY", "EXCEEDED">>, <<"MONEY", "COMPLIANCE_UNKNOWN">>}
      /\ runtime \subseteq {<<"RUNTIME", "EXCEEDED">>, <<"RUNTIME", "COMPLIANCE_UNKNOWN">>}
  BY <1>1, <1>2
<1>4. \A r \in tokens \cup money \cup runtime : r \in ReasonCode
  BY <1>3 DEF ReasonCode
<1>5. \A r \in Overruns(es, elapsed) :
         r \in tokens \cup money \cup runtime \/ r \in ReasonCode
  BY <1>2 DEF Overruns, Reason, ReasonCode
<1>6. \A r \in Violations(es, elapsed, priced) :
         r \in Overruns(es, elapsed) \/ r \in ReasonCode
  BY DEF Violations, Reason, PriceUnproved, ReasonCode
<1> QED BY <1>4, <1>5, <1>6

LEMMA PriceIsNoOverrun ==
  ASSUME NEW es, NEW elapsed
  PROVE  PriceUnproved \notin Overruns(es, elapsed)
<1>1. \A observed, ceiling, label : \A r \in Breach(observed, ceiling, label) : r # PriceUnproved
  <2> SUFFICES ASSUME NEW observed, NEW ceiling, NEW label
               PROVE  PriceUnproved \notin Breach(observed, ceiling, label)
    OBVIOUS
  <2>1. Breach(observed, ceiling, label) \subseteq
           {<<label, "EXCEEDED">>, <<label, "COMPLIANCE_UNKNOWN">>}
    BY DEF Breach
  <2>2. PriceUnproved \notin {<<label, "EXCEEDED">>, <<label, "COMPLIANCE_UNKNOWN">>}
    BY DEF PriceUnproved
  <2> QED BY <2>1, <2>2
<1>2. PICK tokens, money, runtime :
         /\ tokens = Breach(Total(es, "tokens"), spec.tokens, "TOKENS")
         /\ money = Breach(Total(es, "money"), spec.money, "MONEY")
         /\ runtime = Breach(Known(elapsed), spec.runtime, "RUNTIME")
  OBVIOUS
<1>3. PriceUnproved \notin tokens /\ PriceUnproved \notin money /\ PriceUnproved \notin runtime
  BY <1>1, <1>2
<1> QED BY <1>2, <1>3 DEF Overruns, Reason, PriceUnproved

LEMMA FailuresGrow ==
  ASSUME NEW es \in Seq(Event), NEW e \in Event
  PROVE  /\ Failures(es) \in Nat /\ Failures(Append(es, e)) \in Nat
         /\ Failures(es) <= Failures(Append(es, e))
<1> DEFINE fs == Append(es, e)
           S == {i \in DOMAIN es : es[i].status = "FAILED"}
           T == {i \in DOMAIN fs : fs[i].status = "FAILED"}
<1>1. S \subseteq T
  BY Grown
<1>2. IsFiniteSet(T)
  <2>1. T \subseteq 1..(Len(es) + 1) /\ Len(es) + 1 \in Nat
    BY Grown
  <2>2. IsFiniteSet(1..(Len(es) + 1))
    BY <2>1, FS_Interval
  <2> QED BY <2>1, <2>2, FS_Subset
<1>3. IsFiniteSet(S) /\ Cardinality(S) <= Cardinality(T)
  <2> HIDE DEF S, T
  <2> QED BY <1>1, <1>2, FS_Subset
<1>4. Cardinality(S) \in Nat /\ Cardinality(T) \in Nat
  <2> HIDE DEF S, T
  <2> QED BY <1>2, <1>3, FS_CardinalityType
<1> QED BY <1>3, <1>4 DEF Failures

LEMMA FailuresType ==
  ASSUME NEW es \in Seq(Event)
  PROVE  Failures(es) \in Nat
<1> DEFINE S == {i \in DOMAIN es : es[i].status = "FAILED"}
<1>1. S \subseteq 1..Len(es) /\ Len(es) \in Nat
  OBVIOUS
<1>2. IsFiniteSet(1..Len(es))
  BY <1>1, FS_Interval
<1>3. Cardinality(S) \in Nat
  <2> HIDE DEF S
  <2> QED BY <1>1, <1>2, FS_Subset, FS_CardinalityType
<1> QED BY <1>3 DEF Failures

LEMMA BrokenStays ==
  ASSUME spec \in Specs, NEW es \in Seq(Event), NEW e \in Event,
         NEW m \in Nat, NEW n \in Nat, m <= n, Broken(es, m)
  PROVE  Broken(Append(es, e), n)
<1>1. Overruns(es, m) # {} => Overruns(Append(es, e), n) # {}
  BY OverrunsStay
<1>2. Failures(es) > 0 => Failures(Append(es, e)) > 0
  BY FailuresGrow
<1> QED BY <1>1, <1>2 DEF Broken

\* A receipt is faulty exactly where the facts it was computed from are.
LEMMA ReceiptTells ==
  ASSUME spec \in Specs, NEW es \in Seq(Event), NEW n \in Nat, NEW priced \in BOOLEAN
  PROVE  /\ Receipt(es, n, priced) \in ReceiptDoc
         /\ Faulty(Receipt(es, n, priced)) <=> Broken(es, n)
         /\ Broken(es, n) => Receipt(es, n, priced).terminal # "PASS"
<1> DEFINE r == Receipt(es, n, priced)
<1>1. /\ r.events = es /\ r.reasons = Violations(es, n, priced) /\ r.failed = Failures(es)
      /\ r.terminal = IF Violations(es, n, priced) # {} THEN "BLOCKED"
                      ELSE IF Failures(es) > 0 THEN "NOT_EVALUABLE" ELSE "PASS"
      /\ r = [events |-> r.events, reasons |-> r.reasons, failed |-> r.failed,
              terminal |-> r.terminal]
  BY DEF Receipt
<1>2. r.reasons \in SUBSET ReasonCode /\ r.failed \in Nat
  BY <1>1, ReasonsAreNamed, FailuresType
<1>3. r \in ReceiptDoc
  BY <1>1, <1>2 DEF ReceiptDoc
<1>4. Violations(es, n, priced) \ {PriceUnproved} = Overruns(es, n)
  BY PriceIsNoOverrun DEF Violations, Reason
<1>5. Faulty(r) <=> Broken(es, n)
  BY <1>1, <1>4 DEF Faulty, Broken
<1>6. Broken(es, n) => r.terminal # "PASS"
  BY <1>1, <1>4 DEF Broken
<1> QED BY <1>3, <1>5, <1>6

RecordsType ==
    /\ spec \in Specs /\ events \in Seq(Event) /\ clock \in Nat
    /\ issued \in Seq(ReceiptDoc)

\* The facts of a run stay as bad as the worst receipt says.
FaultInv ==
    /\ \A k \in DOMAIN issued : Faulty(issued[k]) => Broken(events, clock)
    /\ \A j, k \in DOMAIN issued : j <= k /\ Faulty(issued[j]) => issued[k].terminal # "PASS"
    /\ \A o \in outputs :
          o.on \in DOMAIN issued /\ (o.status \in Quality => issued[o.on].terminal = "PASS")

\* What append adds.
LEMMA RecordAppends ==
  ASSUME RecordsType, Record
  PROVE  \E e \in Event :
            /\ events' = Append(events, e) /\ Valid(e, events)
            /\ e.id # 0 /\ e.of \in Nat
            /\ clock' \in Nat /\ clock <= clock'
            /\ UNCHANGED <<spec, issued, outputs>>
<1>1. PICK f \in Facts, number \in 0..MaxEvents, retry \in {"NONE", "MANUAL", "AUTOMATIC"},
           of \in 0..Len(events), id \in 1..(Len(events) + 1), advance \in 0..1 :
          LET e == EventOf(f, id, number, retry, of)
          IN  /\ Valid(e, events)
              /\ events' = Append(events, e)
              /\ clock + advance <= MaxClock
              /\ clock' = clock + advance
  BY DEF Record
<1>2. /\ id \in Nat /\ id # 0 /\ of \in Nat /\ Len(events) \in Nat
  BY DEF RecordsType
<1>3. f \in [kind : {"SEARCH", "VERIFY", "MODEL"}, unit : STRING,
         status : {"SUCCEEDED", "FAILED", "REJECTED"}, class : STRING, results : Nat,
         elapsed : Nat, tokens : Measure, money : Measure, request : BOOLEAN]
  BY FactsAssumption
<1> DEFINE e == EventOf(f, id, number, retry, of)
<1>4. e.id = id /\ e.of = of
  BY DEF EventOf
<1>5. e \in Event
  BY <1>2, <1>3 DEF EventOf, Event
<1>6. UNCHANGED <<spec, issued, outputs>>
  BY DEF Record
<1> QED BY <1>1, <1>2, <1>4, <1>5, <1>6 DEF RecordsType

LEMMA LedgerStep == RecordsType /\ FaultInv /\ [LedgerNext]_ledgerVars => RecordsType' /\ FaultInv'
<1> SUFFICES ASSUME RecordsType, FaultInv, [LedgerNext]_ledgerVars
             PROVE  RecordsType' /\ FaultInv'
  OBVIOUS
<1>1. CASE Record
  <2>1. PICK e \in Event : /\ events' = Append(events, e)
                           /\ clock' \in Nat /\ clock <= clock'
                           /\ UNCHANGED <<spec, issued, outputs>>
    BY <1>1, RecordAppends
  <2>2. RecordsType'
    BY <2>1 DEF RecordsType
  <2>3. Broken(events, clock) => Broken(Append(events, e), clock')
    BY <2>1, BrokenStays DEF RecordsType
  <2>4. Broken(events, clock)' <=> Broken(Append(events, e), clock')
    BY <2>1 DEF Broken, Overruns
  <2>5. FaultInv'
    BY <2>1, <2>3, <2>4 DEF FaultInv, Faulty
  <2> QED BY <2>2, <2>5
<1>2. CASE Issue
  <2>1. PICK priced \in BOOLEAN : issued' = Append(issued, Receipt(events, clock, priced))
    BY <1>2 DEF Issue
  <2> DEFINE r == Receipt(events, clock, priced)  n == Len(issued)
  <2>2. /\ UNCHANGED <<spec, events, clock, outputs>> /\ outputs = {}
    BY <1>2 DEF Issue
  <2>3. /\ r \in ReceiptDoc
        /\ Faulty(r) <=> Broken(events, clock)
        /\ Broken(events, clock) => r.terminal # "PASS"
    BY ReceiptTells DEF RecordsType
  <2>4. /\ n \in Nat /\ DOMAIN issued = 1..n /\ DOMAIN issued' = 1..(n + 1)
        /\ \A k \in 1..n : issued'[k] = issued[k]
        /\ issued'[n + 1] = r /\ issued' \in Seq(ReceiptDoc)
    BY <2>1, <2>3 DEF RecordsType
  <2>5. Broken(events, clock)' <=> Broken(events, clock)
    BY <2>2 DEF Broken, Overruns
  <2> HIDE DEF r, n
  <2>6. \A k \in DOMAIN issued' : Faulty(issued'[k]) => Broken(events, clock)
    BY <2>3, <2>4 DEF FaultInv
  <2>7. \A j, k \in DOMAIN issued' : j <= k /\ Faulty(issued'[j]) => issued'[k].terminal # "PASS"
    <3> SUFFICES ASSUME NEW j \in 1..(n + 1), NEW k \in 1..(n + 1), j <= k, Faulty(issued'[j])
                 PROVE  issued'[k].terminal # "PASS"
      BY <2>4
    <3>1. CASE k = n + 1
      BY <2>3, <2>4, <2>6, <3>1
    <3>2. CASE k # n + 1
      BY <2>4, <3>2 DEF FaultInv
    <3> QED BY <3>1, <3>2
  <2>8. FaultInv'
    BY <2>2, <2>5, <2>6, <2>7 DEF FaultInv, Faulty
  <2> QED BY <2>2, <2>4, <2>8 DEF RecordsType
<1>3. CASE Publish
  <2>1. PICK on \in DOMAIN issued, n \in Entrants,
             status \in Quality \cup {"UNKNOWN", "NOT_EVALUABLE"},
             class \in {"NONE", "MODEL_QUALITY", "INSUFFICIENT_EVIDENCE", "NON_COMPARABLE"} :
          /\ ValidOutput(status, class, n, issued[on])
          /\ outputs' = {[status |-> status, entrant |-> n, on |-> on]}
    BY <1>3 DEF Publish
  <2>2. UNCHANGED <<spec, events, clock, issued>>
    BY <1>3 DEF Publish
  <2>3. status \in Quality => issued[on].terminal = "PASS"
    BY <2>1 DEF ValidOutput
  <2>4. Broken(events, clock)' <=> Broken(events, clock)
    BY <2>2 DEF Broken, Overruns
  <2>5. \A o \in outputs' : o.on = on /\ o.status = status
    BY <2>1
  <2>6. FaultInv'
    BY <2>2, <2>3, <2>4, <2>5 DEF FaultInv, Faulty
  <2> QED BY <2>2, <2>6 DEF RecordsType
<1>4. CASE UNCHANGED ledgerVars
  <2>1. UNCHANGED <<spec, events, clock, issued, outputs>>
    BY <1>4 DEF ledgerVars
  <2>2. Broken(events, clock)' <=> Broken(events, clock)
    BY <2>1 DEF Broken, Overruns
  <2> QED BY <2>1, <2>2 DEF RecordsType, FaultInv, Faulty
<1> QED BY <1>1, <1>2, <1>3, <1>4 DEF LedgerNext

----------------------------------------------------------------------------
(* Chains of retries *)

\* A retry names an earlier attempt, and identities are distinct.
Ordered(es) ==
    /\ \A i, j \in DOMAIN es : es[i].id = es[j].id => i = j
    /\ \A i \in DOMAIN es :
          /\ es[i].id # NoRetry
          /\ es[i].retry = "NONE" <=> es[i].of = NoRetry
          /\ es[i].of # NoRetry => \E t \in 1..(i - 1) : es[t].id = es[i].of

LEMMA RetryComesLater ==
  ASSUME NEW es \in Seq(Event), Ordered(es), NEW i \in DOMAIN es, es[i].of # NoRetry
  PROVE  /\ Position(es, es[i].of) \in 1..(i - 1) /\ Position(es, es[i].of) \in DOMAIN es
         /\ es[Position(es, es[i].of)].id = es[i].of
<1>1. PICK t \in 1..(i - 1) : es[t].id = es[i].of
  BY DEF Ordered
<1>2. t \in DOMAIN es
  OBVIOUS
<1>3. Position(es, es[i].of) \in DOMAIN es /\ es[Position(es, es[i].of)].id = es[i].of
  BY <1>1, <1>2 DEF Position
<1>4. Position(es, es[i].of) = t
  BY <1>1, <1>2, <1>3 DEF Ordered
<1> QED BY <1>1, <1>3, <1>4

\* root follows the chains of the first n events.
Follows(root, es, n) ==
    root = [i \in 1..n |-> IF es[i].of = NoRetry THEN i ELSE root[Position(es, es[i].of)]]

LEMMA RootsExist ==
  ASSUME NEW es \in Seq(Event), Ordered(es)
  PROVE  \E root : Follows(root, es, Len(es))
<1> DEFINE S == {k \in Nat : k <= Len(es) => \E g : Follows(g, es, k)}
           before(i) == Position(es, es[i].of)
<1>0. Len(es) \in Nat /\ DOMAIN es = 1..Len(es)
  OBVIOUS
<1>1. 0 \in S
  <2> DEFINE g == [i \in 1..0 |-> 0]
  <2>1. Follows(g, es, 0)
    BY DEF Follows
  <2> QED BY <2>1
<1>2. ASSUME NEW k \in Nat, k \in S PROVE k + 1 \in S
  <2> SUFFICES ASSUME k + 1 <= Len(es) PROVE \E g : Follows(g, es, k + 1)
    OBVIOUS
  <2>1. PICK g : Follows(g, es, k)
    BY <1>0, <1>2
  <2> DEFINE h == [i \in 1..(k + 1) |->
                     IF i # k + 1 THEN g[i]
                     ELSE IF es[i].of = NoRetry THEN i ELSE g[before(i)]]
  <2>2. ASSUME NEW i \in 1..(k + 1)
        PROVE  h[i] = IF es[i].of = NoRetry THEN i ELSE h[before(i)]
    <3>1. es[i].of # NoRetry => before(i) \in 1..(i - 1)
      BY <1>0, RetryComesLater
    <3>2. es[i].of # NoRetry => before(i) \in 1..k /\ h[before(i)] = g[before(i)]
      BY <3>1
    <3>3. CASE i = k + 1
      BY <3>2, <3>3
    <3>4. CASE i # k + 1
      <4>1. i \in 1..k /\ h[i] = g[i]
        BY <3>4
      <4>2. g[i] = IF es[i].of = NoRetry THEN i ELSE g[before(i)]
        BY <2>1, <4>1 DEF Follows
      <4> QED BY <3>2, <4>1, <4>2
    <3> QED BY <3>3, <3>4
  <2>3. h = [i \in 1..(k + 1) |-> h[i]]
    OBVIOUS
  <2>4. Follows(h, es, k + 1)
    <3> HIDE DEF h
    <3> QED BY <2>2, <2>3 DEF Follows
  <2> QED BY <2>4
<1>3. Nat \subseteq S
  <2> HIDE DEF S
  <2> QED BY <1>1, <1>2, Induction
<1> QED BY <1>0, <1>3

\* The root of a retry is the root of what it retries.
LEMMA RootAt ==
  ASSUME NEW es \in Seq(Event), Ordered(es), NEW i \in DOMAIN es
  PROVE  RootOf(es)[i] = IF es[i].of = NoRetry THEN i ELSE RootOf(es)[Position(es, es[i].of)]
<1> DEFINE g == CHOOSE h : Follows(h, es, Len(es))
<1>1. Follows(g, es, Len(es))
  BY RootsExist, Zenon
<1>2. RootOf(es) = g
  <2>1. DOMAIN es = 1..Len(es)
    OBVIOUS
  <2> QED BY <2>1, Zenon DEF RootOf, Follows
<1> HIDE DEF g
<1>3. i \in 1..Len(es)
  OBVIOUS
<1> QED BY <1>1, <1>2, <1>3 DEF Follows

LEMMA RootInside ==
  ASSUME NEW es \in Seq(Event), Ordered(es)
  PROVE  \A i \in DOMAIN es : RootOf(es)[i] \in DOMAIN es
<1> DEFINE S == {k \in Nat : \A i \in DOMAIN es : i <= k => RootOf(es)[i] \in DOMAIN es}
<1>0. Len(es) \in Nat /\ DOMAIN es = 1..Len(es)
  OBVIOUS
<1>1. 0 \in S
  BY <1>0
<1>2. ASSUME NEW k \in Nat, k \in S PROVE k + 1 \in S
  <2> SUFFICES ASSUME NEW i \in DOMAIN es, i = k + 1 PROVE RootOf(es)[i] \in DOMAIN es
    BY <1>0, <1>2
  <2>1. RootOf(es)[i] = IF es[i].of = NoRetry THEN i ELSE RootOf(es)[Position(es, es[i].of)]
    BY RootAt
  <2>2. CASE es[i].of = NoRetry
    BY <2>1, <2>2
  <2>3. CASE es[i].of # NoRetry
    <3>1. Position(es, es[i].of) \in 1..(i - 1) /\ Position(es, es[i].of) \in DOMAIN es
      BY <2>3, RetryComesLater
    <3>2. RootOf(es)[Position(es, es[i].of)] \in DOMAIN es
      BY <1>0, <1>2, <3>1
    <3> QED BY <2>1, <2>3, <3>2
  <2> QED BY <2>2, <2>3
<1>3. Nat \subseteq S
  <2> HIDE DEF S
  <2> QED BY <1>1, <1>2, Induction
<1> QED BY <1>0, <1>3

LEMMA OrderedPrefix ==
  ASSUME NEW es \in Seq(Event), NEW e \in Event, Ordered(Append(es, e))
  PROVE  Ordered(es)
<1> DEFINE fs == Append(es, e)
<1>1. DOMAIN es = 1..Len(es) /\ Len(es) \in Nat /\ \A i \in DOMAIN es : i \in DOMAIN fs /\ fs[i] = es[i]
  BY Grown
<1>2. \A i \in DOMAIN es : \A t \in 1..(i - 1) : t \in DOMAIN es
  BY <1>1
<1> HIDE DEF fs
<1>3. Ordered(fs)
  BY DEF fs
<1>4. \A i, j \in DOMAIN es : es[i].id = es[j].id => i = j
  BY <1>1, <1>3 DEF Ordered
<1>5. ASSUME NEW i \in DOMAIN es
      PROVE  /\ es[i].id # NoRetry
             /\ es[i].retry = "NONE" <=> es[i].of = NoRetry
             /\ es[i].of # NoRetry => \E t \in 1..(i - 1) : es[t].id = es[i].of
  BY <1>1, <1>2, <1>3 DEF Ordered
<1> QED BY <1>4, <1>5 DEF Ordered

\* A later event changes no root.
LEMMA RootsKept ==
  ASSUME NEW es \in Seq(Event), NEW e \in Event, Ordered(Append(es, e)), NEW i \in DOMAIN es
  PROVE  RootOf(Append(es, e))[i] = RootOf(es)[i]
<1> DEFINE fs == Append(es, e)
           S == {k \in Nat : \A j \in DOMAIN es : j <= k => RootOf(fs)[j] = RootOf(es)[j]}
<1>0. /\ fs \in Seq(Event) /\ Ordered(es) /\ Ordered(fs)
      /\ DOMAIN es = 1..Len(es) /\ Len(es) \in Nat
      /\ \A j \in DOMAIN es : j \in DOMAIN fs /\ fs[j] = es[j]
  BY Grown, OrderedPrefix
<1>1. 0 \in S
  BY <1>0
<1>2. ASSUME NEW k \in Nat, k \in S PROVE k + 1 \in S
  <2> SUFFICES ASSUME NEW j \in DOMAIN es, j = k + 1 PROVE RootOf(fs)[j] = RootOf(es)[j]
    BY <1>0, <1>2
  <2>1. /\ RootOf(es)[j] = IF es[j].of = NoRetry THEN j ELSE RootOf(es)[Position(es, es[j].of)]
        /\ RootOf(fs)[j] = IF es[j].of = NoRetry THEN j ELSE RootOf(fs)[Position(fs, es[j].of)]
    <3>1. RootOf(es)[j] = IF es[j].of = NoRetry THEN j ELSE RootOf(es)[Position(es, es[j].of)]
      BY <1>0, RootAt
    <3>2. RootOf(fs)[j] = IF fs[j].of = NoRetry THEN j ELSE RootOf(fs)[Position(fs, fs[j].of)]
      BY <1>0, RootAt
    <3> QED BY <1>0, <3>1, <3>2
  <2>2. CASE es[j].of = NoRetry
    BY <2>1, <2>2
  <2>3. CASE es[j].of # NoRetry
    <3>1. /\ Position(es, es[j].of) \in 1..(j - 1) /\ Position(es, es[j].of) \in DOMAIN es
          /\ es[Position(es, es[j].of)].id = es[j].of
      BY <1>0, <2>3, RetryComesLater
    <3>2. Position(fs, fs[j].of) \in DOMAIN fs /\ fs[Position(fs, fs[j].of)].id = fs[j].of
      <4>1. j \in DOMAIN fs /\ fs[j].of # NoRetry
        BY <1>0, <2>3
      <4> QED BY <1>0, <4>1, RetryComesLater
    <3>3. Position(fs, es[j].of) = Position(es, es[j].of)
      <4>1. fs[j] = es[j]
        BY <1>0
      <4>2. /\ Position(es, es[j].of) \in DOMAIN fs
            /\ fs[Position(es, es[j].of)].id = es[j].of
        BY <1>0, <3>1
      <4> HIDE DEF fs
      <4>3. Position(fs, es[j].of) \in DOMAIN fs /\ fs[Position(fs, es[j].of)].id = es[j].of
        BY <3>2, <4>1
      <4> QED BY <1>0, <4>2, <4>3 DEF Ordered
    <3>4. RootOf(fs)[Position(es, es[j].of)] = RootOf(es)[Position(es, es[j].of)]
      BY <1>0, <1>2, <3>1
    <3> QED BY <2>1, <2>3, <3>3, <3>4
  <2> QED BY <2>2, <2>3
<1>3. Nat \subseteq S
  <2> HIDE DEF S
  <2> QED BY <1>1, <1>2, Induction
<1> QED BY <1>0, <1>3

\* The retries of a request are its automatic and, where declared, manual ones.
ChainInv ==
    /\ Ordered(events)
    /\ \A t \in DOMAIN events : Cardinality(AutomaticOf(events, t)) <= spec.automaticRetries
    /\ ~spec.manualRetry => \A i \in DOMAIN events : events[i].retry # "MANUAL"

LEMMA AutomaticIsFinite ==
  ASSUME NEW es \in Seq(Event), NEW t
  PROVE  IsFiniteSet(AutomaticOf(es, t)) /\ Cardinality(AutomaticOf(es, t)) \in Nat
<1>1. AutomaticOf(es, t) \subseteq 1..Len(es) /\ Len(es) \in Nat
  BY DEF AutomaticOf
<1>2. IsFiniteSet(1..Len(es))
  BY <1>1, FS_Interval
<1> QED BY <1>1, <1>2, FS_Subset, FS_CardinalityType

\* What _validate_event lets through keeps the order, and the declared number.
LEMMA ValidIsOrdered ==
  ASSUME NEW es \in Seq(Event), NEW e \in Event, Ordered(es), Valid(e, es), e.id # 0
  PROVE  Ordered(Append(es, e))
<1> DEFINE fs == Append(es, e)  n == Len(es) + 1
<1>1. /\ Len(es) \in Nat /\ DOMAIN es = 1..Len(es) /\ DOMAIN fs = DOMAIN es \cup {n}
      /\ n \notin DOMAIN es /\ \A i \in DOMAIN es : fs[i] = es[i]
      /\ fs[n] = e
  BY Grown
<1>2. /\ \A i \in DOMAIN es : es[i].id # e.id
      /\ e.retry = "NONE" => e.of = NoRetry
      /\ e.retry # "NONE" => \E t \in DOMAIN es : es[t].id = e.of
  BY DEF Valid, Retriable
<1> HIDE DEF fs
<1>3. \A i, j \in DOMAIN fs : fs[i].id = fs[j].id => i = j
  BY <1>1, <1>2 DEF Ordered
<1>4. ASSUME NEW i \in DOMAIN es
      PROVE  /\ fs[i].id # NoRetry
             /\ fs[i].retry = "NONE" <=> fs[i].of = NoRetry
             /\ fs[i].of # NoRetry => \E t \in 1..(i - 1) : fs[t].id = fs[i].of
  <2>1. \A t \in 1..(i - 1) : t \in DOMAIN es
    BY <1>1
  <2> QED BY <1>1, <2>1 DEF Ordered
<1>5. /\ fs[n].id # NoRetry
      /\ fs[n].retry = "NONE" <=> fs[n].of = NoRetry
      /\ fs[n].of # NoRetry => \E t \in 1..(n - 1) : fs[t].id = fs[n].of
  <2>1. e.id # NoRetry /\ \A t \in DOMAIN es : es[t].id # NoRetry
    BY DEF NoRetry, Ordered
  <2>2. 1..(n - 1) = DOMAIN es
    BY <1>1
  <2> QED BY <1>1, <1>2, <2>1, <2>2
<1>6. Ordered(fs)
  BY <1>1, <1>3, <1>4, <1>5 DEF Ordered
<1> QED BY <1>6 DEF fs

LEMMA ValidKeepsCount ==
  ASSUME spec \in Specs, NEW es \in Seq(Event), NEW e \in Event, Ordered(es),
         Valid(e, es), e.id # 0,
         \A t \in DOMAIN es : Cardinality(AutomaticOf(es, t)) <= spec.automaticRetries,
         NEW x \in DOMAIN Append(es, e)
  PROVE  Cardinality(AutomaticOf(Append(es, e), x)) <= spec.automaticRetries
<1> DEFINE fs == Append(es, e)  n == Len(es) + 1
<1>1. /\ fs \in Seq(Event)
      /\ Len(es) \in Nat /\ DOMAIN es = 1..Len(es) /\ DOMAIN fs = DOMAIN es \cup {n}
      /\ n \notin DOMAIN es /\ \A i \in DOMAIN es : fs[i] = es[i]
      /\ fs[n] = e
  BY Grown
<1>2. Ordered(fs)
  BY ValidIsOrdered
<1>3. \A i \in DOMAIN es : RootOf(fs)[i] = RootOf(es)[i]
  BY <1>2, RootsKept
<1>4. spec.automaticRetries \in Nat
  BY SpecTypes
<1> SUFFICES ASSUME x \in DOMAIN fs PROVE Cardinality(AutomaticOf(fs, x)) <= spec.automaticRetries
  OBVIOUS
<1> HIDE DEF fs, n
<1>5. \A i \in DOMAIN es : RootOf(es)[i] \in DOMAIN es
  BY RootInside
<1>6. ASSUME NEW t \in DOMAIN es, RootOf(fs)[x] = RootOf(es)[t],
             e.retry = "AUTOMATIC" /\ RootOf(fs)[n] = RootOf(es)[t] =>
                 Cardinality(AutomaticOf(es, t)) < spec.automaticRetries
      PROVE  Cardinality(AutomaticOf(fs, x)) <= spec.automaticRetries
  <2>1. AutomaticOf(fs, x) =
           {i \in DOMAIN fs : fs[i].retry = "AUTOMATIC" /\ RootOf(fs)[i] = RootOf(es)[t]}
    BY <1>6 DEF AutomaticOf
  <2>2. AutomaticOf(fs, x) \subseteq AutomaticOf(es, t) \cup {n}
    BY <1>1, <1>3, <2>1 DEF AutomaticOf
  <2>3. IsFiniteSet(AutomaticOf(es, t)) /\ Cardinality(AutomaticOf(es, t)) \in Nat
    BY AutomaticIsFinite
  <2>4. CASE n \in AutomaticOf(fs, x)
    <3>1. Cardinality(AutomaticOf(es, t)) < spec.automaticRetries
      BY <1>1, <1>6, <2>1, <2>4
    <3>2. /\ IsFiniteSet(AutomaticOf(es, t) \cup {n})
          /\ Cardinality(AutomaticOf(es, t) \cup {n}) <= Cardinality(AutomaticOf(es, t)) + 1
      <4>1. n \notin AutomaticOf(es, t)
        BY <1>1 DEF AutomaticOf
      <4>2. /\ IsFiniteSet(AutomaticOf(es, t) \cup {n})
            /\ Cardinality(AutomaticOf(es, t) \cup {n}) = Cardinality(AutomaticOf(es, t)) + 1
        BY <2>3, <4>1, FS_AddElement
      <4> QED BY <2>3, <4>2
    <3>3. Cardinality(AutomaticOf(fs, x)) <= Cardinality(AutomaticOf(es, t) \cup {n})
      BY <2>2, <3>2, FS_Subset
    <3>4. Cardinality(AutomaticOf(fs, x)) \in Nat /\ Cardinality(AutomaticOf(es, t) \cup {n}) \in Nat
      BY <1>1, <3>2, AutomaticIsFinite, FS_CardinalityType
    <3> QED BY <1>4, <2>3, <3>1, <3>2, <3>3, <3>4
  <2>5. CASE n \notin AutomaticOf(fs, x)
    <3>1. AutomaticOf(fs, x) \subseteq AutomaticOf(es, t)
      BY <2>2, <2>5
    <3>2. Cardinality(AutomaticOf(fs, x)) <= Cardinality(AutomaticOf(es, t))
      BY <2>3, <3>1, FS_Subset
    <3>3. Cardinality(AutomaticOf(es, t)) <= spec.automaticRetries
      OBVIOUS
    <3>4. Cardinality(AutomaticOf(fs, x)) \in Nat
      BY <1>1, AutomaticIsFinite
    <3> QED BY <1>4, <2>3, <3>2, <3>3, <3>4
  <2> QED BY <2>4, <2>5
\* The chain the new event belongs to has the declared number of retries to go.
<1>7. CASE e.of = NoRetry
  <2>1. RootOf(fs)[n] = n /\ e.retry = "NONE"
    <3>1. n \in DOMAIN fs /\ fs[n] = e
      BY <1>1
    <3>2. RootOf(fs)[n] = n
      BY <1>1, <1>2, <1>7, <3>1, RootAt
    <3>3. e.retry = "NONE"
      BY <1>2, <1>7, <3>1 DEF Ordered
    <3> QED BY <3>2, <3>3
  <2>2. CASE x \in DOMAIN es
    <3>1. RootOf(fs)[x] = RootOf(es)[x]
      BY <1>3, <2>2
    <3> QED BY <1>6, <2>1, <2>2, <3>1
  <2>3. CASE x = n
    <3>1. AutomaticOf(fs, x) = {}
      <4>1. \A i \in DOMAIN es : RootOf(fs)[i] # n
        BY <1>1, <1>3, <1>5
      <4> QED BY <1>1, <2>1, <2>3, <4>1 DEF AutomaticOf
    <3> QED BY <1>4, <3>1, FS_EmptySet
  <2> QED BY <1>1, <2>2, <2>3
<1>8. CASE e.of # NoRetry
  <2>1. n \in DOMAIN fs /\ fs[n] = e
    BY <1>1
  <2>2. /\ Position(fs, e.of) \in 1..(n - 1) /\ Position(fs, e.of) \in DOMAIN fs
        /\ fs[Position(fs, e.of)].id = e.of
    BY <1>1, <1>2, <1>8, <2>1, RetryComesLater
  <2>3. e.retry # "NONE"
    BY <1>2, <1>8, <2>1 DEF Ordered
  <2>4. PICK t \in DOMAIN es : /\ es[t].id = e.of
                               /\ e.retry = "AUTOMATIC" =>
                                    Cardinality(AutomaticOf(es, t)) < spec.automaticRetries
    BY <2>3 DEF Valid, Retriable
  <2>5. Position(fs, e.of) = t
    BY <1>1, <1>2, <2>2, <2>4 DEF Ordered
  <2>6. RootOf(fs)[n] = RootOf(es)[t]
    <3>1. RootOf(fs)[n] = RootOf(fs)[Position(fs, e.of)]
      BY <1>1, <1>2, <1>8, <2>1, RootAt
    <3> QED BY <1>3, <2>5, <3>1
  <2>7. CASE RootOf(fs)[x] = RootOf(es)[t]
    BY <1>6, <2>4, <2>7
  <2>8. CASE RootOf(fs)[x] # RootOf(es)[t]
    <3>1. x \in DOMAIN es
      BY <1>1, <2>6, <2>8
    <3>2. RootOf(fs)[x] = RootOf(es)[x] /\ RootOf(fs)[n] # RootOf(es)[x]
      BY <1>3, <2>6, <2>8, <3>1
    <3> QED BY <1>6, <3>1, <3>2
  <2> QED BY <2>7, <2>8
<1> QED BY <1>7, <1>8

LEMMA ChainStep == RecordsType /\ ChainInv /\ [LedgerNext]_ledgerVars => ChainInv'
<1> SUFFICES ASSUME RecordsType, ChainInv, [LedgerNext]_ledgerVars PROVE ChainInv'
  OBVIOUS
<1>1. CASE Record
  <2>1. PICK e \in Event : /\ events' = Append(events, e) /\ Valid(e, events) /\ e.id # 0
                           /\ UNCHANGED spec
    BY <1>1, RecordAppends
  <2>2. Ordered(events')
    BY <2>1, ValidIsOrdered DEF RecordsType, ChainInv
  <2>3. \A t \in DOMAIN events' : Cardinality(AutomaticOf(events', t)) <= spec.automaticRetries
    BY <2>1, ValidKeepsCount DEF RecordsType, ChainInv
  <2>4. ~spec.manualRetry => \A i \in DOMAIN events' : events'[i].retry # "MANUAL"
    <3>1. e.retry = "MANUAL" => spec.manualRetry
      BY <2>1 DEF Valid, Retriable
    <3>2. /\ DOMAIN events' = DOMAIN events \cup {Len(events) + 1}
          /\ \A i \in DOMAIN events : events'[i] = events[i]
          /\ events'[Len(events) + 1] = e
      BY <2>1, Grown DEF RecordsType
    <3> QED BY <3>1, <3>2 DEF ChainInv
  <2> QED BY <2>1, <2>2, <2>3, <2>4 DEF ChainInv
<1>2. CASE UNCHANGED <<spec, events>>
  BY <1>2 DEF ChainInv
<1>3. Issue \/ Publish => UNCHANGED <<spec, events>>
  BY DEF Issue, Publish
<1>4. UNCHANGED ledgerVars => UNCHANGED <<spec, events>>
  BY DEF ledgerVars
<1> QED BY <1>1, <1>2, <1>3, <1>4 DEF LedgerNext

\* The retries of a request share its root.
LEMMA RetriesShareRoot ==
  ASSUME RecordsType, Ordered(events), NEW i \in DOMAIN events
  PROVE  RetriesOf(i) \subseteq
           {j \in DOMAIN events : events[j].retry # "NONE"
                                  /\ RootOf(events)[j] = RootOf(events)[i]}
<1> DEFINE T == {j \in DOMAIN events : events[j].retry # "NONE"
                                       /\ RootOf(events)[j] = RootOf(events)[i]}
<1>1. ASSUME NEW j \in DOMAIN events, NEW k \in T \cup {i}, events[j].of = events[k].id
      PROVE  j \in T
  <2>1. k \in DOMAIN events /\ RootOf(events)[k] = RootOf(events)[i] /\ events[k].id # NoRetry
    BY DEF Ordered
  <2>2. events[j].of # NoRetry /\ events[j].retry # "NONE"
    BY <1>1, <2>1 DEF Ordered
  <2>3. /\ Position(events, events[j].of) \in DOMAIN events
        /\ events[Position(events, events[j].of)].id = events[j].of
    BY <2>2, RetryComesLater DEF RecordsType
  <2>4. Position(events, events[j].of) = k
    BY <1>1, <2>1, <2>3 DEF Ordered
  <2>5. RootOf(events)[j] = RootOf(events)[Position(events, events[j].of)]
    BY <2>2, RootAt DEF RecordsType
  <2> QED BY <2>1, <2>2, <2>4, <2>5
<1>2. RetryClosed(T, i)
  <2> HIDE DEF T
  <2> QED BY <1>1 DEF RetryClosed
<1>3. T \in SUBSET DOMAIN events
  OBVIOUS
<1> HIDE DEF T
<1>4. RetriesOf(i) \subseteq T
  BY <1>2, <1>3 DEF RetriesOf
<1> QED BY <1>4 DEF T

LEMMA ChainIsBounded == RecordsType /\ ChainInv => RetriesPerRequest
<1> SUFFICES ASSUME RecordsType, ChainInv, NEW i \in DOMAIN events
             PROVE  /\ Cardinality({j \in RetriesOf(i) : events[j].retry = "AUTOMATIC"})
                          <= spec.automaticRetries
                    /\ ~spec.manualRetry => Cardinality(RetriesOf(i)) <= spec.automaticRetries
  BY DEF RetriesPerRequest
<1> DEFINE R == RetriesOf(i)  A == {j \in R : events[j].retry = "AUTOMATIC"}
           B == AutomaticOf(events, i)
<1>1. R \subseteq {j \in DOMAIN events : events[j].retry # "NONE"
                                         /\ RootOf(events)[j] = RootOf(events)[i]}
  BY RetriesShareRoot DEF ChainInv
<1>2. A \subseteq B
  BY <1>1 DEF AutomaticOf
<1>3. IsFiniteSet(B) /\ Cardinality(B) \in Nat /\ Cardinality(B) <= spec.automaticRetries
  BY AutomaticIsFinite DEF RecordsType, ChainInv
<1>4. spec.automaticRetries \in Nat
  BY SpecTypes DEF RecordsType
<1>5. ~spec.manualRetry => A = R
  <2>1. \A j \in DOMAIN events : events[j].retry \in {"NONE", "MANUAL", "AUTOMATIC"}
    <3>1. \A j \in DOMAIN events : events[j] \in Event
      BY DEF RecordsType
    <3>2. \A d \in Event : d.retry \in {"NONE", "MANUAL", "AUTOMATIC"}
      BY DEF Event
    <3> QED BY <3>1, <3>2
  <2> QED BY <1>1, <2>1 DEF ChainInv
<1> HIDE DEF A, B, R
<1>6. IsFiniteSet(A) /\ Cardinality(A) <= Cardinality(B)
  BY <1>2, <1>3, FS_Subset
<1>7. Cardinality(A) \in Nat
  BY <1>6, FS_CardinalityType
<1>8. Cardinality(A) <= spec.automaticRetries
  BY <1>3, <1>4, <1>6, <1>7
<1> QED BY <1>5, <1>8 DEF A, R

LedgerInv == RecordsType /\ FaultInv /\ ChainInv

\* The inductive invariant of an accounting ledger (ResourceLedger.append and
\* receipt): the facts stay as bad as the worst receipt says, and the retries of
\* a request, of whatever kinds, are within what was declared.
THEOREM LedgerInductive == LedgerSpec => []LedgerInv
<1>1. LedgerInit => LedgerInv
  <2> SUFFICES ASSUME LedgerInit PROVE LedgerInv
    OBVIOUS
  <2>1. spec \in Specs /\ events = <<>> /\ clock = 0 /\ issued = <<>> /\ outputs = {}
    BY DEF LedgerInit
  <2>2. RecordsType
    BY <2>1 DEF RecordsType
  <2>3. FaultInv
    BY <2>1 DEF FaultInv
  <2>4. ChainInv
    BY <2>1 DEF ChainInv, Ordered
  <2> QED BY <2>2, <2>3, <2>4 DEF LedgerInv
<1>2. LedgerInv /\ [LedgerNext]_ledgerVars => LedgerInv'
  BY LedgerStep, ChainStep DEF LedgerInv
<1> QED BY <1>1, <1>2, PTL DEF LedgerSpec

\* receipt, validate_output: for every specification and every history of facts,
\* no later fact mends a failure, an overrun or a rejection, and no verdict on
\* quality stands on a receipt over one.
THEOREM FaultsStay == LedgerSpec => []NoVerdictAfterFault
<1>1. FaultInv => NoVerdictAfterFault
  BY DEF FaultInv, NoVerdictAfterFault
<1> QED BY <1>1, LedgerInductive, PTL DEF LedgerInv

\* _validate_event: for every declared number of retries and chains of every
\* length and mixture, a request is retried automatically no more often than
\* declared, and by hand only where that is declared.
THEOREM RetriesAreBounded == LedgerSpec => []RetriesPerRequest
<1>1. LedgerInv => RetriesPerRequest
  BY ChainIsBounded DEF LedgerInv
<1> QED BY <1>1, LedgerInductive, PTL

=============================================================================
