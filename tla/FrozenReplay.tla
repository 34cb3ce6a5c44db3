----------------------------- MODULE FrozenReplay -----------------------------
(***************************************************************************)
(* replay, _execute and _partial of search_cup/v23_t5_e1f_ex1.py: several  *)
(* invocations in one parent directory, each with an output directory of   *)
(* its own name.  The sidecar ledger in the parent is claimed first; then  *)
(* both entrants query the frozen retriever and commit a submission, the   *)
(* reference labels are loaded, and the evidence is judged and sealed.     *)
(*                                                                         *)
(* Every write may raise before or after os.replace, a process may be      *)
(* killed, the host may lose power, the source may drift and stored bytes  *)
(* may go bad.  A file is {} (absent) or the set of one value              *)
(* [body, altered]; the ledger is {} or {[by, rows]}.                      *)
(***************************************************************************)
EXTENDS SearchProxy, FiniteSets, SequencesExt

CONSTANTS
    Invocation,     \* calls of replay under the one RUN_ID
    MaxFaults       \* bound: exceptions, kills, power losses, bad bytes

ASSUME FaultAssumption == MaxFaults \in Nat

Aliases == <<"A", "B">>
Alias == ToSet(Aliases)

\* The operations that write a file, and the file each one writes.
Target == [
    preflight |-> "preflight",  queries0 |-> "queries",     results0 |-> "results",
    start |-> "start",          outputA |-> "outputA",      outputB |-> "outputB",
    receipts |-> "receipts",    audit |-> "audit",          adjudication |-> "adjudication",
    end |-> "end",              metrics |-> "metrics",      checks |-> "checks",
    post |-> "post",            manifest |-> "manifest",
    partialEnd |-> "end",       partialPost |-> "post",
    partialJournal |-> "partial-journal",  partialManifest |-> "manifest"]

Write == DOMAIN Target
PartialWrite == {"partialEnd", "partialPost", "partialJournal", "partialManifest"}

FormalFiles == {Target[op] : op \in Write \ PartialWrite}
File == {Target[op] : op \in Write} \cup {"temporary"}

\* The operations that append to a stream or to the ledger.
Append1 == {"queryRow", "resultRows"}
Journal == {"STARTED", "COMMIT", "REFERENCE_LOAD", "HARD_GATE_FAILURE"}

Over == {"returned", "killed"}

VARIABLES
    at, part,           \* next operation of each invocation, and its next part
    turn,               \* index in Aliases of the entrant whose turn it is
    traces,             \* of the proxy of each entrant
    comparable,         \* comparable_status once computed
    disk, safe,         \* the output directory: visible, and surviving a power loss
    ledger, ledgerSafe, \* the sidecar: visible, and surviving a power loss
    exposed,            \* invocations whose loader read the reference labels
    result,             \* terminal status returned
    drifted, faults

memory == <<turn, traces, comparable>>
files == <<disk, safe>>
sidecar == <<ledger, ledgerSafe>>
environment == <<drifted, faults>>
vars == <<at, part, memory, files, sidecar, exposed, result, environment>>

Doc(body) == [body |-> body, altered |-> FALSE]

Init ==
    /\ at = [p \in Invocation |-> "gate"]
    /\ part = [p \in Invocation |-> "begin"]
    /\ turn = [p \in Invocation |-> 1]
    /\ traces = [p \in Invocation |-> [a \in Alias |-> <<>>]]
    /\ comparable = [p \in Invocation |-> "none"]
    /\ disk = [p \in Invocation |-> [f \in File |-> {}]]
    /\ safe = [p \in Invocation |-> [f \in File |-> {}]]
    /\ ledger = {}
    /\ ledgerSafe = {}
    /\ exposed = {}
    /\ result = [p \in Invocation |-> "none"]
    /\ drifted = FALSE
    /\ faults = 0

Exists(p, f) == disk[p][f] # {}
Body(p, f) == (CHOOSE d \in disk[p][f] : TRUE).body
Entrant(p) == Aliases[turn[p]]
Output(a) == IF a = "A" THEN "outputA" ELSE "outputB"

RowsIn(l) == IF l = {} THEN <<>> ELSE (CHOOSE x \in l : TRUE).rows
Commits(l) == SelectSeq(RowsIn(l), LAMBDA r : r.event = "COMMIT")

\* Defect: the marker of a partial run is not counted.
NamesOfFormalFiles(dir) == {f \in FormalFiles : dir[f] # {}}

\* Every file in the directory, temporary ones included.
Names(dir) == {f \in File : dir[f] # {}}

Unaltered(dir) == \A f \in FormalFiles : \A d \in dir[f] : ~d.altered

Goto(p, op) ==
    /\ at' = [at EXCEPT ![p] = op]
    /\ part' = [part EXCEPT ![p] = "begin"]

Step(p, operation) == at[p] = operation /\ part[p] = "begin"

Return(p, status) ==
    /\ Goto(p, "returned")
    /\ result' = [result EXCEPT ![p] = status]

----------------------------------------------------------------------------
(* An exception: before the store exists, in _execute, and in _partial *)

PartialStatus(p) == IF Exists(p, "start") THEN "NOT_EVALUABLE" ELSE "PRESTART"

Raise(p) ==
    CASE at[p] \in {"gate", "ledger", "directory"} -> Return(p, "PRESTART")
      [] at[p] \in PartialWrite -> Return(p, PartialStatus(p))
      [] OTHER -> Goto(p, "partialEnd") /\ UNCHANGED result

Raises(p) ==
    /\ Raise(p)
    /\ UNCHANGED <<memory, files, sidecar, exposed, environment>>

Fault == faults < MaxFaults /\ faults' = faults + 1 /\ UNCHANGED drifted

----------------------------------------------------------------------------
(* The store *)

\* Defect: a ledger that is there is opened for appending.
CreateLedgerAgain(p) ==
    /\ Step(p, "ledger")
    /\ ledger' = IF ledger = {} THEN {[by |-> p, rows |-> <<>>]} ELSE ledger
    /\ part' = [part EXCEPT ![p] = "sync"]
    /\ UNCHANGED <<at, memory, files, ledgerSafe, exposed, result, environment>>

\* open("xb") in the parent of the output directory
CreateLedger(p) ==
    /\ Step(p, "ledger")
    /\ ledger = {}
    /\ ledger' = {[by |-> p, rows |-> <<>>]}
    /\ part' = [part EXCEPT ![p] = "sync"]
    /\ UNCHANGED <<at, memory, files, ledgerSafe, exposed, result, environment>>

LedgerTaken(p) ==
    /\ Step(p, "ledger")
    /\ ledger # {}
    /\ Raises(p)

SyncLedger(p) ==
    /\ at[p] = "ledger" /\ part[p] = "sync"
    /\ ledgerSafe' = ledger
    /\ Goto(p, "directory")
    /\ UNCHANGED <<memory, files, ledger, exposed, result, environment>>

\* mkdir and the fsync of the parent; the directory holds nothing yet.
MakeDirectory(p) ==
    /\ Step(p, "directory")
    /\ Goto(p, "recheck")
    /\ UNCHANGED <<memory, files, sidecar, exposed, result, environment>>

\* partialEnd and partialPost are written once the run started, all four of
\* _partial only when their file is missing.
Skipped(p) ==
    /\ at[p] \in PartialWrite
    /\ \/ Exists(p, Target[at[p]])
       \/ at[p] \in {"partialEnd", "partialPost"} /\ ~Exists(p, "start")

Content(p) ==
    CASE at[p] \in {"queries0", "results0"} -> <<>>
      [] at[p] \in {"outputA", "outputB"} -> traces[p][Entrant(p)]
      [] at[p] = "audit" -> Commits(ledger)
      [] at[p] \in {"end", "metrics", "checks", "post"} -> comparable[p]
      [] at[p] \in {"partialEnd", "partialPost"} -> "PARTIAL"
      [] at[p] \in {"manifest", "partialManifest"} -> [f \in Names(disk[p]) |-> disk[p][f]]
      [] OTHER -> "sealed"

Then(p) ==
    CASE at[p] = "preflight" -> "queries0"
      [] at[p] = "queries0" -> "results0"
      [] at[p] = "results0" -> "start"
      [] at[p] = "start" -> "STARTED"
      [] at[p] \in {"outputA", "outputB"} -> "readback"
      [] at[p] = "receipts" -> "barrier"
      [] at[p] = "audit" -> "adjudication"
      [] at[p] = "adjudication" -> "finish"
      [] at[p] = "end" -> "metrics"
      [] at[p] = "metrics" -> "checks"
      [] at[p] = "checks" -> "post"
      [] at[p] = "post" -> "final"
      [] at[p] = "manifest" -> "validate"
      [] at[p] = "partialEnd" -> "partialPost"
      [] at[p] = "partialPost" -> "partialJournal"
      [] at[p] = "partialJournal" -> "partialManifest"

\* A temporary file is filled and flushed beside a target that is not there.
FillTemporary(p) ==
    /\ at[p] \in Write /\ part[p] = "begin"
    /\ ~Skipped(p) /\ ~Exists(p, Target[at[p]])
    /\ disk' = [disk EXCEPT ![p]["temporary"] = {Doc(Content(p))}]
    /\ part' = [part EXCEPT ![p] = "replace"]
    /\ UNCHANGED <<at, memory, safe, sidecar, exposed, result, environment>>

\* os.replace
Replace(p) ==
    /\ at[p] \in Write /\ part[p] = "replace"
    /\ disk' = [disk EXCEPT ![p][Target[at[p]]] = disk[p]["temporary"],
                            ![p]["temporary"] = {}]
    /\ part' = [part EXCEPT ![p] = "sync"]
    /\ UNCHANGED <<at, memory, safe, sidecar, exposed, result, environment>>

\* Where a completed write leads; the last write of _partial returns.
Continue(p) ==
    IF at[p] = "partialManifest" THEN Return(p, PartialStatus(p))
    ELSE Goto(p, Then(p)) /\ UNCHANGED result

\* Defect: write does not fsync the directory.
DirectoryNotSynced(p) ==
    /\ at[p] \in Write /\ part[p] = "sync"
    /\ Continue(p)
    /\ UNCHANGED <<memory, files, sidecar, exposed, environment>>

\* The fsync of the directory commits every name in it.
SyncDirectory(p) ==
    /\ at[p] \in Write /\ part[p] = "sync"
    /\ safe' = [safe EXCEPT ![p] = disk[p]]
    /\ Continue(p)
    /\ UNCHANGED <<memory, disk, sidecar, exposed, environment>>

SkipWrite(p) ==
    /\ part[p] = "begin" /\ Skipped(p)
    /\ Continue(p)
    /\ UNCHANGED <<memory, files, sidecar, exposed, environment>>

\* append: the row is written and flushed, then the directory is.
AppendRow(p) ==
    /\ at[p] \in Append1 /\ part[p] = "begin"
    /\ \E f \in {IF at[p] = "queryRow" THEN "queries" ELSE "results"} :
          disk' = [disk EXCEPT ![p][f] = {[d EXCEPT !.body =
                       Append(@, <<Entrant(p), Last(traces[p][Entrant(p)])>>)] : d \in disk[p][f]}]
    /\ part' = [part EXCEPT ![p] = "sync"]
    /\ UNCHANGED <<at, memory, safe, sidecar, exposed, result, environment>>

\* journal: one record for the sidecar, with what it binds.
JournalRow(p) ==
    /\ at[p] \in Journal /\ part[p] = "begin"
    /\ ledger' = {[l EXCEPT !.rows = Append(@,
           [event |-> at[p], by |-> p, entrant |-> Entrant(p),
            output |-> disk[p][Output(Entrant(p))], start |-> disk[p]["start"]])] : l \in ledger}
    /\ part' = [part EXCEPT ![p] = "sync"]
    /\ UNCHANGED <<at, memory, files, ledgerSafe, exposed, result, environment>>

----------------------------------------------------------------------------
(* replay and _execute *)

\* Authority, source, binding, run id, a new output directory and no ledger.
PassGate(p) ==
    /\ Step(p, "gate")
    /\ ~drifted /\ ledger = {}
    /\ Goto(p, "ledger")
    /\ UNCHANGED <<memory, files, sidecar, exposed, result, environment>>

FailGate(p) ==
    /\ Step(p, "gate")
    /\ drifted \/ ledger # {}
    /\ Raises(p)

\* _execute observes the source again before it writes anything.
Recheck(p) ==
    /\ Step(p, "recheck")
    /\ IF drifted THEN Raise(p) ELSE Goto(p, "preflight") /\ UNCHANGED result
    /\ UNCHANGED <<memory, files, sidecar, exposed, environment>>

\* One ticket of the entrant's proxy, whatever the backend does with it.
Search(p, outcome) ==
    /\ Step(p, "search")
    /\ WithinBudget(traces[p][Entrant(p)])
    /\ traces' = [traces EXCEPT ![p][Entrant(p)] = Traced(@, outcome)]
    /\ Goto(p, "queryRow")
    /\ UNCHANGED <<turn, comparable, files, sidecar, exposed, result, environment>>

\* The frozen schedule of a profile has MaxCalls queries.
NextQuery(p) ==
    IF WithinBudget(traces[p][Entrant(p)]) THEN "search" ELSE Output(Entrant(p))

\* Defect: a failed query is skipped.
QueryRecordedSkipping(p) ==
    /\ at[p] = "queryRow" /\ part[p] = "sync"
    /\ safe' = [safe EXCEPT ![p] = disk[p]]
    /\ \E op \in {"resultRows", NextQuery(p)} : Goto(p, op)
    /\ UNCHANGED <<memory, disk, sidecar, exposed, result, environment>>

\* The row is kept for a failed query too, which ends the run: no retry.
QueryRecorded(p) ==
    /\ at[p] = "queryRow" /\ part[p] = "sync"
    /\ safe' = [safe EXCEPT ![p] = disk[p]]
    /\ IF Last(traces[p][Entrant(p)]) = "FAILED"
       THEN Raise(p)
       ELSE UNCHANGED result /\ \E op \in {"resultRows", NextQuery(p)} : Goto(p, op)
    /\ UNCHANGED <<memory, disk, sidecar, exposed, environment>>

\* All results of a query, with the decision on each one not seen before.
ResultsRecorded(p) ==
    /\ at[p] = "resultRows" /\ part[p] = "sync"
    /\ safe' = [safe EXCEPT ![p] = disk[p]]
    /\ Goto(p, NextQuery(p))
    /\ UNCHANGED <<memory, disk, sidecar, exposed, result, environment>>

\* The committed bytes are read back and compared with the submission.
ReadBack(p) ==
    /\ Step(p, "readback")
    /\ IF disk[p][Output(Entrant(p))] = {Doc(traces[p][Entrant(p)])}
       THEN Goto(p, "COMMIT") /\ UNCHANGED result
       ELSE Raise(p)
    /\ UNCHANGED <<memory, files, sidecar, exposed, environment>>

\* fsync of the ledger and of its directory; the next operation, or the raise
\* that follows a failed hard gate.
SyncJournal(p) ==
    /\ at[p] \in Journal /\ part[p] = "sync"
    /\ ledgerSafe' = ledger
    /\ turn' = [turn EXCEPT ![p] = IF at[p] = "COMMIT" /\ @ = 1 THEN 2 ELSE @]
    /\ CASE at[p] = "STARTED" -> Goto(p, "search") /\ UNCHANGED result
         [] at[p] = "COMMIT" -> UNCHANGED result
                /\ Goto(p, IF turn[p] = 1 THEN "search" ELSE "receipts")
         [] at[p] = "REFERENCE_LOAD" -> Goto(p, "load") /\ UNCHANGED result
         [] at[p] = "HARD_GATE_FAILURE" -> Raise(p)
    /\ UNCHANGED <<traces, comparable, files, ledger, exposed, environment>>

\* Both aliases in order, one chain that hangs from run-start.json, and the bytes
\* of both outputs as committed and still sealed.
ValidatedCommits(dir, l) ==
    /\ [i \in DOMAIN Commits(l) |-> Commits(l)[i].entrant] = Aliases
    /\ \A i \in DOMAIN Commits(l) :
          /\ Commits(l)[i].start = dir["start"]
          /\ Commits(l)[i].output = dir[Output(Aliases[i])]
          /\ \A d \in dir[Output(Aliases[i])] : ~d.altered

Barrier(p) ==
    /\ Step(p, "barrier")
    /\ IF /\ ValidatedCommits(disk[p], ledger)
          /\ \A i \in DOMAIN RowsIn(ledger) : RowsIn(ledger)[i].event # "REFERENCE_LOAD"
       THEN Goto(p, "REFERENCE_LOAD") /\ UNCHANGED result
       ELSE Raise(p)
    /\ UNCHANGED <<memory, files, sidecar, exposed, environment>>

LoadReference(p) ==
    /\ Step(p, "load")
    /\ exposed' = exposed \cup {p}
    /\ Goto(p, "audit")
    /\ UNCHANGED <<memory, files, sidecar, result, environment>>

----------------------------------------------------------------------------
(* _finish_complete *)

\* Every query of both schedules, in order, as it was traced.
PlannedRows ==
    [i \in 1..2 * MaxCalls |-> <<Aliases[IF i <= MaxCalls THEN 1 ELSE 2], "SUCCEEDED">>]

\* I1 to I9 over the records and the commits: sealed records, the exact schedule,
\* some delivered result, and the audit of this very barrier.
Conditions(p) ==
    /\ Unaltered(disk[p])
    /\ Body(p, "queries") = PlannedRows
    /\ Body(p, "results") # <<>>
    /\ Body(p, "audit") = Commits(ledger)

\* The end probe; I10 compares the source with the start.
Finish(p) ==
    /\ Step(p, "finish")
    /\ IF ~ValidatedCommits(disk[p], ledger)
       THEN Raise(p) /\ UNCHANGED comparable
       ELSE IF Conditions(p) /\ ~drifted
       THEN /\ \E c \in {"PASS", "NOT_EVALUABLE"} : comparable' = [comparable EXCEPT ![p] = c]
            /\ Goto(p, "end") /\ UNCHANGED result
       ELSE Goto(p, "HARD_GATE_FAILURE") /\ UNCHANGED <<result, comparable>>
    /\ UNCHANGED <<turn, traces, files, sidecar, exposed, environment>>

\* The frozen package itself differs at the end.
PackageMutated(p) ==
    /\ Step(p, "finish")
    /\ drifted
    /\ Raises(p)

\* The conditions once more, from the files.
Final(p) ==
    /\ Step(p, "final")
    /\ IF Conditions(p) /\ ValidatedCommits(disk[p], ledger)
       THEN Goto(p, "manifest") /\ UNCHANGED result
       ELSE Raise(p)
    /\ UNCHANGED <<memory, files, sidecar, exposed, environment>>

\* What a consumer of the directory must ask.
ValidateComplete(dir, l) ==
    /\ Names(dir) = FormalFiles
    /\ \A m \in dir["manifest"] :
          m.body = [f \in Names(dir) \ {"manifest"} |-> dir[f]]
    /\ Unaltered(dir)
    /\ \A f \in {"end", "metrics", "checks", "post"} : dir[f] = {Doc("PASS")}
    /\ ValidatedCommits(dir, l)

Validate(p) ==
    /\ Step(p, "validate")
    /\ IF comparable[p] = "PASS" /\ ~ValidateComplete(disk[p], ledger)
       THEN Raise(p)
       ELSE Return(p, comparable[p])
    /\ UNCHANGED <<memory, files, sidecar, exposed, environment>>

----------------------------------------------------------------------------
(* Faults *)

\* Any operation raises, before or after its effect is visible; a temporary file
\* that was not renamed stays.
OperationRaises(p) ==
    /\ at[p] \notin Over
    /\ Fault
    /\ Raise(p)
    /\ UNCHANGED <<memory, files, sidecar, exposed>>

Kill(p) ==
    /\ at[p] \notin Over \cup {"gate"}
    /\ Fault
    /\ Goto(p, "killed")
    /\ UNCHANGED <<memory, files, sidecar, exposed, result>>

\* What no fsync has committed is kept or lost, file by file; who had not begun
\* begins after the reboot.
PowerLoss ==
    /\ \E p \in Invocation : at[p] \notin Over \cup {"gate"}
    /\ Fault
    /\ at' = [p \in Invocation |-> IF at[p] \in Over \cup {"gate"} THEN at[p] ELSE "killed"]
    /\ \E lost \in SUBSET {c \in Invocation \X File : disk[c[1]][c[2]] # safe[c[1]][c[2]]} :
          disk' = [p \in Invocation |-> [f \in File |->
                      IF <<p, f>> \in lost THEN safe[p][f] ELSE disk[p][f]]]
    /\ safe' = disk'
    /\ ledger' \in {ledger, ledgerSafe}
    /\ ledgerSafe' = ledger'
    /\ part' = [p \in Invocation |-> "begin"]
    /\ UNCHANGED <<memory, exposed, result>>

\* Bytes on disk go bad, of one file; their seal and their hash tell.
BadBytes(p, f) ==
    /\ Exists(p, f) /\ safe[p][f] = disk[p][f] /\ Unaltered(disk[p])
    /\ Fault
    /\ disk' = [disk EXCEPT ![p][f] = {[d EXCEPT !.altered = TRUE] : d \in @}]
    /\ safe' = [safe EXCEPT ![p][f] = {[d EXCEPT !.altered = TRUE] : d \in @}]
    /\ UNCHANGED <<at, part, memory, sidecar, exposed, result>>

\* A commit or a changed checkout; it may also be undone.
Drift ==
    /\ drifted' = ~drifted
    /\ UNCHANGED <<at, part, memory, files, sidecar, exposed, result, faults>>

----------------------------------------------------------------------------
Run(p) ==
    \/ PassGate(p) \/ FailGate(p)
    \/ CreateLedger(p) \/ LedgerTaken(p) \/ SyncLedger(p) \/ MakeDirectory(p) \/ Recheck(p)
    \/ FillTemporary(p) \/ Replace(p) \/ SyncDirectory(p) \/ SkipWrite(p)
    \/ AppendRow(p) \/ QueryRecorded(p) \/ ResultsRecorded(p)
    \/ JournalRow(p) \/ SyncJournal(p)
    \/ \E outcome \in Outcome : Search(p, outcome)
    \/ ReadBack(p) \/ Barrier(p) \/ LoadReference(p)
    \/ Finish(p) \/ PackageMutated(p) \/ Final(p) \/ Validate(p)

Next ==
    \/ \E p \in Invocation : Run(p) \/ OperationRaises(p) \/ Kill(p)
    \/ \E p \in Invocation, f \in FormalFiles \ {"manifest"} : BadBytes(p, f)
    \/ PowerLoss
    \/ Drift

Spec == Init /\ [][Next]_vars

----------------------------------------------------------------------------
(* Properties *)

\* The sidecar is a one-shot store of the run identity: whoever spends a ticket of
\* either proxy owns the durable ledger, and no other invocation ever does, under
\* any directory name, after any power loss.
RunIdentity == INSTANCE OneShot WITH
    Name <- {"RUN_ID"}, Claimant <- Invocation, Use <- Invocation,
    owner <- [n \in {"RUN_ID"} |-> {l.by : l \in ledgerSafe}],
    uses <- [n \in {"RUN_ID"} |-> {p \in Invocation : \E a \in Alias : traces[p][a] # <<>>}]

RunIsOneShot == RunIdentity!Spec

\* "The formal reference loader is a separate late capability, invoked only after
\* both durable commits": whoever read the labels has spent every ticket, and both
\* submissions, their commits and the load are on disk, whatever happens later.
LabelsFollowCommits ==
    \A p \in exposed :
        /\ \A a \in Alias : Len(traces[p][a]) = MaxCalls /\ safe[p][Output(a)] # {}
        /\ [i \in DOMAIN RowsIn(ledgerSafe) |-> RowsIn(ledgerSafe)[i].event]
              \in {<<"STARTED", "COMMIT", "COMMIT", "REFERENCE_LOAD">>,
                   <<"STARTED", "COMMIT", "COMMIT", "REFERENCE_LOAD", "HARD_GATE_FAILURE">>}
        /\ \A i \in DOMAIN RowsIn(ledgerSafe) : RowsIn(ledgerSafe)[i].by = p

\* A directory that validates stands for the whole plan, carried out by the owner of
\* the ledger, and for a run that was not given up; and a PASS that was returned
\* still validates after a power loss.
CompleteMeansWholePlan ==
    \A p \in Invocation :
        /\ ValidateComplete(disk[p], ledger) =>
              /\ \A a \in Alias : traces[p][a] = [i \in 1..MaxCalls |-> "SUCCEEDED"]
              /\ p \in exposed /\ \A l \in ledger : l.by = p
              /\ disk[p]["partial-journal"] = {}
        /\ result[p] = "PASS" /\ Unaltered(disk[p]) => ValidateComplete(safe[p], ledgerSafe)

\* "A backend failure consumes the single attempted ticket and stops": the stream of
\* queries tells every ticket but the last, a failed one is the last of the run, the
\* run-start and the STARTED record are durable before the first, and a run that
\* reports no consumed identity has spent none.
QueriesAreTold ==
    \A p \in Invocation :
        LET spent == Len(traces[p]["A"]) + Len(traces[p]["B"])
            failed == {a \in Alias : "FAILED" \in ToSet(traces[p][a])}
        IN  /\ spent > 0 => \A d \in safe[p]["queries"] : Len(d.body) \in {spent - 1, spent}
            /\ spent > 0 => safe[p]["queries"] # {} /\ safe[p]["start"] # {}
            /\ spent > 0 => \E l \in ledgerSafe : l.by = p /\ l.rows # <<>>
                                                    /\ Head(l.rows).event = "STARTED"
            /\ failed # {} => /\ traces[p]["B"] = <<>> \/ failed = {"B"}
                              /\ \A a \in failed : SelectInSeq(traces[p][a],
                                     LAMBDA o : o = "FAILED") = Len(traces[p][a])
            /\ result[p] = "PRESTART" => spent = 0

=============================================================================
