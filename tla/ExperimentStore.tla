--------------------------- MODULE ExperimentStore ---------------------------
(***************************************************************************)
(* llm-eval with --store (main and persist_experiment_run of               *)
(* evaluation_lab.py) by several processes over one SQLite file, and the   *)
(* read-only projection of that file by load_sqlite_runs_read_only of      *)
(* b2/qa3.py.                                                              *)
(*                                                                         *)
(* CREATE TABLE and PRAGMA user_version are committed by themselves; the   *)
(* INSERT opens a transaction that holds the lock until the commit.  A     *)
(* commit changes the bytes of the file, which the projection hashes       *)
(* before and after it selects the rows.                                   *)
(***************************************************************************)
EXTENDS Evaluation, Integers, Sequences

CONSTANTS
    Command,        \* invocations: [kind, suite, spec, stores, run, padded, git,
                    \* reports, allows]; run is the stripped run id
    Reader,         \* processes that project the store
    MaxCommands,    \* bound: invocations of one behaviour
    MaxFaults       \* bound: failures, kills and power losses

ASSUME StoreAssumption == MaxCommands \in Nat /\ MaxFaults \in Nat

\* The cases and the mechanisms of a suite are lists of a document.
ASSUME SuiteAssumption ==
    \A c \in Command : /\ IsFiniteSet(c.suite.cases)
                       /\ c.kind = "historical" => IsFiniteSet(c.suite.mechanisms)

VARIABLES
    at,         \* phase of each command
    version,    \* PRAGMA user_version
    table,      \* the table exists
    rows,       \* the committed rows
    lock,       \* the command whose transaction is open
    history,    \* rows after each commit: position + 1 tells the bytes of the file
    report,     \* runs told by the reports that stand: [run, row]
    told,       \* rows the query API or --list-runs has given out
    exit,       \* exit status of each command, -1 when there is none
    reading,    \* of each reader: [phase, before, rows]
    faults

store == <<version, table, rows, history>>
vars == <<at, store, lock, report, told, exit, reading, faults>>

Row(c) ==
    [run |-> c.run, padded |-> c.padded, suite |-> c.suite.id, git |-> c.git,
     result |-> Result(c)]

Idle == [phase |-> "idle", before |-> 0, rows |-> {}]

Init ==
    /\ at \in [Command -> {"start", "absent"}]
    /\ Cardinality({c \in Command : at[c] = "start"}) <= MaxCommands
    /\ version = 0
    /\ table = FALSE
    /\ rows = {}
    /\ lock = {}
    /\ history = <<{}>>
    /\ report = {}
    /\ told = {}
    /\ exit = [c \in Command |-> -1]
    /\ reading = [r \in Reader |-> Idle]
    /\ faults = 0

Goto(c, phase) == at' = [at EXCEPT ![c] = phase]

Exits(c, status) ==
    /\ Goto(c, "over")
    /\ exit' = [exit EXCEPT ![c] = status]

\* The file has new bytes.
Committed(stored) ==
    /\ rows' = stored
    /\ history' = Append(history, stored)

Fault == faults < MaxFaults /\ faults' = faults + 1

----------------------------------------------------------------------------
(* main *)

\* Loads the documents, evaluates them, or is refused.
Evaluate(c) ==
    /\ at[c] = "start"
    /\ IF ~Evaluable(c) THEN Exits(c, 2)
       ELSE Goto(c, IF c.stores THEN "look" ELSE "report") /\ UNCHANGED exit
    /\ UNCHANGED <<store, lock, report, told, reading, faults>>

LookAtVersion(c) ==
    /\ at[c] = "look"
    /\ Goto(c, IF version = 0 THEN "createNew" ELSE "create")
    /\ UNCHANGED <<store, lock, report, told, exit, reading, faults>>

\* CREATE TABLE IF NOT EXISTS
CreateTable(c) ==
    /\ at[c] \in {"createNew", "create"} /\ lock = {}
    /\ IF table THEN UNCHANGED store
       ELSE table' = TRUE /\ Committed(rows) /\ UNCHANGED version
    /\ Goto(c, IF at[c] = "createNew" THEN "setVersion" ELSE "insert")
    /\ UNCHANGED <<lock, report, told, exit, reading, faults>>

\* The header is written again even if it says so already.
SetVersion(c) ==
    /\ at[c] = "setVersion" /\ lock = {}
    /\ version' = 1
    /\ Committed(rows)
    /\ Goto(c, "insert")
    /\ UNCHANGED <<table, lock, report, told, exit, reading, faults>>

\* Defect: INSERT OR REPLACE.
InsertReplacing(c) ==
    /\ at[c] = "insert" /\ lock = {}
    /\ lock' = {c} /\ Goto(c, "commit") /\ UNCHANGED exit
    /\ UNCHANGED <<store, report, told, reading, faults>>

\* The run id is the primary key.
Insert(c) ==
    /\ at[c] = "insert" /\ lock = {}
    /\ IF \E row \in rows : row.run = c.run
       THEN Exits(c, 2) /\ UNCHANGED lock
       ELSE lock' = {c} /\ Goto(c, "commit") /\ UNCHANGED exit
    /\ UNCHANGED <<store, report, told, reading, faults>>

\* Defect: the connection is closed without a commit.
NotCommitted(c) ==
    /\ at[c] = "commit"
    /\ lock' = {}
    /\ Goto(c, "report")
    /\ UNCHANGED <<store, report, told, exit, reading, faults>>

\* The with block of the connection ends.
Commit(c) ==
    /\ at[c] = "commit"
    /\ Committed({row \in rows : row.run # c.run} \cup {Row(c)})
    /\ lock' = {}
    /\ Goto(c, "report")
    /\ UNCHANGED <<version, table, report, told, exit, reading, faults>>

\* Defect: a report that was written is a success.
ExitCodeOfReport(c) == 0

ExitCode(c) == IF Result(c).status # "PASS" /\ ~c.allows THEN 1 ELSE 0

\* write_report replaces the output; without --output the report is printed.
Report(c) ==
    /\ at[c] = "report"
    /\ report' = IF c.reports THEN report \cup {[run |-> c.run, stored |-> c.stores,
                                                 result |-> Result(c)]}
                 ELSE report
    /\ Exits(c, ExitCode(c))
    /\ UNCHANGED <<store, lock, told, reading, faults>>

\* An error of a document, of SQLite (a lock held too long among them) or of the
\* report: a row that is stored stays, a transaction that is open is rolled back.
Fails(c) ==
    /\ at[c] \notin {"absent", "over"}
    /\ Fault
    /\ Exits(c, 2)
    /\ lock' = lock \ {c}
    /\ UNCHANGED <<store, report, told, reading>>

----------------------------------------------------------------------------
(* Readers: --list-runs and the query API, and load_sqlite_runs_read_only *)

\* Otherwise the store is refused: 503 of the API.
Initialised == version = 1 /\ table

\* The newest runs, or one of them with its result; both open the store read-only.
Query ==
    /\ Initialised
    /\ \E row \in rows : told' = told \cup {row}
    /\ UNCHANGED <<at, store, lock, report, exit, reading, faults>>

Phase(r, phase) == reading[r].phase = phase

HashBefore(r) ==
    /\ Phase(r, "idle")
    /\ reading' = [reading EXCEPT ![r] = [phase |-> "hashed", before |-> Len(history),
                                          rows |-> {}]]
    /\ UNCHANGED <<at, store, lock, report, told, exit, faults>>

Select(r) ==
    /\ Phase(r, "hashed")
    /\ Initialised
    /\ reading' = [reading EXCEPT ![r].phase = "selected", ![r].rows = rows]
    /\ UNCHANGED <<at, store, lock, report, told, exit, faults>>

\* The store is not initialised: the projection is refused.
Refused(r) ==
    /\ Phase(r, "hashed")
    /\ ~Initialised
    /\ reading' = [reading EXCEPT ![r] = Idle]
    /\ UNCHANGED <<at, store, lock, report, told, exit, faults>>

\* The stored document bears the run id as it was given, the column bears it
\* stripped; the evidence reference asks for a commit id.
Verified(row) == ~row.padded /\ row.git = "sha"

\* FAIL dominates; the column and the document have one status.
Terminal(row) == IF "FAIL" \in {row.result.status, row.result.integration} THEN "FAIL" ELSE "PASS"

\* Defect: the bytes are hashed once.
HashOnce(r) ==
    /\ Phase(r, "selected")
    /\ reading' = [reading EXCEPT ![r] =
           IF \A row \in reading[r].rows : Verified(row) THEN [@ EXCEPT !.phase = "done"] ELSE Idle]
    /\ UNCHANGED <<at, store, lock, report, told, exit, faults>>

\* One row that does not verify refuses all of them, and so does a commit of
\* another process since the first hash.
HashAfter(r) ==
    /\ Phase(r, "selected")
    /\ reading' = [reading EXCEPT ![r] =
           IF (\A row \in @.rows : Verified(row)) /\ Len(history) = @.before
           THEN [@ EXCEPT !.phase = "done"] ELSE Idle]
    /\ UNCHANGED <<at, store, lock, report, told, exit, faults>>

\* compute_quality_delta of a verified run with itself: [status, delta].
AccuracyDelta(row) ==
    [status |-> Terminal(row),
     delta |-> IF Terminal(row) = "PASS" THEN {row.result.treatment - row.result.baseline} ELSE {}]

----------------------------------------------------------------------------
(* Faults *)

\* SQLite rolls back what was not committed.
Kill(c) ==
    /\ at[c] \notin {"absent", "start", "over"}
    /\ Fault
    /\ Goto(c, "over")
    /\ lock' = lock \ {c}
    /\ UNCHANGED <<store, report, told, exit, reading>>

\* A commit of SQLite is durable; a report that was renamed without an fsync may
\* be gone.  Who had not begun begins afterwards.
PowerLoss ==
    /\ Fault
    /\ at' = [c \in Command |-> IF at[c] \in {"absent", "start"} THEN at[c] ELSE "over"]
    /\ lock' = {}
    /\ report' \in SUBSET report
    /\ reading' = [r \in Reader |-> IF Phase(r, "done") THEN reading[r] ELSE Idle]
    /\ UNCHANGED <<store, told, exit>>

----------------------------------------------------------------------------
Step(c) ==
    \/ Evaluate(c) \/ LookAtVersion(c) \/ CreateTable(c) \/ SetVersion(c) \/ Insert(c) \/ Commit(c) \/ Report(c)
    \/ Fails(c) \/ Kill(c)

Next ==
    \/ \E c \in Command : Step(c)
    \/ \E r \in Reader : HashBefore(r) \/ Select(r) \/ Refused(r) \/ HashAfter(r)
    \/ Query
    \/ PowerLoss

Spec == Init /\ [][Next]_vars

----------------------------------------------------------------------------
(* Properties *)

\* "Atomically persist one immutable experiment run": whoever runs, retries or
\* dies, a committed row is never changed, replaced or taken back, and no run id
\* has two.
RunsAreImmutable ==
    [][rows \subseteq rows' /\ \A a, b \in rows' : a.run = b.run => a = b]_vars

\* What a storing command told, in a report that stands or by exit status 0 or 1,
\* is in the store with the same result, and so is what a query has given out.
ToldIsStored ==
    /\ told \subseteq rows
    /\ \A r \in report : r.stored =>
          \E row \in rows : row.run = r.run /\ row.result = r.result
    /\ \A c \in Command : c.stores /\ exit[c] \in {0, 1} => Row(c) \in rows

\* A projection that was given out is the store as it was at one instant, every row
\* of it verified: a commit between its two hashes or one row that cannot be
\* referenced refuses the whole of it.
ProjectionIsOneInstant ==
    \A r \in Reader : Phase(r, "done") =>
        /\ reading[r].rows = history[reading[r].before]
        /\ \A row \in reading[r].rows : Verified(row)

\* Two verdicts on one run, by two programs: the delta of a projected row fails
\* exactly when the command that stored it ended with status 1 (unless it was told to
\* allow the regression), and where it passes the treatment beats the baseline.
DeltaAgreesWithExit ==
    \A r \in Reader : Phase(r, "done") =>
        /\ \A c \in Command :
              /\ c.stores /\ ~c.allows /\ exit[c] \in {0, 1}
              /\ Row(c) \in reading[r].rows
              => (exit[c] = 1) = (AccuracyDelta(Row(c)).status = "FAIL")
        /\ \A row \in reading[r].rows : \A gain \in AccuracyDelta(row).delta : gain > 0

=============================================================================
