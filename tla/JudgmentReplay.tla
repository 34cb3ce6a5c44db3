---------------------------- MODULE JudgmentReplay ----------------------------
(***************************************************************************)
(* replay and _execute of search_cup/v23_t4_je1.py: invocations for one    *)
(* output directory, which run the frozen first-pass plan and keep the     *)
(* journal, its projection and the delivery audit on disk, each replaced   *)
(* by a write of its own.  Any operation may raise, also after its         *)
(* os.replace took effect; a process may be killed, the host may lose      *)
(* power, and the source or the frozen package may change at any moment.   *)
(*                                                                         *)
(* The content of a file is {} (absent) or the set of one value: for the   *)
(* journal, the projection and the audit the number of records in it.      *)
(***************************************************************************)
EXTENDS Naturals, FiniteSets

CONSTANTS
    Invocation,     \* calls of replay with the same output directory
    Planned,        \* len(planned_records): 6 in the frozen plan
    MaxFaults       \* bound: exceptions, kills and power losses

ASSUME ReplayAssumption == Planned \in Nat \ {0} /\ MaxFaults \in Nat

\* Every store operation and the file it writes.
Target == [
    directory |-> "directory",  preflight |-> "preflight",
    journal0  |-> "journal",    records0  |-> "records",    audit0  |-> "audit",
    start     |-> "start",
    journal   |-> "journal",    records   |-> "records",    audit   |-> "audit",
    leakage   |-> "leakage",    resource  |-> "resource",   checks  |-> "checks",
    end       |-> "end",        receipt   |-> "receipt",    manifest |-> "manifest"]

Write == DOMAIN Target
File == {Target[op] : op \in Write}

\* The writes of the decision loop replace what is there, no other one does.
Replacing == {"journal", "records", "audit"}

\* Inside the try of _execute: an exception sets its code and leads to the receipt.
Guarded == {"journal0", "records0", "audit0", "start", "check", "decide"} \cup Replacing

Over == {"returned", "killed"}

VARIABLES
    at, part,       \* the next operation, and the next part of its write
    journal, calls, delivered, failed,  \* memory of _execute: entries of the journal,
                    \* fixture_decision_calls, len(deliveries), code # "NONE"
    receipt,        \* the receipt it builds
    result,         \* the terminal_status replay returned
    disk, safe,     \* content of each file: visible, and surviving a power loss
    drifted,        \* source or pins differ from what was authorized
    faults          \* bounded counter

memory == <<journal, calls, delivered, failed, receipt>>
files == <<disk, safe>>
vars == <<at, part, memory, result, files, drifted, faults>>

Unbuilt == [status |-> "none", count |-> 0]

Init ==
    /\ at = [p \in Invocation |-> "gate"]
    /\ part = [p \in Invocation |-> "check"]
    /\ journal = [p \in Invocation |-> 0]
    /\ calls = [p \in Invocation |-> 0]
    /\ delivered = [p \in Invocation |-> 0]
    /\ failed = [p \in Invocation |-> FALSE]
    /\ receipt = [p \in Invocation |-> Unbuilt]
    /\ result = [p \in Invocation |-> "none"]
    /\ disk = [f \in File |-> {}]
    /\ safe = [f \in File |-> {}]
    /\ drifted = FALSE
    /\ faults = 0

Goto(p, op) == at' = [at EXCEPT ![p] = op]
Exists(f) == disk[f] # {}

Return(p, status) ==
    /\ Goto(p, "returned")
    /\ result' = [result EXCEPT ![p] = status]

\* Defect: the loop goes on with the next planned record.
RaiseContinues(p) ==
    /\ IF at[p] \in Guarded
       THEN /\ Goto(p, IF at[p] \in Replacing /\ calls[p] < Planned
                       THEN "check" ELSE "started")
            /\ failed' = [failed EXCEPT ![p] = TRUE]
            /\ UNCHANGED result
       ELSE /\ Return(p, IF Exists("start") THEN "NOT_EVALUABLE" ELSE "PRESTART")
            /\ UNCHANGED failed
    /\ part' = [part EXCEPT ![p] = "check"]
    /\ UNCHANGED <<journal, delivered, receipt, files, drifted>>

\* The two except clauses; that of replay looks for run-start.json only.
Raise(p) ==
    /\ IF at[p] \in Guarded
       THEN /\ Goto(p, "started")
            /\ failed' = [failed EXCEPT ![p] = TRUE]
            /\ UNCHANGED result
       ELSE /\ Return(p, IF Exists("start") THEN "NOT_EVALUABLE" ELSE "PRESTART")
            /\ UNCHANGED failed
    /\ part' = [part EXCEPT ![p] = "check"]
    /\ UNCHANGED <<journal, delivered, receipt, files, drifted>>

Fault == faults < MaxFaults /\ faults' = faults + 1

----------------------------------------------------------------------------
(* The store *)

Content(p) ==
    CASE at[p] = "journal" -> journal[p] + 1
      [] at[p] = "records" -> journal[p]
      [] at[p] = "audit" -> delivered[p]
      [] at[p] = "receipt" -> receipt[p]
      [] OTHER -> 0

Then(p) ==
    CASE at[p] = "directory" -> "preflight"
      [] at[p] = "preflight" -> "journal0"
      [] at[p] = "journal0" -> "records0"
      [] at[p] = "records0" -> "audit0"
      [] at[p] = "audit0" -> "start"
      [] at[p] = "start" -> "check"
      [] at[p] = "journal" -> "records"
      [] at[p] = "records" -> "audit"
      [] at[p] = "audit" -> IF calls[p] < Planned THEN "check" ELSE "started"
      [] at[p] = "leakage" -> "resource"
      [] at[p] = "resource" -> "checks"
      [] at[p] = "checks" -> "end"
      [] at[p] = "end" -> "receipt"
      [] at[p] = "receipt" -> "manifest"
      [] at[p] = "manifest" -> "return"

\* Defect: mkdir(exist_ok=True).
MakeDirectoryAgain(p) ==
    /\ at[p] = "directory" /\ part[p] = "check"
    /\ disk' = [disk EXCEPT !["directory"] = {0}]
    /\ part' = [part EXCEPT ![p] = "sync"]
    /\ UNCHANGED <<at, memory, result, safe, drifted, faults>>

\* root.mkdir(exist_ok=False)
MakeDirectory(p) ==
    /\ at[p] = "directory" /\ part[p] = "check"
    /\ ~Exists("directory")
    /\ disk' = [disk EXCEPT !["directory"] = {0}]
    /\ part' = [part EXCEPT ![p] = "sync"]
    /\ UNCHANGED <<at, memory, result, safe, drifted, faults>>

\* write looks for the target first, then fills and flushes a temporary file.
CheckTarget(p) ==
    /\ at[p] \in Write \ {"directory"} /\ part[p] = "check"
    /\ at[p] \in Replacing \/ ~Exists(Target[at[p]])
    /\ part' = [part EXCEPT ![p] = "replace"]
    /\ UNCHANGED <<at, memory, result, files, drifted, faults>>

\* The directory exists, or ARTIFACT_OVERWRITE_FORBIDDEN.
Refuse(p) ==
    /\ at[p] \in Write \ Replacing /\ part[p] = "check"
    /\ Exists(Target[at[p]])
    /\ Raise(p)
    /\ UNCHANGED <<calls, faults>>

\* os.replace
Replace(p) ==
    /\ at[p] \in Write /\ part[p] = "replace"
    /\ disk' = [disk EXCEPT ![Target[at[p]]] = {Content(p)}]
    /\ part' = [part EXCEPT ![p] = "sync"]
    /\ UNCHANGED <<at, memory, result, safe, drifted, faults>>

\* The fsync of the directory commits every name in it, and write returns: memory
\* takes the updated journal, and a delivery is noted after its projection.
SyncDirectory(p) ==
    /\ at[p] \in Write /\ part[p] = "sync"
    /\ safe' = disk
    /\ journal' = [journal EXCEPT ![p] = IF at[p] = "journal" THEN @ + 1 ELSE @]
    /\ delivered' = [delivered EXCEPT ![p] = IF at[p] = "records" THEN @ + 1 ELSE @]
    /\ Goto(p, Then(p))
    /\ part' = [part EXCEPT ![p] = "check"]
    /\ UNCHANGED <<calls, failed, receipt, result, disk, drifted, faults>>

----------------------------------------------------------------------------
(* replay and _execute *)

\* Authority, source, binding, run id and a fresh output directory.
PassGate(p) ==
    /\ at[p] = "gate"
    /\ ~drifted /\ ~Exists("directory")
    /\ Goto(p, "directory")
    /\ UNCHANGED <<part, memory, result, files, drifted, faults>>

FailGate(p) ==
    /\ at[p] = "gate"
    /\ drifted \/ Exists("directory")
    /\ Return(p, "PRESTART")
    /\ UNCHANGED <<part, memory, files, drifted, faults>>

\* Before each decision the package and the source are compared with the start.
CheckDrift(p) ==
    /\ at[p] = "check"
    /\ ~drifted
    /\ Goto(p, "decide")
    /\ UNCHANGED <<part, memory, result, files, drifted, faults>>

DriftStops(p) ==
    /\ at[p] = "check"
    /\ drifted
    /\ Raise(p)
    /\ UNCHANGED <<calls, faults>>

\* The call is counted first; the durable journal is still the prior prefix.
Decide(p) ==
    /\ at[p] = "decide"
    /\ disk["journal"] = {journal[p]}
    /\ calls' = [calls EXCEPT ![p] = @ + 1]
    /\ Goto(p, "journal")
    /\ UNCHANGED <<part, journal, delivered, failed, receipt, result, files, drifted, faults>>

\* The fixture, a validator or the comparison of the journal raises.
DecisionFails(p) ==
    /\ at[p] = "decide"
    /\ Fault
    /\ calls' = [calls EXCEPT ![p] = @ + 1]
    /\ Raise(p)

\* Without run-start.json the receipt says that nothing was started.
Started(p) ==
    /\ at[p] = "started"
    /\ IF Exists("start")
       THEN Goto(p, "entries") /\ UNCHANGED receipt
       ELSE /\ Goto(p, "receipt")
            /\ receipt' = [receipt EXCEPT ![p] = [status |-> "PRESTART", count |-> 0]]
    /\ UNCHANGED <<part, journal, calls, delivered, failed, result, files, drifted, faults>>

\* Defect: the exception code is not part of the verdict.
CompleteWhateverRaised(p, entries) ==
    /\ calls[p] = Planned /\ entries = Planned /\ delivered[p] = Planned
    /\ ~drifted

\* No exception, all ten integrity checks, and one call per planned record.
Complete(p, entries) ==
    /\ ~failed[p]
    /\ calls[p] = Planned /\ entries = Planned /\ delivered[p] = Planned
    /\ ~drifted

Conclude(p, complete, entries) ==
    /\ receipt' = [receipt EXCEPT ![p] =
           [status |-> IF complete THEN "PASS" ELSE "NOT_EVALUABLE", count |-> entries]]
    /\ Goto(p, "leakage")
    /\ UNCHANGED <<part, journal, calls, delivered, failed, result, files, drifted>>

\* Defect: the receipt counts the journal in memory.
ReadMemory(p) ==
    /\ at[p] = "entries"
    /\ Conclude(p, Complete(p, journal[p]), journal[p])
    /\ UNCHANGED faults

\* The durable journal is read again, and source and pins for run-end.json.
ReadDurableTruth(p) ==
    /\ at[p] = "entries"
    /\ \E entries \in disk["journal"] : Conclude(p, Complete(p, entries), entries)
    /\ UNCHANGED faults

\* END_PIN_UNAVAILABLE
EndUnavailable(p) ==
    /\ at[p] = "entries"
    /\ Fault
    /\ \E entries \in disk["journal"] : Conclude(p, FALSE, entries)

ReturnReceipt(p) ==
    /\ at[p] = "return"
    /\ Return(p, receipt[p].status)
    /\ UNCHANGED <<part, memory, files, drifted, faults>>

----------------------------------------------------------------------------
(* Faults *)

\* Any part of a write raises: before os.replace nothing of it stays, after it
\* the new content is visible.
WriteRaises(p) ==
    /\ at[p] \in Write
    /\ Fault
    /\ Raise(p)
    /\ UNCHANGED calls

Kill(p) ==
    /\ at[p] \notin Over
    /\ Fault
    /\ Goto(p, "killed")
    /\ UNCHANGED <<part, memory, result, files, drifted>>

\* Of the names no fsync of their directory has committed, any may be lost; a later
\* invocation may find the output directory gone.
PowerLoss ==
    /\ \E p \in Invocation : at[p] \notin Over
    /\ Fault
    /\ at' = [p \in Invocation |-> IF at[p] \in Over \cup {"gate"} THEN at[p] ELSE "killed"]
    /\ \E lost \in SUBSET {f \in File : disk[f] # safe[f]} :
          disk' = [f \in File |-> IF f \in lost THEN safe[f] ELSE disk[f]]
    /\ safe' = disk'
    /\ UNCHANGED <<part, memory, result, drifted>>

\* A commit, a changed checkout or package; it may also be undone.
Drift ==
    /\ drifted' = ~drifted
    /\ UNCHANGED <<at, part, memory, result, files, faults>>

----------------------------------------------------------------------------
Step(p) ==
    \/ PassGate(p) \/ FailGate(p)
    \/ MakeDirectory(p) \/ CheckTarget(p) \/ Refuse(p) \/ Replace(p) \/ SyncDirectory(p)
    \/ CheckDrift(p) \/ DriftStops(p) \/ Decide(p) \/ DecisionFails(p)
    \/ Started(p) \/ ReadDurableTruth(p) \/ EndUnavailable(p) \/ ReturnReceipt(p)

Next ==
    \/ \E p \in Invocation : Step(p) \/ WriteRaises(p) \/ Kill(p)
    \/ PowerLoss
    \/ Drift

Spec == Init /\ [][Next]_vars

----------------------------------------------------------------------------
(* Properties *)

\* "A crash may leave the JSONL projection or delivery audit one commit behind",
\* never more, never ahead of the journal, and the same holds after a power loss.
\* A receipt that stands on disk counts the records of the journal that stands
\* there, also when the journal was replaced by a write that raised; a prestart
\* receipt stands next to an empty one.
JournalIsTruth ==
    /\ Exists("start") =>
          \A j \in disk["journal"], r \in disk["records"], a \in disk["audit"] :
              a <= r /\ r <= j /\ j <= a + 1
    /\ \A r \in disk["receipt"] : \A j \in disk["journal"] : r.count = j

\* A PASS, on disk or returned, stands for the whole plan: every record decided
\* once and by one invocation, in the journal, in its projection and in the audit;
\* and what was returned as PASS survives a power loss, manifest included.
PassIsComplete ==
    /\ \A r \in disk["receipt"] : r.status = "PASS" =>
          /\ \A f \in Replacing : disk[f] = {Planned}
          /\ \E p \in Invocation : calls[p] = Planned /\ receipt[p] = r
    /\ \A p \in Invocation : result[p] = "PASS" =>
          safe["receipt"] = {receipt[p]} /\ safe["manifest"] # {}

\* However invocations overlap, one of them at most decides anything for this
\* directory: "fresh output directories prevent replay into an existing journal".
OneRun ==
    \A p, q \in Invocation : calls[p] > 0 /\ calls[q] > 0 => p = q

=============================================================================
