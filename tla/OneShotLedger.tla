---------------------------- MODULE OneShotLedger ----------------------------
(***************************************************************************)
(* The one-shot lane of .github/workflows/b2_blind_handoff_v5_live.yml:    *)
(* the window approval gate, and the private job that consumes the durable *)
(* authorization claim before its single provider attempt.                 *)
(*                                                                         *)
(* A job is one GitHub workflow run.  It commits a claim record, then two  *)
(* hard links to the record's inode, one named by its authorization and    *)
(* one by its run identity.  The ledger directory is shared by all jobs.   *)
(* The concurrency group of the workflow is not relied upon: jobs overlap. *)
(***************************************************************************)
EXTENDS Naturals, FiniteSets, DurableFile

CONSTANTS
    Job,            \* workflow runs, one per window approval comment
    Identity,       \* values of an authorization ID and of a run identity
    Approvals,      \* the identities the jobs may have been approved for
    MaxAttempts     \* bound: GITHUB_RUN_ATTEMPT never exceeds it

\* The two identities a claim consumes, in the order their indexes are linked.
IndexKind == {"authorization", "run"}

ASSUME LedgerAssumption ==
    /\ Platform = "linux"                   \* runs-on: [self-hosted, linux, x64]
    /\ MaxAttempts \in Nat \ {0}
    /\ Approvals \subseteq [Job -> [IndexKind -> Identity]]

LedgerPhase ==
    {"scan", "create", "write", "sync", "syncdir",
     "link_authorization", "sync_authorization", "link_run", "sync_run", "check"}

\* "rejected": window-approval-gate did not end with result 'success'.
Over == {"rejected", "failed", "done"}

Phase == LedgerPhase \cup Over \cup {"triggered", "approved", "claimed", "requested"}

VARIABLES
    pc, attempt,    \* phase and GITHUB_RUN_ATTEMPT of each job
    approval,       \* the authorization and run identity it was approved for
    lock,           \* who holds flock(LOCK_EX) on ledger.lock
    record, body,   \* its claim record, and the attempt the claim names (0: none)
    links, durable, \* <<j, k>>: the index of kind k that links to j's record,
                    \* and those whose directory entry was fsynced
    calls           \* history: <<job, attempt>> of every provider attempt

ledger == <<record, body, links, durable>>
vars == <<pc, attempt, approval, lock, ledger, calls>>

Init ==
    /\ pc = [j \in Job |-> "triggered"]
    /\ attempt = [j \in Job |-> 1]
    /\ approval \in Approvals
    /\ lock = {}
    /\ record = [j \in Job |-> "absent"]
    /\ body = [j \in Job |-> 0]
    /\ links = {}
    /\ durable = {}
    /\ calls = {}

Goto(j, phase) == pc' = [pc EXCEPT ![j] = phase]

SharesIdentity(i, j) == \E k \in IndexKind : approval[i][k] = approval[j][k]

\* read_ledger_claim accepts the entry: complete, and of a first attempt.
ValidClaim(i) == Readable(record[i]) /\ body[i] = 1

\* Defect: an entry that cannot be attributed is skipped.
ScanSkipsInvalid(j) == \A i \in Job : ValidClaim(i) => ~SharesIdentity(i, j)

\* The locked scan of every entry: one that cannot be attributed quarantines the
\* whole ledger, and a valid one consumes both its identities.
ScanPasses(j) ==
    \A i \in Job : record[i] # "absent" => ValidClaim(i) /\ ~SharesIdentity(i, j)

\* os.fsync(directory_fd): every entry present is committed.
DirectorySync ==
    /\ record' = [i \in Job |-> AfterDirectorySync(record[i])]
    /\ durable' = links

\* Defect: a failed job keeps the lock (a lock file instead of flock).
UnlockNever(j) == UNCHANGED lock

Unlock(j) == lock' = lock \ {j}

----------------------------------------------------------------------------
\* The hosted gate: only a first attempt may pass, and any mismatch rejects.
WindowGate(j) ==
    /\ pc[j] = "triggered"
    /\ attempt[j] = 1
    /\ Goto(j, "approved")
    /\ UNCHANGED <<attempt, approval, lock, ledger, calls>>

\* Defect: the ledger is scanned and written without the lock.
LockLedgerShared(j) ==
    /\ pc[j] = "approved"
    /\ lock' = {j}
    /\ DirectorySync
    /\ Goto(j, "scan")
    /\ UNCHANGED <<attempt, approval, body, links, calls>>

\* flock(LOCK_EX) blocks; the two fsyncs commit what an earlier job left behind.
LockLedger(j) ==
    /\ pc[j] = "approved"
    /\ lock = {}
    /\ lock' = {j}
    /\ DirectorySync
    /\ Goto(j, "scan")
    /\ UNCHANGED <<attempt, approval, body, links, calls>>

\* Names change only under the lock, so the scan is one step.
Scan(j) ==
    /\ pc[j] = "scan"
    /\ ScanPasses(j)
    /\ Goto(j, "create")
    /\ UNCHANGED <<attempt, approval, lock, ledger, calls>>

CreateRecord(j) ==
    /\ pc[j] = "create"
    /\ Creatable(record[j])
    /\ record' = [record EXCEPT ![j] = "created"]
    /\ body' = [body EXCEPT ![j] = attempt[j]]
    /\ Goto(j, "write")
    /\ UNCHANGED <<attempt, approval, lock, links, durable, calls>>

WriteRecord(j) ==
    /\ pc[j] = "write"
    /\ record' = [record EXCEPT ![j] = "written"]
    /\ Goto(j, "sync")
    /\ UNCHANGED <<attempt, approval, lock, body, links, durable, calls>>

\* Defect: the record is closed without fsync.
RecordNotSynced(j) ==
    /\ pc[j] = "sync"
    /\ Goto(j, "syncdir")
    /\ UNCHANGED <<attempt, approval, lock, ledger, calls>>

SyncRecord(j) ==
    /\ pc[j] = "sync"
    /\ record' = [record EXCEPT ![j] = AfterFlush]
    /\ Goto(j, "syncdir")
    /\ UNCHANGED <<attempt, approval, lock, body, links, durable, calls>>

\* The authoritative commit of the claim.
CommitRecord(j) ==
    /\ pc[j] = "syncdir"
    /\ DirectorySync
    /\ Goto(j, "link_authorization")
    /\ UNCHANGED <<attempt, approval, lock, body, links, calls>>

\* os.link fails on a name that exists, whatever record it links to.
LinkIndex(j, k, from, to) ==
    /\ pc[j] = from
    /\ \A i \in Job : <<i, k>> \in links => approval[i][k] # approval[j][k]
    /\ links' = links \cup {<<j, k>>}
    /\ Goto(j, to)
    /\ UNCHANGED <<attempt, approval, lock, record, body, durable, calls>>

\* Defect: one fsync is taken to commit both indexes.
SyncIndexForBoth(j, from, to) ==
    /\ pc[j] = from
    /\ durable' = durable \cup ({j} \X IndexKind)
    /\ Goto(j, to)
    /\ UNCHANGED <<attempt, approval, lock, record, body, links, calls>>

SyncIndex(j, from, to) ==
    /\ pc[j] = from
    /\ DirectorySync
    /\ Goto(j, to)
    /\ UNCHANGED <<attempt, approval, lock, body, links, calls>>

LinkAuthorization(j) ==
    LinkIndex(j, "authorization", "link_authorization", "sync_authorization")
SyncAuthorization(j) == SyncIndex(j, "sync_authorization", "link_run")
LinkRunIdentity(j) == LinkIndex(j, "run", "link_run", "sync_run")
SyncRunIdentity(j) == SyncIndex(j, "sync_run", "check")

\* Both names lead to the record's inode; the lock is released.
CheckLinks(j) ==
    /\ pc[j] = "check"
    /\ \A k \in IndexKind : <<j, k>> \in links
    /\ Unlock(j)
    /\ Goto(j, "claimed")
    /\ UNCHANGED <<attempt, approval, ledger, calls>>

\* After checkout the request step reads the record and both indexes again.
RebindClaim(j) ==
    /\ pc[j] = "claimed"
    /\ ValidClaim(j)
    /\ \A k \in IndexKind : <<j, k>> \in links
    /\ Goto(j, "requested")
    /\ UNCHANGED <<attempt, approval, lock, ledger, calls>>

\* Input, challenge and acknowledgement were exchanged; b2.blind_eval runs once.
ProviderAttempt(j) ==
    /\ pc[j] = "requested"
    /\ calls' = calls \cup {<<j, attempt[j]>>}
    /\ Goto(j, "done")
    /\ UNCHANGED <<attempt, approval, lock, ledger>>

\* A rejected gate or scan, a replay, an I/O error, a cancelled job or a dead
\* runner process: the finally block, or the kernel, releases the lock, and
\* whatever is in the ledger stays there.
Fail(j) ==
    /\ pc[j] \notin Over
    /\ Unlock(j)
    /\ Goto(j, IF pc[j] = "triggered" THEN "rejected" ELSE "failed")
    /\ UNCHANGED <<attempt, approval, ledger, calls>>

----------------------------------------------------------------------------
(* GitHub and the host *)

\* A rerun of all jobs enters the gate again; a rerun of the failed job only, or of
\* this job alone, reuses the outputs of the gate, and is skipped unless that gate
\* has result 'success' (needs, if).
Rerun(j) ==
    /\ pc[j] \in Over
    /\ attempt[j] < MaxAttempts
    /\ attempt' = [attempt EXCEPT ![j] = @ + 1]
    /\ \/ Goto(j, "triggered")
       \/ pc[j] # "rejected" /\ Goto(j, "approved")
    /\ UNCHANGED <<approval, lock, ledger, calls>>

\* The host loses power: every job ends, and volatile entries may be lost or torn.
PowerLoss ==
    /\ \E j \in Job : pc[j] \in LedgerPhase \cup {"claimed", "requested"}
    /\ pc' = [j \in Job |-> IF pc[j] \in {"triggered", "approved"} \cup Over
                             THEN pc[j] ELSE "failed"]
    /\ lock' = {}
    /\ \E kept \in SUBSET {j \in Job : Volatile(record[j])} : \E torn \in SUBSET kept :
          record' = [j \in Job |-> AfterPowerLoss(record[j], j \in kept, j \in torn)]
    /\ body' = [j \in Job |-> IF record'[j] = "absent" THEN 0 ELSE body[j]]
    /\ \E kept \in SUBSET (links \ durable) : links' = durable \cup kept
    /\ UNCHANGED <<attempt, approval, durable, calls>>

Claim(j) ==
    \/ LockLedger(j) \/ Scan(j) \/ CreateRecord(j) \/ WriteRecord(j) \/ SyncRecord(j)
    \/ CommitRecord(j) \/ LinkAuthorization(j) \/ SyncAuthorization(j)
    \/ LinkRunIdentity(j) \/ SyncRunIdentity(j) \/ CheckLinks(j)

Step(j) == WindowGate(j) \/ Claim(j) \/ RebindClaim(j) \/ ProviderAttempt(j) \/ Fail(j)

Terminated == (\A j \in Job : pc[j] \in Over) /\ UNCHANGED vars

Next == (\E j \in Job : Step(j) \/ Rerun(j)) \/ PowerLoss \/ Terminated

Spec == Init /\ [][Next]_vars

\* A job that holds the lock, or has not reached it, goes on or ends (timeout-minutes);
\* one that waits for the lock gets it when it is free, and nothing else rescues it.
FairSpec ==
    /\ Spec
    /\ \A j \in Job : /\ WF_vars(LockLedger(j))
                      /\ WF_vars(pc[j] # "approved" /\ Step(j))

----------------------------------------------------------------------------
(* Properties *)

\* The shape of the jobs, of the lock and of the ledger; an index is durable only
\* if it exists.
TypeOK ==
    /\ pc \in [Job -> Phase]
    /\ attempt \in [Job -> 1..MaxAttempts]
    /\ approval \in Approvals
    /\ lock \subseteq Job
    /\ record \in [Job -> FileState]
    /\ body \in [Job -> 0..MaxAttempts]
    /\ links \subseteq Job \X IndexKind
    /\ durable \subseteq links
    /\ calls \subseteq Job \X (1..MaxAttempts)

\* What the ledger promises: over overlapping jobs, reruns, failures at every step
\* and power losses, an authorization or a run identity is committed to one job, by a
\* record and an index no power loss can take away, for good, and it is spent by one
\* provider attempt of the job that owns both.
Lane == INSTANCE OneShot WITH
    Name <- IndexKind \X Identity,
    Claimant <- Job,
    Use <- Job \X (1..MaxAttempts),
    owner <- [n \in IndexKind \X Identity |->
                {j \in Job : /\ record[j] = "durable" /\ <<j, n[1]>> \in durable
                             /\ approval[j][n[1]] = n[2]}],
    uses <- [n \in IndexKind \X Identity |->
                {c \in calls : approval[c[1]][n[1]] = n[2]}]

LaneIsOneShot == Lane!Spec

\* No job writes to the ledger while an entry of another one cannot be attributed,
\* a half-written, a torn and a rerun's one included: the ledger is quarantined.
QuarantineHolds ==
    \A i, j \in Job :
        i # j /\ pc[j] \in LedgerPhase \ {"scan"} /\ record[i] # "absent" => ValidClaim(i)

\* No job waits for the ledger lock for ever.
EveryJobEnds == \A j \in Job : (pc[j] = "approved") ~> (pc[j] \in Over)

\* docs/b2/r1b-live-orchestration.md: "GITHUB_RUN_ATTEMPT must equal 1. A rerun
\* fails", and the closed claim object has workflow_run_attempt 1.
ClaimsAreFirstAttempts == \A j \in Job : Readable(record[j]) => body[j] = 1

=============================================================================
