------------------------------ MODULE BM1Live ------------------------------
(***************************************************************************)
(* How a live plan comes to be authorized (b2/bm1_live.py and the two      *)
(* workflows that call it): the owner has a RUN-READY receipt prepared,    *)
(* approves it in a comment, a public gate binds the comment to the main   *)
(* head, and the private job runs execute_live, which starts BM1Runner.    *)
(* Hours pass between these steps and main, the credentials, the storage   *)
(* and the protected variables change meanwhile; nothing is kept but the   *)
(* archived receipt, the event file and the outputs of the gate.           *)
(*                                                                         *)
(* A fingerprint is the document it was computed from.                     *)
(***************************************************************************)
EXTENDS BM1Runner

CONSTANTS
    Heads,          \* commits the main branch may be at, in any order
    Credentials,    \* the credentials and attestations a job may be given
    ApprovalTTL,    \* LIVE_AUTH_TTL_SECONDS, in some unit of time
    ReceiptTTL,     \* RUN_READY_MAX_AGE_SECONDS
    ReviewTTL,      \* PROVIDER_REVIEW_MAX_AGE_SECONDS
    MaxTime,        \* bound: the last instant
    MaxReceipts,    \* bound: receipts prepared
    MaxRuns         \* bound: attempts of one live workflow run

ASSUME LiveAssumption ==
    {ApprovalTTL, ReceiptTTL, ReviewTTL, MaxTime, MaxReceipts, MaxRuns} \subseteq Nat

VARIABLES
    now,
    prepared,       \* the archived RUN-READY receipts
    job,            \* the live workflow run: {} or one record
    launched        \* history: what execute_live started its runner with

liveVars == <<now, prepared, job, launched>>

LiveInit ==
    /\ Init
    /\ now = 0
    /\ prepared = {} /\ job = {} /\ launched = {}

\* validate_provider_review, for a review of the given age.
ReviewFresh(age) == age <= ReviewTTL

\* credential_decision: one key per provider, none competing, and the Gemini key
\* is the one that was attested.  Its fingerprint tells the attested keys apart.
Decidable(credential) == credential.attested /\ ~credential.competing

\* assert_private_runner: the variable still selects the OS the gate selected,
\* whose lane this is, and the host is of that OS.
NativeOS == [linux |-> "linux", windows |-> "win32"]
PrivateRunner(os, guarded) == os = guarded /\ NativeOS[os] = Platform

\* Time passes.  Bound: once the runner has started, AuthorityLost is the clock.
Tick ==
    /\ now < MaxTime /\ launched = {}
    /\ now' = now + 1
    /\ UNCHANGED <<prepared, job, launched, vars>>

\* prepare_run_ready, from its own gated comment: the receipt freezes head,
\* credentials and storage.  Bound: only while both paths name their first
\* directories, which are those BM1Runner calls bound.
Prepare ==
    /\ Cardinality(prepared) < MaxReceipts /\ launched = {}
    /\ StorageBound
    /\ \E head \in Heads, credential \in Credentials, age \in 0..(ReviewTTL + 1) :
          /\ ReviewFresh(age) /\ Decidable(credential)
          /\ prepared' = prepared \cup
                 {[issued |-> now, head |-> head, credential |-> credential]}
    /\ UNCHANGED <<now, job, launched, vars>>

\* The owner comments; GitHub starts one live workflow run at a time, whose
\* event names the main head of this instant.
Approve ==
    /\ job = {} /\ launched = {}
    /\ \E receipt \in prepared, sha \in Heads :
          job' = {[phase |-> "queued", attempt |-> 1, created |-> now, sha |-> sha,
                   names |-> receipt, gate |-> {}]}
    /\ UNCHANGED <<now, prepared, launched, vars>>

\* Defect: the gate accepts whatever head it checked out.
HeadUnchecked(j, main) == TRUE
\* github_event_snapshot: the checked-out head is the one of the event.
HeadMatches(j, main) == j.sha = main

\* Defect: a rerun of the workflow is accepted.
AnyAttempt(j) == TRUE
\* GITHUB_RUN_ATTEMPT, compared by the gate, the job and execute_live.
FirstAttempt(j) == j.attempt = 1

\* The same workflow run in another phase: comment, sha and receipt named stay.
Moved(j, phase, attempt, gate) ==
    [phase |-> phase, attempt |-> attempt, created |-> j.created, sha |-> j.sha,
     names |-> j.names, gate |-> gate]

\* gate-live: main has been checked out and the protected variable names a
\* receipt; both may have changed since the comment.
PublicGate ==
    \E j \in job, main \in Heads, expected \in prepared, os \in DOMAIN NativeOS :
        /\ j.phase = "queued"
        /\ FirstAttempt(j) /\ HeadMatches(j, main) /\ expected = j.names
        /\ job' = {Moved(j, "gated", j.attempt,
                         {[main |-> main, expected |-> expected, os |-> os]})}
        /\ UNCHANGED <<now, prepared, launched, vars>>

Gated == {j \in job : j.phase = "gated"}

Stop(j) ==
    /\ job' = {Moved(j, "stopped", j.attempt, j.gate)}
    /\ UNCHANGED <<now, prepared, launched, vars>>

\* A gate refuses, or GitHub loses or cancels the job.
JobStops == \E j \in job : j.phase # "stopped" /\ Stop(j)

\* storage_runtime raises: a directory is not private, persistent and disjoint
\* from the other; or its probe cannot be written, synced, read back or removed.
StorageRefused == \E j \in Gated : ~StorageBound /\ Stop(j)
ProbeFails == \E j \in Gated : StorageBound /\ Stop(j)

\* GitHub reruns all jobs, or the private one alone with the outputs of the
\* gate of the earlier attempt; or the owner comments anew.
Rerun ==
    \E j \in job :
        /\ j.phase = "stopped" /\ j.attempt < MaxRuns
        /\ \E phase \in {"queued", "gated"} :
              /\ phase = "gated" => j.gate # {}
              /\ job' = {Moved(j, phase, j.attempt + 1, j.gate)}
        /\ UNCHANGED <<now, prepared, launched, vars>>

Forget ==
    /\ \E j \in job : j.phase = "stopped"
    /\ job' = {}
    /\ UNCHANGED <<now, prepared, launched, vars>>

\* load_archived_run_ready returns the receipt the approval names.
\* Defect: the newest archived receipt is taken.
LoadNewest(j) == {r \in prepared : \A q \in prepared : q.issued <= r.issued}
Load(j) == {r \in prepared : \E g \in j.gate : r = g.expected}

\* validate_run_ready_receipt and the comparisons of execute_live.
ReceiptFresh(r) == now - r.issued <= ReceiptTTL
\* Defect: the receipt of another head is good enough.
ReceiptOfAnyHead(r, j) == TRUE
ReceiptOfHead(r, j) == r.head = j.sha
\* Defect: the credentials are compared by presence.
CredentialPresent(r, credential) == TRUE
CredentialUnchanged(r, credential) == r.credential = credential
\* Defect: the approval never expires before the start.
ApprovalNotFuture(j) == j.created <= now
ApprovalActive(j) == j.created <= now /\ now <= j.created + ApprovalTTL

\* _build_live_authorization, with what it was derived from and when.
Authorization(r, j, credential) ==
    [receipt |-> r, approval |-> j, credential |-> credential, at |-> now]

\* execute_live up to run_all.  Bound: afterwards the workflow run and the
\* receipts it did not load are forgotten; the process reads neither again.
Execute(p) ==
    \E j \in Gated, credential \in Credentials, age \in 0..(ReviewTTL + 1),
       os \in DOMAIN NativeOS :
        \E g \in j.gate, r \in Load(j) :
            /\ PrivateRunner(os, g.os)
            /\ FirstAttempt(j) /\ ReviewFresh(age) /\ Decidable(credential)
            /\ ReceiptOfHead(r, j) /\ ReceiptFresh(r)
            /\ CredentialUnchanged(r, credential)
            /\ ApprovalActive(j)
            /\ Start(p)
            /\ launched' = {Authorization(r, j, credential)}
            /\ prepared' = {r} /\ job' = {} /\ UNCHANGED now

RunnerStep ==
    /\ \/ \E p \in Proc : Step(p) \/ Crash(p)
       \/ launched # {} /\ AuthorityLost
       \/ \E k \in Kind : DirectoryReplaced(k)
       \/ PowerLoss
       \/ Terminated
    /\ UNCHANGED liveVars

LiveNext ==
    \/ Tick \/ Prepare \/ Approve \/ PublicGate \/ JobStops \/ StorageRefused
    \/ ProbeFails \/ Rerun \/ Forget
    \/ \E p \in Proc : Execute(p)
    \/ RunnerStep

LiveSpec == LiveInit /\ [][LiveNext]_<<vars, liveVars>>

\* A started process is scheduled, as in FairSpec.
FairLiveSpec == LiveSpec /\ \A p \in Proc : WF_<<vars, liveVars>>(Step(p) /\ UNCHANGED liveVars)

----------------------------------------------------------------------------
\* What execute_live started with hangs together, link by link.
Approved(l) ==
    /\ l.receipt = l.approval.names /\ l.receipt.head = l.approval.sha
    /\ \E g \in l.approval.gate : /\ g.expected = l.receipt /\ g.main = l.receipt.head
                                  /\ NativeOS[g.os] = Platform
    /\ l.receipt.credential = l.credential
    /\ l.receipt.issued <= l.approval.created /\ l.approval.created <= l.at
    /\ l.at <= l.approval.created + ApprovalTTL
    /\ l.at <= l.receipt.issued + ReceiptTTL
    /\ l.approval.attempt = 1

\* Behind every request stands one unbroken chain, whatever changed between its
\* links: a receipt prepared for the very head and credentials the process runs
\* with, archived before the owner named it, the protected variable naming the
\* same receipt while main was at that head, and a first attempt started while
\* receipt and approval were still valid (execute_live, github_event_snapshot).
SentAsApproved == wire # << >> => \E l \in launched : Approved(l)

=============================================================================
