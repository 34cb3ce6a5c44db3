------------------------------ MODULE BM1Runner ------------------------------
(***************************************************************************)
(* BM1Runner.run_all / run_next of b2/bm1.py in live mode, started by      *)
(* execute_live of b2/bm1_live.py: processes that hold one and the same    *)
(* live authorization, share the durable claim and raw-evidence            *)
(* directories, and may be restarted after a crash or a power loss.        *)
(*                                                                         *)
(* Everything a runner knows (receipts, counters, stop reason) is memory   *)
(* of the process; only the two directories and the archived summary       *)
(* survive it.  A check and the use of what it checked are separate steps. *)
(***************************************************************************)
EXTENDS Naturals, Sequences, FiniteSets, DurableFile, PrefixSums

CONSTANTS
    Proc,         \* runner processes; each may be started several times
    Planned,      \* MAX_PLANNED_ATTEMPTS, the length of the attempt plan
    ErrorLimit,   \* the provider-local failure that stops the run (the second)
    Ceiling,      \* MAX_TOTAL_SMOKE_SPEND_USD in some integral unit
    Pricings,     \* worst-case cost per attempt a manifest may carry
    MaxStarts     \* bound: number of execute_live processes ever started

Attempt == 1..Planned

ASSUME RunnerAssumption ==
    /\ Planned \in Nat \ {0}
    /\ ErrorLimit \in Nat \ {0}
    /\ Ceiling \in Nat
    /\ MaxStarts \in Nat
    /\ Pricings \subseteq [Attempt -> Nat]

Kind == {"claim", "raw"}           \* claim store and raw evidence sink
Dir == {"bound", "foreign"}        \* the directory RUN-READY froze, any other

Ended == {"down", "done", "raised"}

\* Steps of run_next after the claim is committed and before the opener call.
GatePhase == {"verify1", "revalidate1", "storage1", "revalidate2", "verify2", "send"}

Phase == Ended \cup GatePhase \cup
    {"loop", "revalidate", "storage", "claim", "wait", "raw", "score", "summary"}

IoStep == {"bind", "create", "write", "sync", "syncdir", "read", "idle"}

StopReason == {"COST_CEILING_GUARD", "LIVE_AUTHORIZATION_STOP",
    "LIVE_PRE_PROVIDER_STOP", "SECRET_LEAK_SUSPECTED", "EVIDENCE_WRITE_ERROR",
    "SECOND_PROVIDER_LOCAL_ERROR"}

\* What came back: an answer the scorer decides (PASS or FAIL), any of
\* _PROVIDER_LOCAL_FAILURES (timeouts included), or a body with a secret marker.
Answer == {"scored", "local_failure", "secret"}
\* Reported usage: absent, within the token limits, or above them.
Usage == {"unreported", "within", "over"}

Response == [answer : Answer, usage : Usage]
NoResponse == [answer |-> "none", usage |-> "unreported"]

Receipt == [
    terminal : {"SCORED", "ERROR", "BLOCKED"},
    reason   : StopReason \cup {"SCORED", "PROVIDER_LOCAL"},
    evidence : BOOLEAN,         \* the receipt carries an evidence fingerprint
    cost     : Nat]             \* attributable cost, 0 when unavailable

\* A request on the wire and the started process that sent it.
Message == [attempt : Attempt, run : 1..MaxStarts]

VARIABLES
    pc, io, handle,             \* phase, step of a durable write, directory of
                                \* the file it opened
    receipts, requests, localErrors, stop, response,    \* the runner's memory
    file,                       \* file[kind][dir][attempt] \in FileState
    dir,                        \* the directory each configured path names
    authority,                  \* does validate_live_authorization succeed
    worst,                      \* worst-case cost of each attempt
    archived,                   \* attempts accounted in an archived summary
    starts, run,                \* started processes, number of p's process
    wire,                       \* history: requests that left, in order
    stale                       \* history: processes whose claim was committed
                                \* after authority or directories were lost

memory == <<receipts, requests, localErrors, stop, response>>
environment == <<dir, authority, worst>>
history == <<starts, run, wire, stale>>
vars == <<pc, io, handle, memory, file, environment, archived, history>>

----------------------------------------------------------------------------
Init ==
    /\ pc = [p \in Proc |-> "down"]
    /\ io = [p \in Proc |-> "idle"]
    /\ handle = [p \in Proc |-> "bound"]
    /\ receipts = [p \in Proc |-> << >>]
    /\ requests = [p \in Proc |-> 0]
    /\ localErrors = [p \in Proc |-> 0]
    /\ stop = [p \in Proc |-> "none"]
    /\ response = [p \in Proc |-> NoResponse]
    /\ file = [k \in Kind |-> [d \in Dir |-> [i \in Attempt |-> "absent"]]]
    /\ dir = [k \in Kind |-> "bound"]
    /\ authority = TRUE
    /\ worst \in Pricings
    /\ archived = {}
    /\ starts = 0
    /\ run = [p \in Proc |-> 0]
    /\ wire = << >>
    /\ stale = {}

\* The attempt under way: attempt_plan[len(receipts)].
Index(p) == Len(receipts[p]) + 1

Goto(p, phase) == pc' = [pc EXCEPT ![p] = phase]

\* _live_storage_gate: both paths still name the directories RUN-READY froze.
StorageBound == dir["claim"] = "bound" /\ dir["raw"] = "bound"

\* verify_claim: the file the path now names holds the claim that was made.
ClaimVerified(p) == Readable(file["claim"][dir["claim"]][Index(p)])

\* Defect: the gates after the claim trust the validation before it.
RevalidatedOnce == TRUE

\* _revalidate_live and transport.revalidate after the claim.
Revalidated == authority

Spent(p) == SumTo([i \in DOMAIN receipts[p] |-> receipts[p][i].cost], Len(receipts[p]))

\* The worst case of attempt_plan[index:], the attempt about to be made included.
Remaining(p) == SumTo(worst, Planned) - SumTo(worst, Index(p) - 1)

\* Defect: the attempt about to be made is not part of what remains.
CostGuardBehind(p) ==
    Spent(p) + (SumTo(worst, Planned) - SumTo(worst, Index(p))) > Ceiling

\* actual + remaining > MAX_TOTAL_SMOKE_SPEND_USD
CostGuard(p) == Spent(p) + Remaining(p) > Ceiling

\* 0 when the usage is unknown or above the guard (amount None in _receipt).
AttributableCost(p) ==
    IF response[p].usage = "within" THEN worst[Index(p)] ELSE 0

\* Defect: the failure that just happened is not counted.
ErrorLimitReachedLate(p) == localErrors[p] >= ErrorLimit

ErrorLimitReached(p) == localErrors[p] + 1 >= ErrorLimit

NewReceipt(terminal, reason, evidence, cost) ==
    [terminal |-> terminal, reason |-> reason, evidence |-> evidence, cost |-> cost]

AppendReceipt(p, r) == receipts' = [receipts EXCEPT ![p] = Append(@, r)]

FreshMemory(p) ==
    /\ receipts' = [receipts EXCEPT ![p] = << >>]
    /\ requests' = [requests EXCEPT ![p] = 0]
    /\ localErrors' = [localErrors EXCEPT ![p] = 0]
    /\ stop' = [stop EXCEPT ![p] = "none"]
    /\ response' = [response EXCEPT ![p] = NoResponse]

----------------------------------------------------------------------------
(* execute_live and the loop of run_all *)

\* A process constructs its runner with fresh memory; a lost authority or a
\* replaced directory makes the construction raise, which changes nothing.
Start(p) ==
    /\ pc[p] \in Ended
    /\ starts < MaxStarts
    /\ authority
    /\ StorageBound
    /\ Goto(p, "loop")
    /\ FreshMemory(p)
    /\ starts' = starts + 1
    /\ run' = [run EXCEPT ![p] = starts + 1]
    /\ stale' = stale \ {p}
    /\ UNCHANGED <<io, handle, file, environment, archived, wire>>

\* run_all after a global stop: the rest of the plan is receipted BLOCKED.
FillBlocked(p) ==
    /\ pc[p] = "loop"
    /\ stop[p] # "none"
    /\ receipts' = [receipts EXCEPT ![p] =
           [i \in Attempt |-> IF i <= Len(@) THEN @[i]
                              ELSE NewReceipt("BLOCKED", stop[p], FALSE, 0)]]
    /\ Goto(p, "summary")
    /\ UNCHANGED <<io, handle, requests, localErrors, stop, response, file,
                   environment, archived, history>>

PlanFinished(p) ==
    /\ pc[p] = "loop"
    /\ stop[p] = "none"
    /\ Len(receipts[p]) >= Planned
    /\ Goto(p, "summary")
    /\ UNCHANGED <<io, handle, memory, file, environment, archived, history>>

\* The summary is archived with an exclusive durable write of its own.
Archive(p) ==
    /\ pc[p] = "summary"
    /\ archived' = archived \cup
           {i \in DOMAIN receipts[p] : receipts[p][i].terminal # "BLOCKED"}
    /\ Goto(p, "done")
    /\ UNCHANGED <<io, handle, memory, file, environment, history>>

ArchiveFails(p) ==
    /\ pc[p] = "summary"
    /\ Goto(p, "raised")
    /\ UNCHANGED <<io, handle, memory, file, environment, archived, history>>

----------------------------------------------------------------------------
(* run_next up to the claim *)

Idle(p) == pc[p] = "loop" /\ stop[p] = "none" /\ Len(receipts[p]) < Planned

BeginAttempt(p) ==
    /\ Idle(p)
    /\ requests[p] < Planned
    /\ ~CostGuard(p)
    /\ Goto(p, "revalidate")
    /\ UNCHANGED <<io, handle, memory, file, environment, archived, history>>

CostStop(p) ==
    /\ Idle(p)
    /\ CostGuard(p)
    /\ stop' = [stop EXCEPT ![p] = "COST_CEILING_GUARD"]
    /\ Goto(p, "raised")
    /\ UNCHANGED <<io, handle, receipts, requests, localErrors, response, file,
                   environment, archived, history>>

RevalidateBeforeClaim(p) ==
    /\ pc[p] = "revalidate"
    /\ authority
    /\ Goto(p, "storage")
    /\ UNCHANGED <<io, handle, memory, file, environment, archived, history>>

StorageGateBeforeClaim(p) ==
    /\ pc[p] = "storage"
    /\ StorageBound
    /\ Goto(p, "claim")
    /\ io' = [io EXCEPT ![p] = "bind"]
    /\ UNCHANGED <<handle, memory, file, environment, archived, history>>

\* Both gates also reach GitHub or a storage probe, which can fail by itself;
\* nothing is claimed yet and the exception leaves run_all.
GateBeforeClaimRaises(p) ==
    /\ pc[p] \in {"revalidate", "storage"}
    /\ Goto(p, "raised")
    /\ UNCHANGED <<io, handle, memory, file, environment, archived, history>>

----------------------------------------------------------------------------
(* _durable_exclusive_write, for the claim and for the raw evidence *)

\* FileAttemptClaimStore.claim compares the claim with the store's directory.
BindClaim(p) ==
    /\ pc[p] = "claim" /\ io[p] = "bind"
    /\ dir["claim"] = "bound"
    /\ io' = [io EXCEPT ![p] = "create"]
    /\ UNCHANGED <<pc, handle, memory, file, environment, archived, history>>

\* os.open(path, O_CREAT | O_EXCL): the path is resolved here, once.
CreateFile(p, k) ==
    /\ pc[p] = k /\ io[p] = "create"
    /\ Creatable(file[k][dir[k]][Index(p)])
    /\ file' = [file EXCEPT ![k][dir[k]][Index(p)] = "created"]
    /\ handle' = [handle EXCEPT ![p] = dir[k]]
    /\ io' = [io EXCEPT ![p] = "write"]
    /\ UNCHANGED <<pc, memory, environment, archived, history>>

WriteFile(p, k) ==
    /\ pc[p] = k /\ io[p] = "write"
    /\ file' = [file EXCEPT ![k][handle[p]][Index(p)] = "written"]
    /\ io' = [io EXCEPT ![p] = "sync"]
    /\ UNCHANGED <<pc, handle, memory, environment, archived, history>>

FlushFile(p, k) ==
    /\ pc[p] = k /\ io[p] = "sync"
    /\ file' = [file EXCEPT ![k][handle[p]][Index(p)] = AfterFlush]
    /\ io' = [io EXCEPT ![p] = IF Platform = "win32" THEN "read" ELSE "syncdir"]
    /\ UNCHANGED <<pc, handle, memory, environment, archived, history>>

\* _fsync_dir(path.parent) opens the directory by its path again.
SyncDirectory(p, k) ==
    /\ pc[p] = k /\ io[p] = "syncdir"
    /\ file' = [file EXCEPT ![k][dir[k]][Index(p)] = AfterDirectorySync(@)]
    /\ io' = [io EXCEPT ![p] = "read"]
    /\ UNCHANGED <<pc, handle, memory, environment, archived, history>>

\* The read-backs of the durable write and of claim(); run_next now owns the claim.
ClaimCommitted(p) ==
    /\ pc[p] = "claim" /\ io[p] = "read"
    /\ ClaimVerified(p)
    /\ Goto(p, "verify1")
    /\ io' = [io EXCEPT ![p] = "idle"]
    /\ stale' = IF authority /\ StorageBound THEN stale ELSE stale \cup {p}
    /\ UNCHANGED <<handle, memory, file, environment, archived, starts, run, wire>>

\* An existing name, an I/O error or a failed read-back: claim() is called
\* outside every try of run_next, so its exception ends the process.  What the
\* write left behind stays and burns the attempt.
ClaimRaises(p) ==
    /\ pc[p] = "claim"
    /\ Goto(p, "raised")
    /\ io' = [io EXCEPT ![p] = "idle"]
    /\ UNCHANGED <<handle, memory, file, environment, archived, history>>

----------------------------------------------------------------------------
(* The gate between the committed claim and the opener *)

GateStep(p, from, condition, to) ==
    /\ pc[p] = from
    /\ condition
    /\ Goto(p, to)
    /\ UNCHANGED <<io, handle, memory, file, environment, archived, history>>

VerifyClaim(p) == GateStep(p, "verify1", ClaimVerified(p), "revalidate1")
RevalidateRunner(p) == GateStep(p, "revalidate1", Revalidated, "storage1")
StorageGate(p) == GateStep(p, "storage1", StorageBound, "revalidate2")
RevalidateTransport(p) == GateStep(p, "revalidate2", Revalidated, "verify2")
VerifyClaimAgain(p) == GateStep(p, "verify2", ClaimVerified(p), "send")

\* Any gate may also fail by itself (verifier unreachable, storage probe error,
\* request construction): an ERROR receipt that keeps the claim, then a raise.
GateRaises(p) ==
    /\ pc[p] \in GatePhase
    /\ \E reason \in {"LIVE_AUTHORIZATION_STOP", "LIVE_PRE_PROVIDER_STOP"} :
          /\ reason = "LIVE_AUTHORIZATION_STOP" => pc[p] # "send"
          /\ stop' = [stop EXCEPT ![p] = reason]
          /\ AppendReceipt(p, NewReceipt("ERROR", reason, FALSE, 0))
    /\ Goto(p, "raised")
    /\ UNCHANGED <<io, handle, requests, localErrors, response, file,
                   environment, archived, history>>

\* provider_request_count += 1, then transport._opener(request).
Send(p) ==
    /\ pc[p] = "send"
    /\ requests' = [requests EXCEPT ![p] = @ + 1]
    /\ wire' = Append(wire, [attempt |-> Index(p), run |-> run[p]])
    /\ Goto(p, "wait")
    /\ UNCHANGED <<io, handle, receipts, localErrors, stop, response, file,
                   environment, archived, starts, run, stale>>

----------------------------------------------------------------------------
(* The response, its evidence and its receipt *)

\* Defect: a timeout is retried inside the opener.
ReceiveAnswerOrRetry(p) ==
    /\ pc[p] = "wait"
    /\ \E r \in Response :
          /\ r.answer # "secret"
          /\ response' = [response EXCEPT ![p] = r]
          /\ IF r.answer = "local_failure"
             THEN UNCHANGED <<pc, io>>
             ELSE Goto(p, "raw") /\ io' = [io EXCEPT ![p] = "create"]
    /\ UNCHANGED <<handle, receipts, requests, localErrors, stop, file,
                   environment, archived, history>>

ReceiveAnswer(p) ==
    /\ pc[p] = "wait"
    /\ \E r \in Response :
          /\ r.answer # "secret"
          /\ response' = [response EXCEPT ![p] = r]
    /\ Goto(p, "raw")
    /\ io' = [io EXCEPT ![p] = "create"]
    /\ UNCHANGED <<handle, receipts, requests, localErrors, stop, file,
                   environment, archived, history>>

\* Defect: the stop is recorded, the receipt of the attempt is not.
ReceiveSecretUnreceipted(p) ==
    /\ pc[p] = "wait"
    /\ stop' = [stop EXCEPT ![p] = "SECRET_LEAK_SUSPECTED"]
    /\ Goto(p, "loop")
    /\ UNCHANGED <<io, handle, receipts, requests, localErrors, response, file,
                   environment, archived, history>>

\* _secret_marker: nothing of the body is kept, not even as private evidence.
ReceiveSecret(p) ==
    /\ pc[p] = "wait"
    /\ stop' = [stop EXCEPT ![p] = "SECRET_LEAK_SUSPECTED"]
    /\ AppendReceipt(p, NewReceipt("ERROR", "SECRET_LEAK_SUSPECTED", FALSE, 0))
    /\ Goto(p, "loop")
    /\ UNCHANGED <<io, handle, requests, localErrors, response, file,
                   environment, archived, history>>

\* Defect: the evidence receipt is not checked against the bound directory.
EvidenceWrittenAnywhere(p) ==
    /\ pc[p] = "raw" /\ io[p] = "read"
    /\ Readable(file["raw"][dir["raw"]][Index(p)])
    /\ Goto(p, "score")
    /\ io' = [io EXCEPT ![p] = "idle"]
    /\ UNCHANGED <<handle, memory, file, environment, archived, history>>

\* The read-back succeeded and the evidence receipt names the bound directory.
EvidenceWritten(p) ==
    /\ pc[p] = "raw" /\ io[p] = "read"
    /\ Readable(file["raw"][dir["raw"]][Index(p)])
    /\ dir["raw"] = "bound"
    /\ Goto(p, "score")
    /\ io' = [io EXCEPT ![p] = "idle"]
    /\ UNCHANGED <<handle, memory, file, environment, archived, history>>

EvidenceFails(p) ==
    /\ pc[p] = "raw"
    /\ stop' = [stop EXCEPT ![p] = "EVIDENCE_WRITE_ERROR"]
    /\ AppendReceipt(p, NewReceipt("ERROR", "EVIDENCE_WRITE_ERROR", FALSE,
                                   AttributableCost(p)))
    /\ response' = [response EXCEPT ![p] = NoResponse]
    /\ Goto(p, "loop")
    /\ io' = [io EXCEPT ![p] = "idle"]
    /\ UNCHANGED <<handle, requests, localErrors, file, environment, archived, history>>

\* Tokens above the guard stop the run, whatever the answer was worth.
StopOnTokens(p) ==
    /\ pc[p] = "score"
    /\ response[p].usage = "over"
    /\ stop' = [stop EXCEPT ![p] = "COST_CEILING_GUARD"]
    /\ AppendReceipt(p, NewReceipt("ERROR", "COST_CEILING_GUARD", TRUE, 0))
    /\ response' = [response EXCEPT ![p] = NoResponse]
    /\ Goto(p, "loop")
    /\ UNCHANGED <<io, handle, requests, localErrors, file, environment, archived, history>>

ReceiptScored(p) ==
    /\ pc[p] = "score"
    /\ response[p].usage # "over" /\ response[p].answer = "scored"
    /\ AppendReceipt(p, NewReceipt("SCORED", "SCORED", TRUE, AttributableCost(p)))
    /\ response' = [response EXCEPT ![p] = NoResponse]
    /\ Goto(p, "loop")
    /\ UNCHANGED <<io, handle, requests, localErrors, stop, file, environment,
                   archived, history>>

\* Defect: the stop reason is the error code of the receipt.
ReceiptLocalFailureCode(p) ==
    /\ pc[p] = "score"
    /\ response[p].usage # "over" /\ response[p].answer = "local_failure"
    /\ AppendReceipt(p, NewReceipt("ERROR", "PROVIDER_LOCAL", TRUE, AttributableCost(p)))
    /\ localErrors' = [localErrors EXCEPT ![p] = @ + 1]
    /\ stop' = [stop EXCEPT ![p] = IF ErrorLimitReached(p) THEN "PROVIDER_LOCAL" ELSE @]
    /\ response' = [response EXCEPT ![p] = NoResponse]
    /\ Goto(p, "loop")
    /\ UNCHANGED <<io, handle, requests, file, environment, archived, history>>

ReceiptLocalFailure(p) ==
    /\ pc[p] = "score"
    /\ response[p].usage # "over" /\ response[p].answer = "local_failure"
    /\ AppendReceipt(p, NewReceipt("ERROR", "PROVIDER_LOCAL", TRUE, AttributableCost(p)))
    /\ localErrors' = [localErrors EXCEPT ![p] = @ + 1]
    /\ stop' = [stop EXCEPT ![p] =
                    IF ErrorLimitReached(p) THEN "SECOND_PROVIDER_LOCAL_ERROR" ELSE @]
    /\ response' = [response EXCEPT ![p] = NoResponse]
    /\ Goto(p, "loop")
    /\ UNCHANGED <<io, handle, requests, file, environment, archived, history>>

----------------------------------------------------------------------------
(* The environment *)

\* The authorization expires, is edited or is withdrawn; it does not come back.
AuthorityLost ==
    /\ authority
    /\ authority' = FALSE
    /\ UNCHANGED <<pc, io, handle, memory, file, dir, worst, archived, history>>

\* A configured path comes to name another directory.  It is assumed not to be
\* swapped back: claims do not tell two processes of one authorization apart.
DirectoryReplaced(k) ==
    /\ dir[k] = "bound"
    /\ dir' = [dir EXCEPT ![k] = "foreign"]
    /\ UNCHANGED <<pc, io, handle, memory, file, authority, worst, archived, history>>

\* The process dies; what it handed to the operating system stays.
Crash(p) ==
    /\ pc[p] \notin Ended
    /\ Goto(p, "down")
    /\ io' = [io EXCEPT ![p] = "idle"]
    /\ FreshMemory(p)
    /\ UNCHANGED <<handle, file, environment, archived, history>>

VolatileFiles ==
    {f \in Kind \X Dir \X Attempt : Volatile(file[f[1]][f[2]][f[3]])}

FilesLeft(kept, torn) ==
    [k \in Kind |-> [d \in Dir |-> [i \in Attempt |->
        AfterPowerLoss(file[k][d][i], <<k, d, i>> \in kept, <<k, d, i>> \in torn)]]]

\* Every process dies and every volatile file may be lost or torn.
PowerLoss ==
    /\ \E p \in Proc : pc[p] \notin Ended
    /\ pc' = [p \in Proc |-> IF pc[p] \in Ended THEN pc[p] ELSE "down"]
    /\ io' = [p \in Proc |-> "idle"]
    /\ receipts' = [p \in Proc |-> << >>]
    /\ requests' = [p \in Proc |-> 0]
    /\ localErrors' = [p \in Proc |-> 0]
    /\ stop' = [p \in Proc |-> "none"]
    /\ response' = [p \in Proc |-> NoResponse]
    /\ \E kept \in SUBSET VolatileFiles : \E torn \in SUBSET kept :
          file' = FilesLeft(kept, torn)
    /\ UNCHANGED <<handle, environment, archived, history>>

----------------------------------------------------------------------------
RunLoop(p) == FillBlocked(p) \/ PlanFinished(p) \/ Archive(p) \/ ArchiveFails(p)

BeforeClaim(p) ==
    \/ BeginAttempt(p) \/ CostStop(p)
    \/ RevalidateBeforeClaim(p) \/ StorageGateBeforeClaim(p) \/ GateBeforeClaimRaises(p)

DurableWrite(p) ==
    \E k \in Kind : \/ CreateFile(p, k) \/ WriteFile(p, k)
                    \/ FlushFile(p, k) \/ SyncDirectory(p, k)

Claiming(p) == BindClaim(p) \/ ClaimCommitted(p) \/ ClaimRaises(p)

Gate(p) ==
    \/ VerifyClaim(p) \/ RevalidateRunner(p) \/ StorageGate(p)
    \/ RevalidateTransport(p) \/ VerifyClaimAgain(p) \/ GateRaises(p)

Answering(p) ==
    \/ ReceiveAnswer(p) \/ ReceiveSecret(p) \/ EvidenceWritten(p) \/ EvidenceFails(p)
    \/ StopOnTokens(p) \/ ReceiptScored(p) \/ ReceiptLocalFailure(p)

Step(p) ==
    RunLoop(p) \/ BeforeClaim(p) \/ DurableWrite(p) \/ Claiming(p)
    \/ Gate(p) \/ Send(p) \/ Answering(p)

Environment == AuthorityLost \/ (\E k \in Kind : DirectoryReplaced(k)) \/ PowerLoss

\* No process is left and none may be started any more.
Terminated == (\A p \in Proc : pc[p] \in Ended) /\ UNCHANGED vars

Next ==
    \/ \E p \in Proc : Start(p) \/ Step(p) \/ Crash(p)
    \/ Environment
    \/ Terminated

Spec == Init /\ [][Next]_vars

\* A started process is scheduled, and the opener returns within TIMEOUT_SECONDS.
FairSpec == Spec /\ \A p \in Proc : WF_vars(Step(p))

----------------------------------------------------------------------------
(* Properties *)

\* The shape of the runner's memory, of the two directories and of the history.
TypeOK ==
    /\ pc \in [Proc -> Phase]
    /\ io \in [Proc -> IoStep]
    /\ handle \in [Proc -> Dir]
    /\ receipts \in [Proc -> Seq(Receipt)]
    /\ requests \in [Proc -> Nat]
    /\ localErrors \in [Proc -> Nat]
    /\ stop \in [Proc -> StopReason \cup {"none"}]
    /\ response \in [Proc -> Response \cup {NoResponse}]
    /\ file \in [Kind -> [Dir -> [Attempt -> FileState]]]
    /\ dir \in [Kind -> Dir]
    /\ authority \in BOOLEAN
    /\ worst \in Pricings
    /\ archived \subseteq Attempt
    /\ starts \in 0..MaxStarts
    /\ run \in [Proc -> 0..MaxStarts]
    /\ wire \in Seq(Message)
    /\ stale \subseteq Proc

\* Over all processes, crashes, power losses and restarts under one live
\* authorization, the j-th request that leaves is for the j-th planned attempt,
\* and one single process sent all of them: no attempt is sent twice, out of
\* order, or by a process that did not start the plan (run_next, claim).
WireFollowsPlan ==
    \A j \in DOMAIN wire : /\ wire[j].attempt = j
                            /\ wire[j].run = wire[1].run

\* A request leaves only behind a claim that no power loss can take away, in the
\* directory RUN-READY froze: DURABLE_BEFORE_PROVIDER_CALL.
SentIsClaimed ==
    \A j \in DOMAIN wire : file["claim"]["bound"][wire[j].attempt] = "durable"

\* A claim committed when the authority was already lost, or a directory already
\* replaced, is never followed by its request: the gates after the claim in
\* run_next see what the gates before it could not.
StaleClaimNotSent ==
    \A p \in stale : pc[p] \notin {"send", "wait", "raw", "score"}

\* The worst-case cost of all requests ever sent under the authorization stays
\* within the ceiling, whatever usage the provider reported or left out.
SpendWithinCeiling ==
    SumTo([j \in DOMAIN wire |-> worst[wire[j].attempt]], Len(wire)) <= Ceiling

\* A receipt that carries an evidence fingerprint stands on a private file that
\* survives a power loss in the bound raw directory (_evidence_receipt).
EvidenceBacked ==
    \A p \in Proc : \A i \in DOMAIN receipts[p] :
        receipts[p][i].evidence => file["raw"]["bound"][i] = "durable"

LocalFailures(rs, i) == {j \in 1..i : rs[j].reason = "PROVIDER_LOCAL"}

StopsTheRun(rs, i) ==
    \/ rs[i].terminal = "ERROR" /\ rs[i].reason \in StopReason
    \/ Cardinality(LocalFailures(rs, i)) >= ErrorLimit

\* After the receipt of a global stop, or of the second provider-local failure,
\* the plan is only BLOCKED, and nothing is BLOCKED before one (run_next, run_all).
StopIsFinal ==
    \A p \in Proc : \A i \in DOMAIN receipts[p] :
        (receipts[p][i].terminal = "BLOCKED")
            <=> \E j \in 1..(i - 1) : StopsTheRun(receipts[p], j)

SentBy(n) == {j \in DOMAIN wire : wire[j].run = n}

\* A summary accounts for what was sent: all planned attempts have a receipt, and
\* exactly those that reached the wire in this process are not BLOCKED.
SummaryMatchesWire ==
    \A p \in Proc : pc[p] = "done" /\ receipts[p] # << >> =>
        /\ Len(receipts[p]) = Planned
        /\ requests[p] = Cardinality(SentBy(run[p]))
        /\ \A i \in Attempt : (receipts[p][i].terminal # "BLOCKED") <=> (i <= requests[p])

\* No step, of a runner or of the environment, overwrites or removes a claim or an
\* evidence file that was committed (O_EXCL, "overwrite rejected").
CommittedFilesStay ==
    [][\A k \in Kind, d \in Dir, i \in Attempt :
          file[k][d][i] = "durable" => file'[k][d][i] = "durable"]_vars

\* The one-shot promise for attempts: its durable claim is made once, stays, and
\* one request follows it at most, whichever processes made the one and the other.
Plan == INSTANCE OneShot WITH
    Name <- Attempt,
    Claimant <- {"authorization"},
    Use <- 1..Planned,
    owner <- [i \in Attempt |-> {c \in {"authorization"} :
                file["claim"]["bound"][i] = "durable"}],
    uses <- [i \in Attempt |-> {j \in DOMAIN wire : wire[j].attempt = i}]

PlanIsOneShot == Plan!Spec

\* run_all ends: every process that was started finishes, raises or dies.
Termination == \A p \in Proc : (pc[p] \notin Ended) ~> (pc[p] \in Ended)

\* What docs/b2/bm1-live-multi-model.md calls "every committed claim receives a
\* terminal account": once its process has ended by itself, a claim that was
\* committed is accounted in an archived summary.
ClaimAccounted ==
    \A p \in Proc : pc[p] = "raised" =>
        \A i \in DOMAIN receipts[p] : i \in archived

=============================================================================
