------------------------------ MODULE BM1_proofs ------------------------------
(***************************************************************************)
(* What holds of BM1Runner for every number of processes, attempts and     *)
(* restarts, and of BM1Live for every set of heads and credentials and     *)
(* every validity period.                                                  *)
(*                                                                         *)
(* Of the runner: the inductive invariant IndInv is the conjunction of     *)
(*   TypeInv       types, and where an attempt is under way                *)
(*   CountInv      requests and receipts keep step                         *)
(*   RunInv        process numbers are never reused                        *)
(*   OwnerInv      who holds an uncommitted file, and how far it got       *)
(*   WireInv       the wire against the claims and the runner's counter    *)
(*   EvidenceInv   receipts against the evidence files                     *)
(*   StaleInv      where a process with a stale claim can be               *)
(* and on top of it AccountInv is the conjunction of                       *)
(*   SpendInv      whoever got as far as a claim saw the whole plan fit    *)
(*   StopInv       counter and stop reason against the receipts            *)
(*   SummaryInv    counter and summary against the wire                    *)
(* What a sum or a count amounts to is proved by induction over a set of   *)
(* numbers (PrefixSums_proofs).                                            *)
(*                                                                         *)
(* Of the live workflow: the orchestration adds no step to the runner      *)
(* (LiveIsRunner), so whatever was proved of the runner holds of it; and   *)
(* each link of the approval chain is kept by what the next process        *)
(* carries along (LiveInv): the job record keeps the receipt it names,     *)
(* each gate output was compared with it, and before execute_live has      *)
(* started a runner nothing runs.                                          *)
(***************************************************************************)
EXTENDS BM1Live, PrefixSums_proofs, FiniteSetTheorems, TLAPS

FileType == [Kind -> [Dir -> [Attempt -> FileState]]]

BeforeSend == GatePhase \cup {"revalidate", "storage", "claim"}
AfterSend == {"wait", "raw", "score"}

\* An attempt is under way only while the plan has one left and nothing stopped.
UnderWay(p) ==
    /\ Len(receipts[p]) <= Planned
    /\ pc[p] \in BeforeSend \cup AfterSend => Len(receipts[p]) < Planned /\ stop[p] = "none"
    /\ pc[p] \in {"raw", "score"} => response[p] \in Response
    /\ pc[p] \notin Ended => run[p] \in 1..starts

TypeInv == TypeOK /\ \A p \in Proc : UnderWay(p)

\* Every request of a running process has its receipt, the last one excepted.
InStep(p) ==
    /\ pc[p] \in BeforeSend \cup {"loop"} => requests[p] = Len(receipts[p])
    /\ pc[p] \in AfterSend => requests[p] = Len(receipts[p]) + 1

CountInv == \A p \in Proc : InStep(p)

RunInv ==
    /\ \A p \in Proc : run[p] <= starts
    /\ \A p, q \in Proc : p # q /\ run[p] = run[q] => run[p] = 0
    /\ \A j \in DOMAIN wire : wire[j].run <= starts

\* p is inside the durable write of kind k, with the file open in directory d.
Writes(p, k, d) ==
    pc[p] = k /\ io[p] \in {"write", "sync", "syncdir", "read"} /\ handle[p] = d

\* p holds the file of its current attempt: nobody else can create it.
Holds(p, k, d) == Writes(p, k, d) \/ (k = "claim" /\ pc[p] \in GatePhase /\ handle[p] = d)

EarlyGate == {"verify1", "revalidate1", "storage1"}
LateGate == {"revalidate2", "verify2", "send"}

Progress(p, k) ==
    /\ pc[p] = k /\ io[p] = "write" => file[k][handle[p]][Index(p)] = "created"
    /\ pc[p] = k /\ io[p] = "sync" => file[k][handle[p]][Index(p)] = "written"
    /\ pc[p] = k /\ io[p] = "syncdir"
           => file[k][handle[p]][Index(p)] \in {"synced", "durable"}
    /\ pc[p] = k /\ io[p] = "read" /\ handle[p] = "bound" /\ dir[k] = "bound"
           => file[k]["bound"][Index(p)] = "durable"

\* A file opened outside the bound directory was opened after the replacement.
HandleInv ==
    \A p \in Proc, k \in Kind :
        /\ Writes(p, k, "foreign") => dir[k] = "foreign"
        /\ k = "claim" /\ pc[p] \in EarlyGate /\ handle[p] = "foreign" => dir[k] = "foreign"
        /\ pc[p] \in LateGate => handle[p] = "bound"

Committed(p) ==
    /\ pc[p] \in EarlyGate /\ handle[p] = "bound" /\ dir["claim"] = "bound"
           => file["claim"]["bound"][Index(p)] = "durable"
    /\ pc[p] \in LateGate => file["claim"]["bound"][Index(p)] = "durable"
    /\ pc[p] = "score" => file["raw"]["bound"][Index(p)] = "durable"

HeldInv ==
    \A p \in Proc, k \in Kind, d \in Dir :
        Holds(p, k, d) => file[k][d][Index(p)] # "absent"

ExclusiveInv ==
    \A p, q \in Proc, k \in Kind, d \in Dir :
        Holds(p, k, d) /\ Holds(q, k, d) /\ Index(p) = Index(q) => p = q

OwnerInv ==
    /\ HandleInv /\ HeldInv /\ ExclusiveInv
    /\ \A p \in Proc : Committed(p) /\ \A k \in Kind : Progress(p, k)

\* A running process that sent anything sent everything; a held claim is unsent.
WireInv ==
    /\ WireFollowsPlan
    /\ SentIsClaimed
    /\ \A p \in Proc :
         /\ pc[p] \notin Ended /\ requests[p] > 0
                => Len(wire) = requests[p] /\ wire[1].run = run[p]
         /\ Holds(p, "claim", "bound") => Len(wire) < Index(p)

StaleInv ==
    \A p \in stale :
        /\ pc[p] \in Ended \cup EarlyGate
        /\ pc[p] \in EarlyGate => ~authority \/ ~StorageBound
        /\ pc[p] = "storage1" => ~StorageBound

IndInv == TypeInv /\ CountInv /\ RunInv /\ OwnerInv /\ WireInv /\ EvidenceBacked /\ StaleInv

----------------------------------------------------------------------------
(* The data operators *)

LEMMA FileUpdate ==
  ASSUME NEW f \in FileType, NEW k \in Kind, NEW d \in Dir, NEW i \in Attempt,
         NEW s \in FileState
  PROVE  /\ [f EXCEPT ![k][d][i] = s] \in FileType
         /\ \A l \in Kind, e \in Dir, j \in Attempt :
              [f EXCEPT ![k][d][i] = s][l][e][j] =
                  IF l = k /\ e = d /\ j = i THEN s ELSE f[l][e][j]
BY DEF FileType

LEMMA Appended ==
  ASSUME receipts \in [Proc -> Seq(Receipt)], NEW p \in Proc, NEW r \in Receipt,
         AppendReceipt(p, r)
  PROVE  /\ receipts' \in [Proc -> Seq(Receipt)]
         /\ receipts'[p] = Append(receipts[p], r)
         /\ Len(receipts'[p]) = Len(receipts[p]) + 1
         /\ \A q \in Proc : q # p => receipts'[q] = receipts[q]
BY DEF AppendReceipt

LEMMA Filled ==
  ASSUME TypeOK, NEW p \in Proc, Len(receipts[p]) <= Planned, FillBlocked(p)
  PROVE  /\ receipts' \in [Proc -> Seq(Receipt)]
         /\ Len(receipts'[p]) = Planned
         /\ \A i \in Attempt : receipts'[p][i] =
                IF i <= Len(receipts[p]) THEN receipts[p][i]
                ELSE NewReceipt("BLOCKED", stop[p], FALSE, 0)
         /\ \A q \in Proc : q # p => receipts'[q] = receipts[q]
<1> USE RunnerAssumption
<1> DEFINE r == [i \in Attempt |-> IF i <= Len(receipts[p]) THEN receipts[p][i]
                                   ELSE NewReceipt("BLOCKED", stop[p], FALSE, 0)]
<1>1. \A i \in Attempt : i <= Len(receipts[p]) => receipts[p][i] \in Receipt
  BY DEF TypeOK, Attempt
<1>2. NewReceipt("BLOCKED", stop[p], FALSE, 0) \in Receipt
  BY DEF FillBlocked, NewReceipt, Receipt, TypeOK, StopReason
<1>3. r \in [1..Planned -> Receipt] /\ Planned \in Nat
  BY <1>1, <1>2 DEF Attempt
<1>4. r \in Seq(Receipt) /\ Len(r) = Planned
  <2> HIDE DEF r
  <2> QED BY <1>3
<1>5. receipts' = [receipts EXCEPT ![p] = r]
  BY DEF FillBlocked
<1> QED BY <1>4, <1>5 DEF TypeOK

LEMMA Lost ==
  ASSUME TypeOK, NEW kept, NEW torn
  PROVE  /\ FilesLeft(kept, torn) \in FileType
         /\ \A k \in Kind, d \in Dir, i \in Attempt :
               file[k][d][i] = "durable" => FilesLeft(kept, torn)[k][d][i] = "durable"
<1>1. ASSUME NEW k \in Kind, NEW d \in Dir, NEW i \in Attempt, NEW a, NEW b
      PROVE  /\ AfterPowerLoss(file[k][d][i], a, b) \in FileState
             /\ file[k][d][i] = "durable"
                    => AfterPowerLoss(file[k][d][i], a, b) = "durable"
  <2>1. file[k][d][i] \in FileState
    BY DEF TypeOK
  <2> QED BY <2>1 DEF AfterPowerLoss, FileState, Volatile
<1>2. ASSUME NEW k \in Kind, NEW d \in Dir, NEW i \in Attempt
      PROVE  file[k][d][i] = "durable" => FilesLeft(kept, torn)[k][d][i] = "durable"
  <2>1. FilesLeft(kept, torn)[k][d][i] =
          AfterPowerLoss(file[k][d][i], <<k, d, i>> \in kept, <<k, d, i>> \in torn)
    BY DEF FilesLeft
  <2> QED BY <1>1, <2>1
<1>3. FilesLeft(kept, torn) \in FileType
  <2>1. ASSUME NEW k \in Kind, NEW d \in Dir
        PROVE  [i \in Attempt |-> AfterPowerLoss(file[k][d][i], <<k, d, i>> \in kept,
                                                 <<k, d, i>> \in torn)] \in [Attempt -> FileState]
    BY <1>1
  <2>2. ASSUME NEW k \in Kind
        PROVE  [d \in Dir |-> [i \in Attempt |->
                   AfterPowerLoss(file[k][d][i], <<k, d, i>> \in kept, <<k, d, i>> \in torn)]]
                 \in [Dir -> [Attempt -> FileState]]
    BY <2>1
  <2> QED BY <2>2 DEF FilesLeft, FileType
<1> QED BY <1>2, <1>3

\* Everything a file step may store.
LEMMA FileStates ==
  /\ AfterFlush \in {"synced", "durable"}
  /\ Platform = "win32" => AfterFlush = "durable"
  /\ \A s \in FileState : AfterDirectorySync(s) \in FileState
  /\ "created" \in FileState /\ "written" \in FileState
  /\ "synced" \in FileState /\ "durable" \in FileState
BY DEF AfterFlush, AfterDirectorySync, FileState

----------------------------------------------------------------------------
(* Types *)

LEMMA InitType == Init => TypeInv
<1> SUFFICES ASSUME Init PROVE TypeInv
  OBVIOUS
<1>1. Planned \in Nat /\ MaxStarts \in Nat
  BY RunnerAssumption
<1>2. file \in FileType
  BY DEF Init, FileType, FileState
<1>3. receipts \in [Proc -> Seq(Receipt)]
  BY DEF Init
<1>4. wire \in Seq(Message)
  BY DEF Init
<1>5. response \in [Proc -> Response \cup {NoResponse}]
  BY DEF Init
<1>6. TypeOK
  BY <1>1, <1>2, <1>3, <1>4, <1>5
     DEF Init, TypeOK, FileType, Phase, Ended, IoStep, Dir, Kind
<1>7. \A p \in Proc : UnderWay(p)
  BY <1>1 DEF Init, UnderWay, Ended, BeforeSend, AfterSend, GatePhase
<1> QED BY <1>6, <1>7 DEF TypeInv

LEMMA StepType == TypeInv /\ [Next]_vars => TypeInv'
<1> SUFFICES ASSUME TypeInv, [Next]_vars PROVE TypeInv'
  OBVIOUS
<1> USE RunnerAssumption DEF TypeInv
<1> USE DEF UnderWay, Phase, Ended, GatePhase, BeforeSend, AfterSend, memory,
            environment, history
<1>1. ASSUME NEW p \in Proc, Start(p) PROVE TypeInv'
  BY <1>1 DEF Start, FreshMemory, Goto, TypeOK
<1>2. ASSUME NEW p \in Proc, FillBlocked(p) PROVE TypeInv'
  <2>1. UNCHANGED <<io, handle, requests, localErrors, stop, response, file,
                   environment, archived, history>>
        /\ pc' = [pc EXCEPT ![p] = "summary"]
    BY <1>2 DEF FillBlocked, Goto
  <2>2. /\ receipts' \in [Proc -> Seq(Receipt)]
        /\ Len(receipts'[p]) = Planned
        /\ \A q \in Proc : q # p => receipts'[q] = receipts[q]
    BY <1>2, Filled
  <2>3. TypeOK'
    BY <2>1, <2>2 DEF TypeOK
  <2>4. pc[p] = "loop"
    BY <1>2 DEF FillBlocked
  <2>5. pc'[p] = "summary" /\ run'[p] = run[p] /\ starts' = starts
    BY <2>1 DEF TypeOK
  <2>6. ASSUME NEW q \in Proc PROVE UnderWay(q)'
    <3>1. CASE q = p
      BY <2>2, <2>4, <2>5, <3>1
    <3>2. CASE q # p
      BY <2>1, <2>2, <3>2 DEF TypeOK
    <3> QED BY <3>1, <3>2
  <2> QED BY <2>3, <2>6
<1>3. ASSUME NEW p \in Proc, PlanFinished(p) \/ Archive(p) \/ ArchiveFails(p) PROVE TypeInv'
  <2>1. DOMAIN receipts[p] \subseteq Attempt
    BY DEF TypeOK, Attempt
  <2>2. archived' \subseteq Attempt
    BY <1>3, <2>1 DEF PlanFinished, Archive, ArchiveFails, TypeOK
  <2>3. PICK phase \in {"summary", "done", "raised"} : Goto(p, phase)
    BY <1>3 DEF PlanFinished, Archive, ArchiveFails
  <2>5. pc[p] \in {"loop", "summary"}
    BY <1>3 DEF PlanFinished, Archive, ArchiveFails
  <2>4. UNCHANGED <<io, handle, memory, file, environment, history>>
    BY <1>3 DEF PlanFinished, Archive, ArchiveFails
  <2> QED BY <2>2, <2>3, <2>4, <2>5 DEF TypeOK, Goto
<1>4. ASSUME NEW p \in Proc, BeforeClaim(p) PROVE TypeInv'
  <2>1. CASE BeginAttempt(p)
    BY <2>1 DEF BeginAttempt, Idle, Goto, TypeOK
  <2>2. CASE CostStop(p)
    BY <2>2 DEF CostStop, Idle, Goto, TypeOK, StopReason
  <2>3. CASE RevalidateBeforeClaim(p)
    BY <2>3 DEF RevalidateBeforeClaim, Goto, TypeOK
  <2>4. CASE StorageGateBeforeClaim(p)
    BY <2>4 DEF StorageGateBeforeClaim, Goto, TypeOK, IoStep
  <2>5. CASE GateBeforeClaimRaises(p)
    BY <2>5 DEF GateBeforeClaimRaises, Goto, TypeOK
  <2> QED BY <1>4, <2>1, <2>2, <2>3, <2>4, <2>5 DEF BeforeClaim
<1>5. ASSUME NEW p \in Proc, NEW k \in Kind,
             CreateFile(p, k) \/ WriteFile(p, k) \/ FlushFile(p, k) \/ SyncDirectory(p, k)
      PROVE TypeInv'
  <2>1. Index(p) \in Attempt
    BY <1>5 DEF CreateFile, WriteFile, FlushFile, SyncDirectory, Kind, Index, Attempt, TypeOK
  <2>2. dir[k] \in Dir /\ handle[p] \in Dir /\ file[k][dir[k]][Index(p)] \in FileState
    BY <2>1 DEF TypeOK
  <2>3. file' \in FileType
    <3>1. file \in FileType
      BY DEF TypeOK, FileType
    <3>2. ASSUME NEW d \in Dir, NEW s \in FileState, file' = [file EXCEPT ![k][d][Index(p)] = s]
          PROVE  file' \in FileType
      BY <2>1, <3>1, <3>2, FileUpdate
    <3>3. CASE CreateFile(p, k)
      BY <2>2, <3>2, <3>3, FileStates DEF CreateFile
    <3>4. CASE WriteFile(p, k)
      BY <2>2, <3>2, <3>4, FileStates DEF WriteFile
    <3>5. CASE FlushFile(p, k)
      BY <2>2, <3>2, <3>5, FileStates DEF FlushFile
    <3>6. CASE SyncDirectory(p, k)
      BY <2>2, <3>2, <3>6, FileStates DEF SyncDirectory
    <3> QED BY <1>5, <3>3, <3>4, <3>5, <3>6
  <2>4. UNCHANGED <<pc, memory, environment, archived, history>>
        /\ io' \in [Proc -> IoStep] /\ handle' \in [Proc -> Dir]
    BY <1>5, <2>2 DEF CreateFile, WriteFile, FlushFile, SyncDirectory, TypeOK, IoStep
  <2> QED BY <2>3, <2>4 DEF TypeOK, FileType
<1>6. ASSUME NEW p \in Proc, Claiming(p) PROVE TypeInv'
  <2>1. CASE BindClaim(p)
    BY <2>1 DEF BindClaim, TypeOK, IoStep
  <2>2. CASE ClaimCommitted(p)
    BY <2>2 DEF ClaimCommitted, Goto, TypeOK, IoStep
  <2>3. CASE ClaimRaises(p)
    BY <2>3 DEF ClaimRaises, Goto, TypeOK, IoStep
  <2> QED BY <1>6, <2>1, <2>2, <2>3 DEF Claiming
<1>7. ASSUME NEW p \in Proc, Gate(p) PROVE TypeInv'
  <2>1. CASE GateRaises(p)
    <3>1. PICK reason \in {"LIVE_AUTHORIZATION_STOP", "LIVE_PRE_PROVIDER_STOP"} :
             /\ stop' = [stop EXCEPT ![p] = reason]
             /\ AppendReceipt(p, NewReceipt("ERROR", reason, FALSE, 0))
      BY <2>1 DEF GateRaises
    <3>2. NewReceipt("ERROR", reason, FALSE, 0) \in Receipt
      BY DEF NewReceipt, Receipt, StopReason
    <3>3. /\ receipts' \in [Proc -> Seq(Receipt)]
          /\ Len(receipts'[p]) = Len(receipts[p]) + 1
          /\ \A q \in Proc : q # p => receipts'[q] = receipts[q]
      BY <3>1, <3>2, Appended DEF TypeOK
    <3>4. /\ pc' = [pc EXCEPT ![p] = "raised"] /\ pc[p] \in GatePhase
          /\ UNCHANGED <<io, handle, requests, localErrors, response, file,
                         environment, archived, history>>
      BY <2>1 DEF GateRaises, Goto
    <3>5. TypeOK'
      BY <3>1, <3>3, <3>4 DEF TypeOK, StopReason
    <3> QED BY <3>1, <3>3, <3>4, <3>5 DEF TypeOK
  <2>2. CASE ~GateRaises(p)
    <3>1. PICK from \in GatePhase, to \in GatePhase : pc[p] = from /\ Goto(p, to)
      BY <1>7, <2>2 DEF Gate, VerifyClaim, RevalidateRunner, StorageGate,
         RevalidateTransport, VerifyClaimAgain, GateStep
    <3>2. UNCHANGED <<io, handle, memory, file, environment, archived, history>>
      BY <1>7, <2>2 DEF Gate, VerifyClaim, RevalidateRunner, StorageGate,
         RevalidateTransport, VerifyClaimAgain, GateStep
    <3> QED BY <3>1, <3>2 DEF Goto, TypeOK
  <2> QED BY <2>1, <2>2
<1>8. ASSUME NEW p \in Proc, Send(p) PROVE TypeInv'
  <2>1. Index(p) \in Attempt /\ run[p] \in 1..MaxStarts
    <3>1. Len(receipts[p]) < Planned /\ run[p] \in 1..starts
      BY <1>8 DEF Send
    <3>2. starts \in 0..MaxStarts /\ Len(receipts[p]) \in Nat
      BY DEF TypeOK
    <3> QED BY <3>1, <3>2 DEF Index, Attempt
  <2>2. wire' \in Seq(Message)
    BY <1>8, <2>1 DEF Send, TypeOK, Message
  <2>3. TypeOK'
    BY <1>8, <2>2 DEF Send, TypeOK, Goto
  <2> QED BY <1>8, <2>3 DEF Send, TypeOK, Goto
<1>9. ASSUME NEW p \in Proc, Answering(p) PROVE TypeInv'
  <2>1. CASE ReceiveAnswer(p)
    <3>1. /\ pc' \in [Proc -> Phase] /\ io' \in [Proc -> IoStep]
          /\ response' \in [Proc -> Response \cup {NoResponse}]
      BY <2>1 DEF ReceiveAnswer, Goto, TypeOK, IoStep
    <3>2. UNCHANGED <<handle, receipts, requests, localErrors, stop, file, environment, archived, history>>
      BY <2>1 DEF ReceiveAnswer
    <3>3. TypeOK'
      BY <3>1, <3>2 DEF TypeOK
    <3>4. \A q \in Proc : q # p => pc'[q] = pc[q] /\ io'[q] = io[q] /\ response'[q] = response[q]
      BY <2>1 DEF ReceiveAnswer, Goto, TypeOK
    <3>5. pc'[p] = "raw" /\ io'[p] = "create" /\ response'[p] \in Response
      BY <2>1 DEF ReceiveAnswer, Goto, TypeOK
    <3> QED BY <2>1, <3>2, <3>3, <3>4, <3>5 DEF ReceiveAnswer
  <2>2. CASE EvidenceWritten(p)
    <3>1. response[p] \in Response
      BY <2>2 DEF EvidenceWritten
    <3> QED BY <2>2, <3>1 DEF EvidenceWritten, Goto, TypeOK, IoStep
  <2>3. ASSUME pc[p] \in AfterSend,
               NEW terminal \in {"SCORED", "ERROR"},
               NEW reason \in StopReason \cup {"SCORED", "PROVIDER_LOCAL"},
               NEW evidence \in BOOLEAN, NEW cost \in Nat,
               AppendReceipt(p, NewReceipt(terminal, reason, evidence, cost)),
               Goto(p, "loop"),
               io' \in [Proc -> IoStep],
               stop' \in [Proc -> StopReason \cup {"none"}],
               \A q \in Proc : q # p => stop'[q] = stop[q],
               localErrors' \in [Proc -> Nat],
               response' \in [Proc -> Response \cup {NoResponse}],
               \A q \in Proc : q # p => response'[q] = response[q],
               UNCHANGED <<handle, requests, file, environment, archived, history>>
        PROVE  TypeInv'
    <3>1. NewReceipt(terminal, reason, evidence, cost) \in Receipt
      BY DEF NewReceipt, Receipt
    <3>2. /\ receipts' \in [Proc -> Seq(Receipt)]
          /\ Len(receipts'[p]) = Len(receipts[p]) + 1
          /\ \A q \in Proc : q # p => receipts'[q] = receipts[q]
      BY <2>3, <3>1, Appended DEF TypeOK
    <3>3. TypeOK'
      BY <2>3, <3>2 DEF TypeOK, Goto
    <3>4. pc' = [pc EXCEPT ![p] = "loop"]
      BY <2>3 DEF Goto
    <3>5. ASSUME NEW q \in Proc PROVE UnderWay(q)'
      <4>1. CASE q = p
        <5>1. pc'[p] = "loop" /\ run'[p] = run[p] /\ starts' = starts
          BY <2>3, <3>4 DEF TypeOK
        <5>2. Len(receipts[p]) < Planned /\ run[p] \in 1..starts
          BY <2>3
        <5>3. Len(receipts[p]) \in Nat
          BY DEF TypeOK
        <5> QED BY <3>2, <4>1, <5>1, <5>2, <5>3
      <4>2. CASE q # p
        BY <2>3, <3>2, <3>4, <4>2 DEF TypeOK
      <4> QED BY <4>1, <4>2
    <3> QED BY <3>3, <3>5
  <2>4. pc[p] \in AfterSend => AttributableCost(p) \in Nat
    BY DEF AttributableCost, TypeOK, Index, Attempt
  <2>5. CASE ReceiveSecret(p)
    BY <2>3, <2>5 DEF ReceiveSecret, TypeOK, StopReason
  <2>6. CASE EvidenceFails(p)
    BY <2>3, <2>4, <2>6 DEF EvidenceFails, TypeOK, StopReason, IoStep
  <2>7. CASE StopOnTokens(p)
    BY <2>3, <2>7 DEF StopOnTokens, TypeOK, StopReason
  <2>8. CASE ReceiptScored(p)
    BY <2>3, <2>4, <2>8 DEF ReceiptScored, TypeOK, StopReason
  <2>9. CASE ReceiptLocalFailure(p)
    <3>1. /\ stop' \in [Proc -> StopReason \cup {"none"}]
          /\ \A q \in Proc : q # p => stop'[q] = stop[q]
      BY <2>9 DEF ReceiptLocalFailure, TypeOK, StopReason
    <3>2. /\ response' \in [Proc -> Response \cup {NoResponse}]
          /\ \A q \in Proc : q # p => response'[q] = response[q]
      BY <2>9 DEF ReceiptLocalFailure, TypeOK
    <3>3. localErrors' \in [Proc -> Nat] /\ io' \in [Proc -> IoStep]
      BY <2>9 DEF ReceiptLocalFailure, TypeOK
    <3>4. AppendReceipt(p, NewReceipt("ERROR", "PROVIDER_LOCAL", TRUE, AttributableCost(p)))
          /\ Goto(p, "loop") /\ pc[p] \in AfterSend
          /\ UNCHANGED <<handle, requests, file, environment, archived, history>>
      BY <2>9 DEF ReceiptLocalFailure
    <3> QED BY <2>3, <2>4, <3>1, <3>2, <3>3, <3>4
  <2> QED BY <1>9, <2>1, <2>2, <2>5, <2>6, <2>7, <2>8, <2>9 DEF Answering
<1>10. ASSUME NEW p \in Proc, Crash(p) PROVE TypeInv'
  BY <1>10 DEF Crash, FreshMemory, Goto, TypeOK, IoStep
<1>11. ASSUME Environment PROVE TypeInv'
  <2>1. CASE PowerLoss
    <3>1. file' \in FileType
      BY <2>1, Lost DEF PowerLoss
    <3> QED BY <2>1, <3>1 DEF PowerLoss, TypeOK, FileType, IoStep
  <2>2. CASE AuthorityLost
    BY <2>2 DEF AuthorityLost, TypeOK
  <2>3. CASE \E k \in Kind : DirectoryReplaced(k)
    BY <2>3 DEF DirectoryReplaced, TypeOK, Dir
  <2> QED BY <1>11, <2>1, <2>2, <2>3 DEF Environment
<1>12. CASE UNCHANGED vars
  BY <1>12 DEF vars, TypeOK
<1> QED
  BY <1>1, <1>2, <1>3, <1>4, <1>5, <1>6, <1>7, <1>8, <1>9, <1>10, <1>11, <1>12
     DEF Next, Step, RunLoop, DurableWrite, Terminated

----------------------------------------------------------------------------
(* A step of one process leaves the others alone *)

SameProcess(q) ==
    /\ pc'[q] = pc[q] /\ io'[q] = io[q] /\ handle'[q] = handle[q]
    /\ receipts'[q] = receipts[q] /\ requests'[q] = requests[q]
    /\ localErrors'[q] = localErrors[q] /\ stop'[q] = stop[q] /\ run'[q] = run[q]
    /\ (q \in stale' <=> q \in stale)

LEMMA OthersUnchanged ==
  ASSUME TypeInv, NEW p \in Proc, Start(p) \/ Step(p) \/ Crash(p), NEW q \in Proc, q # p
  PROVE  SameProcess(q)
<1> USE DEF TypeInv, TypeOK, SameProcess, Goto, memory, environment, history
<1>1. CASE Start(p)
  BY <1>1 DEF Start, FreshMemory
<1>2. CASE RunLoop(p)
  BY <1>2 DEF RunLoop, FillBlocked, PlanFinished, Archive, ArchiveFails
<1>3. CASE BeforeClaim(p)
  BY <1>3 DEF BeforeClaim, BeginAttempt, CostStop, RevalidateBeforeClaim,
       StorageGateBeforeClaim, GateBeforeClaimRaises
<1>4. CASE DurableWrite(p)
  BY <1>4 DEF DurableWrite, CreateFile, WriteFile, FlushFile, SyncDirectory
<1>5. CASE Claiming(p)
  BY <1>5 DEF Claiming, BindClaim, ClaimCommitted, ClaimRaises
<1>6. CASE Gate(p)
  BY <1>6 DEF Gate, VerifyClaim, RevalidateRunner, StorageGate, RevalidateTransport,
       VerifyClaimAgain, GateStep, GateRaises, AppendReceipt
<1>7. CASE Send(p)
  BY <1>7 DEF Send
<1>8. CASE Answering(p)
  BY <1>8 DEF Answering, ReceiveAnswer, ReceiveSecret, EvidenceWritten, EvidenceFails,
       StopOnTokens, ReceiptScored, ReceiptLocalFailure, AppendReceipt
<1>9. CASE Crash(p)
  BY <1>9 DEF Crash, FreshMemory
<1> QED BY <1>1, <1>2, <1>3, <1>4, <1>5, <1>6, <1>7, <1>8, <1>9 DEF Step

----------------------------------------------------------------------------
(* Requests and receipts keep step *)

LEMMA StepCount == TypeInv /\ CountInv /\ [Next]_vars => CountInv'
<1> SUFFICES ASSUME TypeInv, CountInv, [Next]_vars PROVE CountInv'
  OBVIOUS
<1> USE DEF CountInv, InStep, GatePhase, BeforeSend, AfterSend
<1>0. ASSUME NEW p \in Proc, Start(p) \/ Step(p) \/ Crash(p), InStep(p)'
      PROVE  CountInv'
  <2>1. ASSUME NEW q \in Proc PROVE InStep(q)'
    <3>1. CASE q = p
      BY <1>0, <3>1
    <3>2. CASE q # p
      <4>1. SameProcess(q)
        BY <1>0, <3>2, OthersUnchanged
      <4> QED BY <4>1 DEF SameProcess
    <3> QED BY <3>1, <3>2
  <2> QED BY <2>1
<1>1. ASSUME NEW p \in Proc, Start(p) \/ Crash(p) PROVE InStep(p)'
  BY <1>1 DEF Start, Crash, FreshMemory, Goto, TypeInv, TypeOK
<1>2. ASSUME NEW p \in Proc, RunLoop(p) PROVE InStep(p)'
  BY <1>2 DEF RunLoop, FillBlocked, PlanFinished, Archive, ArchiveFails, Goto, TypeInv, TypeOK
<1>3. ASSUME NEW p \in Proc, BeforeClaim(p) PROVE InStep(p)'
  BY <1>3 DEF BeforeClaim, BeginAttempt, CostStop, Idle, RevalidateBeforeClaim,
       StorageGateBeforeClaim, GateBeforeClaimRaises, Goto, TypeInv, TypeOK, memory
<1>4. ASSUME NEW p \in Proc, DurableWrite(p) PROVE InStep(p)'
  BY <1>4 DEF DurableWrite, CreateFile, WriteFile, FlushFile, SyncDirectory, memory
<1>5. ASSUME NEW p \in Proc, Claiming(p) PROVE InStep(p)'
  BY <1>5 DEF Claiming, BindClaim, ClaimCommitted, ClaimRaises, Goto, TypeInv, TypeOK, memory
<1>6. ASSUME NEW p \in Proc, Gate(p) PROVE InStep(p)'
  BY <1>6 DEF Gate, VerifyClaim, RevalidateRunner, StorageGate, RevalidateTransport,
       VerifyClaimAgain, GateStep, GateRaises, Goto, TypeInv, TypeOK, memory
<1>7. ASSUME NEW p \in Proc, Send(p) PROVE InStep(p)'
  BY <1>7 DEF Send, Goto, TypeInv, TypeOK
<1>8. ASSUME NEW p \in Proc, Answering(p) PROVE InStep(p)'
  <2>1. CASE ReceiveAnswer(p) \/ EvidenceWritten(p)
    BY <2>1 DEF ReceiveAnswer, EvidenceWritten, Goto, TypeInv, TypeOK, memory
  <2>2. ASSUME pc[p] \in AfterSend, Goto(p, "loop"), requests' = requests,
               NEW r, AppendReceipt(p, r)
        PROVE  InStep(p)'
    <3>1. pc'[p] = "loop" /\ requests'[p] = Len(receipts[p]) + 1
      BY <2>2 DEF Goto, TypeInv, TypeOK
    <3>2. Len(receipts'[p]) = Len(receipts[p]) + 1
      BY <2>2 DEF AppendReceipt, TypeInv, TypeOK
    <3> QED BY <3>1, <3>2
  <2> QED
    BY <1>8, <2>1, <2>2 DEF Answering, ReceiveSecret, EvidenceFails, StopOnTokens,
         ReceiptScored, ReceiptLocalFailure
<1>9. CASE Environment
  BY <1>9 DEF Environment, AuthorityLost, DirectoryReplaced, PowerLoss, memory, Ended, TypeInv, TypeOK
<1>10. CASE UNCHANGED vars
  BY <1>10 DEF vars, memory
<1> QED
  BY <1>0, <1>1, <1>2, <1>3, <1>4, <1>5, <1>6, <1>7, <1>8, <1>9, <1>10
     DEF Next, Step, Terminated

----------------------------------------------------------------------------
(* Process numbers *)

LEMMA StepRun == TypeInv /\ RunInv /\ [Next]_vars => RunInv'
<1> SUFFICES ASSUME TypeInv, RunInv, [Next]_vars PROVE RunInv'
  OBVIOUS
<1> USE DEF RunInv, history
<1>1. ASSUME NEW p \in Proc, Start(p) PROVE RunInv'
  <2>1. run \in [Proc -> Nat] /\ starts \in Nat
    BY RunnerAssumption DEF TypeInv, TypeOK
  <2>2. wire' = wire /\ starts' = starts + 1 /\ run' = [run EXCEPT ![p] = starts + 1]
    BY <1>1 DEF Start
  <2>3. \A j \in DOMAIN wire : wire[j].run \in Nat
    <3>1. wire \in Seq(Message)
      BY DEF TypeInv, TypeOK
    <3>2. ASSUME NEW j \in DOMAIN wire PROVE wire[j] \in Message
      BY <3>1
    <3>3. \A m \in Message : m.run \in Nat
      BY RunnerAssumption DEF Message
    <3> QED BY <3>2, <3>3
  <2> QED BY <2>1, <2>2, <2>3
<1>2. ASSUME NEW p \in Proc, Send(p) PROVE RunInv'
  <2>1. /\ starts' = starts /\ run' = run
        /\ wire' = Append(wire, [attempt |-> Index(p), run |-> run[p]])
    BY <1>2 DEF Send
  <2>2. wire \in Seq(Message)
    BY DEF TypeInv, TypeOK
  <2> QED BY <2>1, <2>2
<1>3. ASSUME UNCHANGED <<starts, run, wire>> PROVE RunInv'
  BY <1>3
<1>4. ASSUME NEW p \in Proc, Step(p), ~Send(p) PROVE UNCHANGED <<starts, run, wire>>
  BY <1>4 DEF Step, RunLoop, FillBlocked, PlanFinished, Archive, ArchiveFails, BeforeClaim,
       BeginAttempt, CostStop, RevalidateBeforeClaim, StorageGateBeforeClaim,
       GateBeforeClaimRaises, DurableWrite, CreateFile, WriteFile, FlushFile, SyncDirectory,
       Claiming, BindClaim, ClaimCommitted, ClaimRaises, Gate, VerifyClaim,
       RevalidateRunner, StorageGate, RevalidateTransport, VerifyClaimAgain, GateStep,
       GateRaises, Answering, ReceiveAnswer, ReceiveSecret, EvidenceWritten,
       EvidenceFails, StopOnTokens, ReceiptScored, ReceiptLocalFailure
<1>5. ASSUME Environment \/ (\E p \in Proc : Crash(p)) \/ UNCHANGED vars
      PROVE UNCHANGED <<starts, run, wire>>
  BY <1>5 DEF Environment, AuthorityLost, DirectoryReplaced, PowerLoss, Crash, vars
<1> QED BY <1>1, <1>2, <1>3, <1>4, <1>5 DEF Next, Terminated

----------------------------------------------------------------------------
(* Who holds which file *)

Opens(p) == \E k \in Kind : CreateFile(p, k)
WritesFile(p, k) == WriteFile(p, k) \/ FlushFile(p, k) \/ SyncDirectory(p, k)

\* A process comes to hold a file only by creating it.
LEMMA HoldsBefore ==
  ASSUME TypeInv, NEW p \in Proc, Start(p) \/ Step(p) \/ Crash(p), ~Opens(p),
         NEW k \in Kind, NEW d \in Dir, Holds(p, k, d)'
  PROVE  Holds(p, k, d) /\ Index(p)' = Index(p)
<1> USE DEF Holds, Writes, GatePhase, Kind, Goto, memory, TypeInv, TypeOK
<1>1. ~Start(p) /\ ~Crash(p)
  BY DEF Start, Crash, Ended
<1>2. ~RunLoop(p) /\ ~Send(p)
  BY DEF RunLoop, FillBlocked, PlanFinished, Archive, ArchiveFails, Send
<1>3. CASE BeforeClaim(p)
  BY <1>3 DEF BeforeClaim, BeginAttempt, CostStop, RevalidateBeforeClaim,
       StorageGateBeforeClaim, GateBeforeClaimRaises
<1>4. CASE DurableWrite(p)
  BY <1>4 DEF DurableWrite, Opens, WriteFile, FlushFile, SyncDirectory, Index
<1>5. CASE Claiming(p)
  BY <1>5 DEF Claiming, BindClaim, ClaimCommitted, ClaimRaises, Index
<1>6. CASE Gate(p)
  BY <1>6 DEF Gate, VerifyClaim, RevalidateRunner, StorageGate, RevalidateTransport,
       VerifyClaimAgain, GateStep, GateRaises, Index
<1>7. CASE Answering(p)
  BY <1>7 DEF Answering, ReceiveAnswer, ReceiveSecret, EvidenceWritten, EvidenceFails,
       StopOnTokens, ReceiptScored, ReceiptLocalFailure, Index
<1> QED BY <1>1, <1>2, <1>3, <1>4, <1>5, <1>6, <1>7 DEF Step

\* What a file step of p does to the directories, and to what others hold.
LEMMA FileEffect ==
  ASSUME TypeInv, OwnerInv, NEW p \in Proc, NEW k \in Kind,
         CreateFile(p, k) \/ WritesFile(p, k)
  PROVE  /\ \A l \in Kind, e \in Dir, j \in Attempt :
               /\ file[l][e][j] # "absent" => file'[l][e][j] # "absent"
               /\ file[l][e][j] = "durable" => file'[l][e][j] = "durable"
         /\ \A q \in Proc, l \in Kind, e \in Dir :
               q # p /\ Holds(q, l, e) /\ Index(q) \in Attempt =>
                 \/ file'[l][e][Index(q)] = file[l][e][Index(q)]
                 \/ /\ file[l][e][Index(q)] = "synced"
                    /\ file'[l][e][Index(q)] = "durable"
<1>1. Index(p) \in Attempt
  BY RunnerAssumption DEF TypeInv, UnderWay, CreateFile, WritesFile, WriteFile, FlushFile,
     SyncDirectory, Kind, Index, Attempt, TypeOK, BeforeSend, AfterSend
<1>2. file \in FileType /\ dir[k] \in Dir /\ handle[p] \in Dir
  BY DEF TypeInv, TypeOK, FileType
<1>3. \A l \in Kind, e \in Dir, j \in Attempt : file[l][e][j] \in FileState
  BY <1>2 DEF FileType
<1>4. ASSUME NEW d \in Dir, NEW s \in FileState, file' = [file EXCEPT ![k][d][Index(p)] = s]
      PROVE  \A l \in Kind, e \in Dir, j \in Attempt :
               file'[l][e][j] = IF l = k /\ e = d /\ j = Index(p) THEN s ELSE file[l][e][j]
  BY <1>1, <1>2, <1>4, FileUpdate
<1>5. CASE CreateFile(p, k)
  <2>1. \A l \in Kind, e \in Dir, j \in Attempt : file'[l][e][j] =
           IF l = k /\ e = dir[k] /\ j = Index(p) THEN "created" ELSE file[l][e][j]
    BY <1>2, <1>4, <1>5, FileStates DEF CreateFile
  <2>2. file[k][dir[k]][Index(p)] = "absent"
    BY <1>5 DEF CreateFile, Creatable
  <2> QED BY <2>1, <2>2 DEF OwnerInv, HeldInv
<1>6. CASE WriteFile(p, k) \/ FlushFile(p, k)
  <2>1. /\ Writes(p, k, handle[p])
        /\ file[k][handle[p]][Index(p)] \in {"created", "written"}
    BY <1>6 DEF WriteFile, FlushFile, Writes, OwnerInv, Progress
  <2>2. PICK s \in FileState : file' = [file EXCEPT ![k][handle[p]][Index(p)] = s]
                               /\ s # "absent"
    BY <1>6, FileStates DEF WriteFile, FlushFile
  <2>3. \A l \in Kind, e \in Dir, j \in Attempt : file'[l][e][j] =
           IF l = k /\ e = handle[p] /\ j = Index(p) THEN s ELSE file[l][e][j]
    BY <1>2, <1>4, <2>2
  <2>4. \A q \in Proc, l \in Kind, e \in Dir :
           q # p /\ Holds(q, l, e) => ~(l = k /\ e = handle[p] /\ Index(q) = Index(p))
    BY <1>2, <2>1 DEF OwnerInv, ExclusiveInv, Holds
  <2> QED BY <2>1, <2>2, <2>3, <2>4
<1>7. CASE SyncDirectory(p, k)
  <2>1. \A l \in Kind, e \in Dir, j \in Attempt : file'[l][e][j] =
           IF l = k /\ e = dir[k] /\ j = Index(p)
           THEN AfterDirectorySync(file[l][e][j]) ELSE file[l][e][j]
    <3> DEFINE s == AfterDirectorySync(file[k][dir[k]][Index(p)])
    <3>1. s \in FileState
      BY <1>1, <1>2, <1>3, FileStates
    <3>2. file' = [file EXCEPT ![k][dir[k]][Index(p)] = s]
      BY <1>7 DEF SyncDirectory
    <3> HIDE DEF s
    <3>3. \A l \in Kind, e \in Dir, j \in Attempt : file'[l][e][j] =
             IF l = k /\ e = dir[k] /\ j = Index(p) THEN s ELSE file[l][e][j]
      BY <1>2, <1>4, <3>1, <3>2
    <3> QED BY <3>3 DEF s
  <2> QED BY <2>1 DEF AfterDirectorySync
<1> QED BY <1>5, <1>6, <1>7 DEF WritesFile

\* The other steps leave the files alone, a power loss excepted.
LEMMA FilesUnchanged ==
  ASSUME NEW p \in Proc, Start(p) \/ Step(p) \/ Crash(p), ~DurableWrite(p)
  PROVE  file' = file /\ dir' = dir /\ authority' = authority
BY DEF Start, Crash, Step, RunLoop, FillBlocked, PlanFinished, Archive, ArchiveFails, BeforeClaim,
     BeginAttempt, CostStop, RevalidateBeforeClaim, StorageGateBeforeClaim,
     GateBeforeClaimRaises, Claiming, BindClaim, ClaimCommitted, ClaimRaises, Gate, VerifyClaim,
     RevalidateRunner, StorageGate, RevalidateTransport, VerifyClaimAgain, GateStep,
     GateRaises, Send, Answering, ReceiveAnswer, ReceiveSecret, EvidenceWritten,
     EvidenceFails, StopOnTokens, ReceiptScored, ReceiptLocalFailure, environment

LEMMA DirectoriesUnchanged ==
  ASSUME NEW p \in Proc, Start(p) \/ Step(p) \/ Crash(p)
  PROVE  dir' = dir /\ authority' = authority
<1>1. CASE DurableWrite(p)
  BY <1>1 DEF DurableWrite, CreateFile, WriteFile, FlushFile, SyncDirectory, environment
<1> QED BY <1>1, FilesUnchanged

LEMMA IndexType ==
  ASSUME TypeInv, NEW p \in Proc
  PROVE  /\ Index(p) \in Nat \ {0}
         /\ pc[p] \in BeforeSend \cup AfterSend => Index(p) \in Attempt
<1>1. Len(receipts[p]) \in Nat /\ Planned \in Nat
  BY RunnerAssumption DEF TypeInv, TypeOK
<1>2. pc[p] \in BeforeSend \cup AfterSend => Len(receipts[p]) < Planned
  BY DEF TypeInv, UnderWay
<1> QED BY <1>1, <1>2 DEF Index, Attempt

LEMMA HoldsPhase ==
  ASSUME NEW p \in Proc, NEW k \in Kind, NEW d \in Dir, Holds(p, k, d)
  PROVE  pc[p] \in BeforeSend \cup AfterSend
BY DEF Holds, Writes, Kind, BeforeSend, AfterSend

----------------------------------------------------------------------------
(* The durable writes *)

LEMMA PowerLossEnds ==
  ASSUME TypeInv, PowerLoss, NEW p \in Proc
  PROVE  pc'[p] \in Ended /\ receipts'[p] = << >>
BY DEF PowerLoss, Ended, TypeInv, TypeOK

LEMMA StepHandle == TypeInv /\ HandleInv /\ [Next]_vars => HandleInv'
<1> SUFFICES ASSUME TypeInv, HandleInv, [Next]_vars PROVE HandleInv'
  OBVIOUS
<1> DEFINE Good(p) == \A k \in Kind :
        /\ Writes(p, k, "foreign") => dir[k] = "foreign"
        /\ k = "claim" /\ pc[p] \in EarlyGate /\ handle[p] = "foreign" => dir[k] = "foreign"
        /\ pc[p] \in LateGate => handle[p] = "bound"
<1> USE DEF Writes, EarlyGate, LateGate, Kind, Dir
<1>0. \A p \in Proc : Good(p)
  BY DEF HandleInv
<1>1. ASSUME NEW p \in Proc, Start(p) \/ Step(p) \/ Crash(p), Good(p)' PROVE HandleInv'
  <2>1. ASSUME NEW q \in Proc, q # p PROVE Good(q)'
    <3>1. SameProcess(q) /\ dir' = dir
      BY <1>1, <2>1, OthersUnchanged, DirectoriesUnchanged
    <3> QED BY <1>0, <3>1 DEF SameProcess
  <2> QED BY <1>1, <2>1 DEF HandleInv
<1> USE DEF Goto, TypeInv, TypeOK, environment
<1>2. ASSUME NEW p \in Proc, Start(p) \/ Crash(p) \/ RunLoop(p) \/ BeforeClaim(p) \/ Send(p)
      PROVE  Good(p)'
  <2>1. CASE Start(p) \/ Crash(p)
    BY <2>1 DEF Start, Crash
  <2>2. CASE RunLoop(p)
    BY <2>2 DEF RunLoop, FillBlocked, PlanFinished, Archive, ArchiveFails
  <2>3. CASE BeforeClaim(p)
    BY <2>3 DEF BeforeClaim, BeginAttempt, CostStop, RevalidateBeforeClaim,
       StorageGateBeforeClaim, GateBeforeClaimRaises
  <2>4. CASE Send(p)
    BY <2>4 DEF Send
  <2> QED BY <1>2, <2>1, <2>2, <2>3, <2>4
<1>3. ASSUME NEW p \in Proc, DurableWrite(p) PROVE Good(p)'
  BY <1>0, <1>3 DEF DurableWrite, CreateFile, WriteFile, FlushFile, SyncDirectory
<1>4. ASSUME NEW p \in Proc, Claiming(p) PROVE Good(p)'
  BY <1>0, <1>4 DEF Claiming, BindClaim, ClaimCommitted, ClaimRaises
<1>5. ASSUME NEW p \in Proc, Gate(p) PROVE Good(p)'
  BY <1>0, <1>5 DEF Gate, VerifyClaim, RevalidateRunner, StorageGate, RevalidateTransport,
     VerifyClaimAgain, GateStep, GateRaises, StorageBound
<1>6. ASSUME NEW p \in Proc, Answering(p) PROVE Good(p)'
  BY <1>6 DEF Answering, ReceiveAnswer, ReceiveSecret, EvidenceWritten, EvidenceFails,
     StopOnTokens, ReceiptScored, ReceiptLocalFailure
<1>7. CASE Environment
  <2>1. CASE PowerLoss
    BY <2>1, PowerLossEnds DEF HandleInv, Ended
  <2>2. CASE AuthorityLost \/ \E k \in Kind : DirectoryReplaced(k)
    BY <1>0, <2>2 DEF AuthorityLost, DirectoryReplaced, HandleInv
  <2> QED BY <1>7, <2>1, <2>2 DEF Environment
<1>8. CASE UNCHANGED vars
  BY <1>8 DEF vars, HandleInv
<1> QED BY <1>1, <1>2, <1>3, <1>4, <1>5, <1>6, <1>7, <1>8 DEF Next, Step, Terminated

LEMMA StepHeld == TypeInv /\ OwnerInv /\ [Next]_vars => HeldInv' /\ ExclusiveInv'
<1> SUFFICES ASSUME TypeInv, OwnerInv, [Next]_vars PROVE HeldInv' /\ ExclusiveInv'
  OBVIOUS
<1>0. HeldInv /\ ExclusiveInv
  BY DEF OwnerInv
<1>1. ASSUME NEW p \in Proc, Start(p) \/ Step(p) \/ Crash(p), ~Opens(p)
      PROVE  HeldInv' /\ ExclusiveInv'
  <2>1. ASSUME NEW q \in Proc, NEW l \in Kind, NEW e \in Dir, Holds(q, l, e)'
        PROVE  Holds(q, l, e) /\ Index(q)' = Index(q)
    <3>1. CASE q = p
      BY <1>1, <2>1, <3>1, HoldsBefore
    <3>2. CASE q # p
      BY <1>1, <2>1, <3>2, OthersUnchanged DEF SameProcess, Holds, Writes, Index
    <3> QED BY <3>1, <3>2
  <2>2. ASSUME NEW l \in Kind, NEW e \in Dir, NEW j \in Attempt, file[l][e][j] # "absent"
        PROVE  file'[l][e][j] # "absent"
    <3>1. CASE DurableWrite(p)
      BY <1>1, <2>2, <3>1, FileEffect DEF DurableWrite, WritesFile
    <3>2. CASE ~DurableWrite(p)
      BY <1>1, <2>2, <3>2, FilesUnchanged
    <3> QED BY <3>1, <3>2
  <2>3. HeldInv'
    <3> SUFFICES ASSUME NEW q \in Proc, NEW l \in Kind, NEW e \in Dir, Holds(q, l, e)'
                 PROVE  file'[l][e][Index(q)'] # "absent"
      BY DEF HeldInv
    <3>1. Holds(q, l, e) /\ Index(q)' = Index(q)
      BY <2>1
    <3>2. Index(q) \in Attempt
      BY <3>1, HoldsPhase, IndexType
    <3> QED BY <1>0, <2>2, <3>1, <3>2 DEF HeldInv
  <2> QED BY <1>0, <2>1, <2>3 DEF ExclusiveInv
<1>2. ASSUME NEW p \in Proc, NEW k \in Kind, CreateFile(p, k)
      PROVE  HeldInv' /\ ExclusiveInv'
  <2>1. Start(p) \/ Step(p) \/ Crash(p)
    BY <1>2 DEF Step, DurableWrite
  <2>2. ASSUME NEW q \in Proc, q # p, NEW l \in Kind, NEW e \in Dir, Holds(q, l, e)'
        PROVE  /\ Holds(q, l, e) /\ Index(q)' = Index(q) /\ Index(q) \in Attempt
               /\ file[l][e][Index(q)] # "absent"
    <3>1. Holds(q, l, e) /\ Index(q)' = Index(q)
      BY <2>1, <2>2, OthersUnchanged DEF SameProcess, Holds, Writes, Index
    <3> QED BY <1>0, <3>1, HoldsPhase, IndexType DEF HeldInv
  <2>3. /\ file[k][dir[k]][Index(p)] = "absent" /\ Index(p)' = Index(p)
        /\ dir[k] \in Dir /\ Index(p) \in Attempt
    <3>1. pc[p] \in BeforeSend \cup AfterSend
      BY <1>2 DEF CreateFile, Kind, BeforeSend, AfterSend
    <3> QED BY <1>2, <3>1, IndexType DEF CreateFile, Creatable, Index, memory, TypeInv, TypeOK
  <2>4. ASSUME NEW l \in Kind, NEW e \in Dir, Holds(p, l, e)'
        PROVE  l = k /\ e = dir[k]
    BY <1>2, <2>4 DEF CreateFile, Holds, Writes, Kind, GatePhase, TypeInv, TypeOK
  <2>5. file'[k][dir[k]][Index(p)] = "created"
    BY <1>2, <2>3, FileUpdate, FileStates DEF CreateFile, TypeInv, TypeOK, FileType
  <2>6. \A l \in Kind, e \in Dir, j \in Attempt :
           file[l][e][j] # "absent" => file'[l][e][j] # "absent"
    BY <1>2, FileEffect
  <2>7. HeldInv'
    <3> SUFFICES ASSUME NEW q \in Proc, NEW l \in Kind, NEW e \in Dir, Holds(q, l, e)'
                 PROVE  file'[l][e][Index(q)'] # "absent"
      BY DEF HeldInv
    <3>1. CASE q = p
      BY <2>3, <2>4, <2>5, <3>1
    <3>2. CASE q # p
      BY <2>2, <2>6, <3>2
    <3> QED BY <3>1, <3>2
  <2>8. ExclusiveInv'
    <3> SUFFICES ASSUME NEW q \in Proc, NEW r \in Proc, NEW l \in Kind, NEW e \in Dir,
                        Holds(q, l, e)', Holds(r, l, e)', Index(q)' = Index(r)'
                 PROVE  q = r
      BY DEF ExclusiveInv
    <3>1. CASE q # p /\ r # p
      BY <1>0, <2>2, <3>1 DEF ExclusiveInv
    <3>2. CASE q = p /\ r # p
      BY <2>2, <2>3, <2>4, <3>2
    <3>3. CASE q # p /\ r = p
      BY <2>2, <2>3, <2>4, <3>3
    <3> QED BY <3>1, <3>2, <3>3
  <2> QED BY <2>7, <2>8
<1>3. CASE PowerLoss
  BY <1>3, PowerLossEnds DEF HeldInv, ExclusiveInv, Holds, Writes, Ended, GatePhase, Kind
<1>4. CASE AuthorityLost \/ (\E k \in Kind : DirectoryReplaced(k)) \/ UNCHANGED vars
  BY <1>0, <1>4 DEF AuthorityLost, DirectoryReplaced, vars, memory, HeldInv, ExclusiveInv,
     Holds, Writes, Index
<1> QED BY <1>1, <1>2, <1>3, <1>4 DEF Next, Environment, Opens, Terminated

LEMMA StepProgress ==
  TypeInv /\ OwnerInv /\ [Next]_vars
    => \A p \in Proc : Committed(p)' /\ \A k \in Kind : Progress(p, k)'
<1> SUFFICES ASSUME TypeInv, OwnerInv, [Next]_vars
             PROVE  \A p \in Proc : Committed(p)' /\ \A k \in Kind : Progress(p, k)'
  OBVIOUS
<1> DEFINE Good(p) == Committed(p) /\ \A k \in Kind : Progress(p, k)
<1>0. \A p \in Proc : Good(p)
  BY DEF OwnerInv
<1>1. ASSUME NEW p \in Proc, Start(p) \/ Step(p) \/ Crash(p), NEW q \in Proc, q # p
      PROVE  Good(q)'
  <2>1. SameProcess(q) /\ dir' = dir /\ Index(q)' = Index(q)
    BY <1>1, OthersUnchanged, DirectoriesUnchanged DEF SameProcess, Index
  <2>2. CASE ~DurableWrite(p)
    BY <1>0, <1>1, <2>1, <2>2, FilesUnchanged DEF SameProcess, Committed, Progress
  <2>3. CASE DurableWrite(p)
    <3>1. PICK k \in Kind : CreateFile(p, k) \/ WritesFile(p, k)
      BY <2>3 DEF DurableWrite, WritesFile
    <3>2. pc[q] \in BeforeSend \cup AfterSend => Index(q) \in Attempt
      BY IndexType
    <3>3. handle[q] \in Dir
      BY DEF TypeInv, TypeOK
    <3>4. Committed(q)'
      BY <1>0, <2>1, <3>1, <3>2, FileEffect
         DEF SameProcess, Committed, EarlyGate, LateGate, BeforeSend, AfterSend, GatePhase, Kind, Dir
    <3>5. ASSUME NEW l \in Kind PROVE Progress(q, l)'
      <4>1. CASE Writes(q, l, handle[q])
        <5>1. Holds(q, l, handle[q]) /\ Index(q) \in Attempt
          BY <3>2, <3>3, <4>1, HoldsPhase DEF Holds
        <5>2. \/ file'[l][handle[q]][Index(q)] = file[l][handle[q]][Index(q)]
              \/ /\ file[l][handle[q]][Index(q)] = "synced"
                 /\ file'[l][handle[q]][Index(q)] = "durable"
          BY <1>1, <3>1, <3>3, <5>1, FileEffect
        <5> QED BY <1>0, <2>1, <5>2 DEF SameProcess, Progress
      <4>2. CASE ~Writes(q, l, handle[q])
        BY <2>1, <4>2 DEF SameProcess, Progress, Writes
      <4> QED BY <4>1, <4>2
    <3> QED BY <3>4, <3>5
  <2> QED BY <2>2, <2>3
<1>2. ASSUME NEW p \in Proc, NEW k \in Kind, CreateFile(p, k) \/ WritesFile(p, k)
      PROVE  Good(p)'
  <2>1. /\ pc[p] = k /\ pc' = pc /\ dir' = dir /\ Index(p)' = Index(p)
    BY <1>2 DEF CreateFile, WritesFile, WriteFile, FlushFile, SyncDirectory, Index, memory,
       environment
  <2>2. Committed(p)'
    BY <2>1 DEF Committed, EarlyGate, LateGate, Kind
  <2>3. \A l \in Kind : l # k => Progress(p, l)'
    BY <2>1 DEF Progress
  <2>4. /\ Index(p) \in Attempt /\ file \in FileType /\ io \in [Proc -> IoStep]
        /\ handle \in [Proc -> Dir] /\ handle[p] \in Dir /\ dir[k] \in Dir
    BY <2>1, IndexType DEF TypeInv, TypeOK, FileType, BeforeSend, AfterSend, Kind
  <2>5. ASSUME CreateFile(p, k) PROVE Progress(p, k)'
    <3>1. file'[k][dir[k]][Index(p)] = "created"
      BY <2>4, <2>5, FileUpdate, FileStates DEF CreateFile
    <3>2. io'[p] = "write" /\ handle'[p] = dir[k]
      BY <2>4, <2>5 DEF CreateFile
    <3> QED BY <2>1, <3>1, <3>2 DEF Progress
  <2>6. ASSUME WriteFile(p, k) PROVE Progress(p, k)'
    <3>1. file'[k][handle[p]][Index(p)] = "written"
      BY <2>4, <2>6, FileUpdate, FileStates DEF WriteFile
    <3>2. io'[p] = "sync" /\ handle'[p] = handle[p]
      BY <2>4, <2>6 DEF WriteFile
    <3> QED BY <2>1, <3>1, <3>2 DEF Progress
  <2>7. ASSUME FlushFile(p, k) PROVE Progress(p, k)'
    <3>1. AfterFlush \in FileState
      BY FileStates
    <3>2. file'[k][handle[p]][Index(p)] = AfterFlush
      BY <2>4, <2>7, <3>1, FileUpdate DEF FlushFile
    <3>3. io'[p] = (IF Platform = "win32" THEN "read" ELSE "syncdir") /\ handle'[p] = handle[p]
      BY <2>4, <2>7 DEF FlushFile
    <3>4. ASSUME io'[p] = "read" PROVE file'[k][handle[p]][Index(p)] = "durable"
      BY <3>2, <3>3, <3>4, FileStates
    <3>5. ASSUME io'[p] = "syncdir" PROVE file'[k][handle[p]][Index(p)] \in {"synced", "durable"}
      BY <3>2, FileStates
    <3> QED BY <2>1, <3>3, <3>4, <3>5 DEF Progress
  <2>8. ASSUME SyncDirectory(p, k) PROVE Progress(p, k)'
    <3>1. file[k][dir[k]][Index(p)] \in FileState
      BY <2>4 DEF FileType
    <3>2. file'[k][dir[k]][Index(p)] = AfterDirectorySync(file[k][dir[k]][Index(p)])
      <4> DEFINE s == AfterDirectorySync(file[k][dir[k]][Index(p)])
      <4>1. s \in FileState
        BY <3>1, FileStates
      <4>2. file' = [file EXCEPT ![k][dir[k]][Index(p)] = s]
        BY <2>8 DEF SyncDirectory
      <4> HIDE DEF s
      <4>3. file'[k][dir[k]][Index(p)] = s
        BY <2>4, <4>1, <4>2, FileUpdate
      <4> QED BY <4>3 DEF s
    <3>3. io[p] = "syncdir" /\ io'[p] = "read" /\ handle'[p] = handle[p]
      BY <2>4, <2>8 DEF SyncDirectory
    <3>4. file[k][handle[p]][Index(p)] \in {"synced", "durable"}
      BY <1>0, <2>1, <3>3 DEF Progress
    <3>5. dir[k] = handle[p] => file'[k][dir[k]][Index(p)] = "durable"
      BY <3>2, <3>4 DEF AfterDirectorySync
    <3> QED BY <2>1, <3>3, <3>5 DEF Progress
  <2>9. Progress(p, k)'
    BY <1>2, <2>5, <2>6, <2>7, <2>8 DEF WritesFile
  <2> QED BY <2>2, <2>3, <2>9
<1>3. ASSUME NEW p \in Proc, Start(p) \/ Crash(p) \/ RunLoop(p) \/ BeforeClaim(p) \/ Send(p)
      PROVE  Good(p)'
  <2>1. pc'[p] \notin GatePhase \cup {"raw", "score"} /\ (pc'[p] = "claim" => io'[p] = "bind")
    BY <1>3 DEF Start, Crash, RunLoop, FillBlocked, PlanFinished, Archive, ArchiveFails, BeforeClaim,
       BeginAttempt, CostStop, RevalidateBeforeClaim, StorageGateBeforeClaim,
       GateBeforeClaimRaises, Send, Goto, TypeInv, TypeOK, GatePhase
  <2> QED BY <2>1 DEF Committed, Progress, EarlyGate, LateGate, GatePhase, Kind
<1> USE DEF Committed, Progress, EarlyGate, LateGate, Kind, Dir, Index, memory, environment
<1>4. ASSUME NEW p \in Proc, Claiming(p) PROVE Good(p)'
  BY <1>0, <1>4 DEF Claiming, BindClaim, ClaimCommitted, ClaimRaises, Goto, TypeInv, TypeOK
<1>5. ASSUME NEW p \in Proc, Gate(p) PROVE Good(p)'
  <2>1. CASE GateRaises(p)
    BY <2>1 DEF GateRaises, Goto, TypeInv, TypeOK
  <2>2. CASE StorageGate(p)
    <3>1. handle[p] = "bound" /\ dir["claim"] = "bound" /\ pc[p] = "storage1"
      BY <2>2 DEF StorageGate, GateStep, StorageBound, OwnerInv, HandleInv, TypeInv, TypeOK
    <3> QED BY <1>0, <2>2, <3>1 DEF StorageGate, GateStep, Goto, TypeInv, TypeOK
  <2>3. CASE VerifyClaim(p) \/ RevalidateRunner(p) \/ RevalidateTransport(p) \/ VerifyClaimAgain(p)
    BY <1>0, <2>3 DEF VerifyClaim, RevalidateRunner, RevalidateTransport, VerifyClaimAgain,
       GateStep, Goto, TypeInv, TypeOK
  <2> QED BY <1>5, <2>1, <2>2, <2>3 DEF Gate
<1>6. ASSUME NEW p \in Proc, Answering(p) PROVE Good(p)'
  <2>1. CASE EvidenceWritten(p)
    <3>1. handle[p] = "bound" /\ dir["raw"] = "bound" /\ pc[p] = "raw" /\ io[p] = "read"
      BY <2>1 DEF EvidenceWritten, OwnerInv, HandleInv, Writes, TypeInv, TypeOK
    <3> QED BY <1>0, <2>1, <3>1 DEF EvidenceWritten, Goto, TypeInv, TypeOK
  <2>2. CASE ~EvidenceWritten(p)
    BY <1>6, <2>2 DEF Answering, ReceiveAnswer, ReceiveSecret, EvidenceFails,
       StopOnTokens, ReceiptScored, ReceiptLocalFailure, Goto, TypeInv, TypeOK
  <2> QED BY <2>1, <2>2
<1>7. CASE PowerLoss
  BY <1>7, PowerLossEnds DEF Ended
<1>8. CASE AuthorityLost \/ (\E k \in Kind : DirectoryReplaced(k))
  BY <1>0, <1>8 DEF AuthorityLost, DirectoryReplaced, TypeInv, TypeOK
<1>9. CASE UNCHANGED vars
  BY <1>0, <1>9 DEF vars
<1>10. ASSUME NEW p \in Proc, Start(p) \/ Step(p) \/ Crash(p) PROVE Good(p)'
  <2>1. CASE DurableWrite(p)
    BY <1>2, <2>1 DEF DurableWrite, WritesFile
  <2>2. CASE ~DurableWrite(p)
    BY <1>3, <1>4, <1>5, <1>6, <1>10, <2>2 DEF Step
  <2> QED BY <2>1, <2>2
<1> QED
  BY <1>1, <1>7, <1>8, <1>9, <1>10 DEF Next, Environment, Terminated

LEMMA StepOwner == TypeInv /\ OwnerInv /\ [Next]_vars => OwnerInv'
<1> SUFFICES ASSUME TypeInv, OwnerInv, [Next]_vars PROVE OwnerInv'
  OBVIOUS
<1>1. HandleInv'
  BY StepHandle DEF OwnerInv
<1>2. HeldInv' /\ ExclusiveInv'
  BY StepHeld
<1>3. \A p \in Proc : Committed(p)' /\ \A k \in Kind : Progress(p, k)'
  BY StepProgress
<1> QED BY <1>1, <1>2, <1>3 DEF OwnerInv

----------------------------------------------------------------------------
(* The wire *)

\* A committed file stays committed, whatever step is taken.
LEMMA DurableStays ==
  ASSUME TypeInv, OwnerInv, [Next]_vars,
         NEW k \in Kind, NEW d \in Dir, NEW i \in Attempt, file[k][d][i] = "durable"
  PROVE  file'[k][d][i] = "durable"
<1>1. ASSUME NEW p \in Proc, Start(p) \/ Step(p) \/ Crash(p) PROVE file'[k][d][i] = "durable"
  <2>1. CASE DurableWrite(p)
    BY <2>1, FileEffect DEF DurableWrite, WritesFile
  <2>2. CASE ~DurableWrite(p)
    BY <1>1, <2>2, FilesUnchanged
  <2> QED BY <2>1, <2>2
<1>2. CASE PowerLoss
  <2>1. PICK kept, torn : file' = FilesLeft(kept, torn)
    BY <1>2 DEF PowerLoss
  <2> QED BY <2>1, Lost DEF TypeInv
<1>3. CASE AuthorityLost \/ (\E l \in Kind : DirectoryReplaced(l)) \/ UNCHANGED vars
  BY <1>3 DEF AuthorityLost, DirectoryReplaced, vars
<1> QED BY <1>1, <1>2, <1>3 DEF Next, Environment, Terminated

WireOK(p) ==
    /\ pc[p] \notin Ended /\ requests[p] > 0
           => Len(wire) = requests[p] /\ wire[1].run = run[p]
    /\ Holds(p, "claim", "bound") => Len(wire) < Index(p)

LEMMA OthersWire ==
  ASSUME TypeInv, WireInv, NEW p \in Proc, Start(p) \/ Step(p) \/ Crash(p), wire' = wire,
         NEW q \in Proc, q # p
  PROVE  WireOK(q)'
<1>1. SameProcess(q)
  BY OthersUnchanged
<1>2. WireOK(q)
  BY DEF WireInv, WireOK
<1> QED BY <1>1, <1>2 DEF SameProcess, WireOK, Holds, Writes, Index

\* What a step that sends nothing does to the counters of its process.
LEMMA QuietCounters ==
  ASSUME TypeInv, NEW p \in Proc, Start(p) \/ Step(p) \/ Crash(p), ~Send(p)
  PROVE  /\ wire' = wire
         /\ requests'[p] = 0 \/ (requests'[p] = requests[p] /\ run'[p] = run[p])
         /\ pc[p] \in Ended => pc'[p] \in Ended \/ requests'[p] = 0
<1> USE DEF memory, history, TypeInv, TypeOK
<1>1. CASE Start(p) \/ Crash(p)
  BY <1>1 DEF Start, Crash, FreshMemory
<1>2. CASE RunLoop(p)
  BY <1>2 DEF RunLoop, FillBlocked, PlanFinished, Archive, ArchiveFails, Ended
<1>3. CASE BeforeClaim(p)
  BY <1>3 DEF BeforeClaim, BeginAttempt, CostStop, Idle, RevalidateBeforeClaim,
     StorageGateBeforeClaim, GateBeforeClaimRaises, Ended
<1>4. CASE DurableWrite(p)
  BY <1>4 DEF DurableWrite, CreateFile, WriteFile, FlushFile, SyncDirectory, Ended, Kind
<1>5. CASE Claiming(p)
  BY <1>5 DEF Claiming, BindClaim, ClaimCommitted, ClaimRaises, Ended
<1>6. CASE Gate(p)
  BY <1>6 DEF Gate, VerifyClaim, RevalidateRunner, StorageGate, RevalidateTransport,
     VerifyClaimAgain, GateStep, GateRaises, Ended, GatePhase
<1>7. CASE Answering(p)
  BY <1>7 DEF Answering, ReceiveAnswer, ReceiveSecret, EvidenceWritten, EvidenceFails,
     StopOnTokens, ReceiptScored, ReceiptLocalFailure, Ended
<1> QED BY <1>1, <1>2, <1>3, <1>4, <1>5, <1>6, <1>7 DEF Step

LEMMA WireType ==
  ASSUME TypeInv
  PROVE  /\ Len(wire) \in Nat /\ DOMAIN wire = 1..Len(wire)
         /\ \A j \in DOMAIN wire : wire[j].attempt \in Attempt
<1>1. wire \in Seq(Message)
  BY DEF TypeInv, TypeOK
<1>2. ASSUME NEW j \in DOMAIN wire PROVE wire[j] \in Message
  BY <1>1
<1>3. \A m \in Message : m.attempt \in Attempt
  BY DEF Message
<1> QED BY <1>1, <1>2, <1>3

LEMMA StepSend ==
  ASSUME TypeInv, CountInv, RunInv, OwnerInv, WireInv, NEW p \in Proc, Send(p)
  PROVE  WireInv'
<1>1. /\ pc[p] = "send" /\ pc'[p] = "wait" /\ requests'[p] = requests[p] + 1
      /\ wire' = Append(wire, [attempt |-> Index(p), run |-> run[p]])
      /\ run' = run /\ file' = file /\ receipts' = receipts
  BY DEF Send, Goto, TypeInv, TypeOK
<1>2. requests[p] = Index(p) - 1 /\ Len(receipts[p]) \in Nat /\ Index(p) \in Attempt
  BY <1>1, IndexType DEF CountInv, InStep, BeforeSend, GatePhase, Index, TypeInv, TypeOK
<1>3. handle[p] = "bound"
  BY <1>1 DEF OwnerInv, HandleInv, LateGate, Kind
<1>4. Holds(p, "claim", "bound")
  BY <1>1, <1>3 DEF Holds, GatePhase
<1>5. Len(wire) < Index(p)
  BY <1>4 DEF WireInv
<1>6. requests[p] > 0 => Len(wire) = requests[p] /\ wire[1].run = run[p]
  BY <1>1 DEF WireInv, Ended
<1>7. Len(wire) = Index(p) - 1 /\ Len(wire) = requests[p]
  BY <1>2, <1>5, <1>6, WireType DEF Index
<1>8. /\ Len(wire') = Len(wire) + 1
      /\ wire'[Len(wire) + 1] = [attempt |-> Index(p), run |-> run[p]]
      /\ \A j \in 1..Len(wire) : wire'[j] = wire[j]
      /\ DOMAIN wire' = 1..(Len(wire) + 1)
  <2>1. wire \in Seq(Message) /\ [attempt |-> Index(p), run |-> run[p]] \in Message
    <3>1. run[p] \in 1..starts /\ starts \in 0..MaxStarts
      BY <1>1 DEF TypeInv, TypeOK, UnderWay, Ended
    <3> QED BY <1>2, <3>1, RunnerAssumption DEF Message, TypeInv, TypeOK
  <2> QED BY <1>1, <2>1
<1>9. wire'[1].run = run[p]
  BY <1>2, <1>6, <1>7, <1>8, WireType
<1>10. WireFollowsPlan'
  <2>1. ASSUME NEW j \in 1..Len(wire) PROVE wire'[j].attempt = j /\ wire'[j].run = wire'[1].run
    <3>1. wire[j].attempt = j /\ wire[j].run = wire[1].run
      BY WireType DEF WireInv, WireFollowsPlan
    <3>2. wire'[j] = wire[j] /\ wire'[1] = wire[1]
      BY <1>8, WireType
    <3> QED BY <3>1, <3>2
  <2>2. wire'[Len(wire) + 1].attempt = Len(wire) + 1 /\ wire'[Len(wire) + 1].run = wire'[1].run
    <3>1. Index(p) = Len(wire) + 1
      BY <1>7, IndexType, WireType
    <3> QED BY <1>8, <1>9, <3>1
  <2> QED BY <1>8, <2>1, <2>2, WireType DEF WireFollowsPlan
<1>11. SentIsClaimed'
  <2>1. file["claim"]["bound"][Index(p)] = "durable"
    BY <1>1 DEF OwnerInv, Committed, LateGate
  <2> QED BY <1>1, <1>8, <2>1, WireType DEF WireInv, SentIsClaimed
<1>12. WireOK(p)'
  BY <1>1, <1>7, <1>8, <1>9, <1>2 DEF WireOK, Holds, Writes, GatePhase
<1>13. ASSUME NEW q \in Proc, q # p PROVE WireOK(q)'
  <2>1. SameProcess(q)
    BY <1>13, OthersUnchanged DEF Step
  <2>2. WireOK(q)
    BY DEF WireInv, WireOK
  <2>3. ~(pc[q] \notin Ended /\ requests[q] > 0)
    <3> SUFFICES ASSUME pc[q] \notin Ended, requests[q] > 0 PROVE FALSE
      OBVIOUS
    <3>1. wire[1].run = run[q] /\ Len(wire) > 0
      BY <2>2 DEF WireOK
    <3>2. run[p] = run[q]
      BY <1>6, <1>7, <3>1
    <3>3. run[p] \in 1..starts /\ starts \in Nat
      <4>1. run[p] \in 1..starts
        BY <1>1 DEF TypeInv, UnderWay, Ended
      <4>2. starts \in Nat
        BY RunnerAssumption DEF TypeInv, TypeOK
      <4> QED BY <4>1, <4>2
    <3> QED BY <1>13, <3>2, <3>3 DEF RunInv
  <2>4. Holds(q, "claim", "bound") => Len(wire) + 1 < Index(q)
    <3> SUFFICES ASSUME Holds(q, "claim", "bound") PROVE Len(wire) + 1 < Index(q)
      OBVIOUS
    <3>1. Len(wire) < Index(q) /\ Index(q) \in Nat
      BY <2>2, IndexType DEF WireOK
    <3>2. Index(q) # Index(p)
      BY <1>4, <1>13 DEF OwnerInv, ExclusiveInv, Kind, Dir
    <3>3. Index(p) \in Nat
      BY IndexType
    <3> QED BY <1>7, <3>1, <3>2, <3>3, WireType
  <2> QED BY <1>8, <2>1, <2>3, <2>4 DEF SameProcess, WireOK, Holds, Writes, Index
<1> QED BY <1>10, <1>11, <1>12, <1>13 DEF WireInv, WireOK

LEMMA StepWire ==
  TypeInv /\ CountInv /\ RunInv /\ OwnerInv /\ WireInv /\ [Next]_vars => WireInv'
<1> SUFFICES ASSUME TypeInv, CountInv, RunInv, OwnerInv, WireInv, [Next]_vars PROVE WireInv'
  OBVIOUS
<1>0. \A p \in Proc : WireOK(p)
  BY DEF WireInv, WireOK
<1>1. ASSUME wire' = wire, \A p \in Proc : WireOK(p)' PROVE WireInv'
  <2>1. WireFollowsPlan'
    BY <1>1 DEF WireInv, WireFollowsPlan
  <2>2. SentIsClaimed'
    BY <1>1, WireType, DurableStays DEF WireInv, SentIsClaimed, Kind, Dir
  <2> QED BY <1>1, <2>1, <2>2 DEF WireInv, WireOK
<1>2. ASSUME NEW p \in Proc, Start(p) \/ Step(p) \/ Crash(p), ~Send(p) PROVE WireInv'
  <2>1. wire' = wire
    BY <1>2, QuietCounters
  <2>2. pc'[p] \notin Ended /\ requests'[p] > 0
           => Len(wire') = requests'[p] /\ wire'[1].run = run'[p]
    BY <1>0, <1>2, QuietCounters DEF WireOK
  <2>3. ASSUME Holds(p, "claim", "bound")' PROVE Len(wire) < Index(p)'
    <3>1. CASE ~Opens(p)
      <4>1. Holds(p, "claim", "bound") /\ Index(p)' = Index(p)
        BY <1>2, <2>3, <3>1, HoldsBefore DEF Kind, Dir
      <4> QED BY <1>0, <4>1 DEF WireOK
    <3>2. CASE Opens(p)
      <4>1. PICK k \in Kind : CreateFile(p, k)
        BY <3>2 DEF Opens
      <4>2. k = "claim" /\ dir[k] = "bound" /\ Index(p)' = Index(p)
        BY <2>3, <4>1 DEF CreateFile, Holds, Writes, GatePhase, Kind, Index, memory, TypeInv, TypeOK
      <4>3. file["claim"]["bound"][Index(p)] = "absent"
        BY <4>1, <4>2 DEF CreateFile, Creatable
      <4>4. Index(p) \in Nat \ {0}
        BY IndexType
      <4>5. ~(Index(p) \in 1..Len(wire))
        BY <4>3, WireType DEF WireInv, SentIsClaimed, WireFollowsPlan
      <4> QED BY <4>2, <4>4, <4>5, WireType
    <3> QED BY <3>1, <3>2
  <2>4. WireOK(p)'
    BY <2>1, <2>2, <2>3 DEF WireOK
  <2> QED BY <1>1, <1>2, <2>1, <2>4, OthersWire
<1>3. CASE PowerLoss
  <2>1. wire' = wire
    BY <1>3 DEF PowerLoss, history
  <2>2. \A p \in Proc : WireOK(p)'
    BY <1>3, PowerLossEnds DEF WireOK, Holds, Writes, GatePhase, Ended
  <2> QED BY <1>1, <2>1, <2>2
<1>4. CASE AuthorityLost \/ (\E k \in Kind : DirectoryReplaced(k)) \/ UNCHANGED vars
  <2>1. UNCHANGED <<pc, io, handle, receipts, requests, run, wire>>
    BY <1>4 DEF AuthorityLost, DirectoryReplaced, vars, memory, history
  <2> QED BY <1>0, <1>1, <2>1 DEF WireOK, Holds, Writes, Index
<1> QED BY <1>2, <1>3, <1>4, StepSend DEF Next, Environment, Terminated

----------------------------------------------------------------------------
(* Evidence and stale claims *)

LEMMA StepEvidence ==
  TypeInv /\ OwnerInv /\ EvidenceBacked /\ [Next]_vars => EvidenceBacked'
<1> SUFFICES ASSUME TypeInv, OwnerInv, EvidenceBacked, [Next]_vars,
                    NEW p \in Proc, NEW i \in DOMAIN receipts'[p], receipts'[p][i].evidence
             PROVE  file'["raw"]["bound"][i] = "durable"
  BY DEF EvidenceBacked
<1>0. /\ receipts \in [Proc -> Seq(Receipt)] /\ Len(receipts[p]) \in Nat
      /\ Len(receipts[p]) <= Planned /\ Planned \in Nat
      /\ DOMAIN receipts[p] = 1..Len(receipts[p])
  BY RunnerAssumption DEF TypeInv, TypeOK, UnderWay
<1>1. ASSUME i \in DOMAIN receipts[p], receipts'[p][i] = receipts[p][i]
      PROVE  file'["raw"]["bound"][i] = "durable"
  <2>1. i \in Attempt
    BY <1>0, <1>1 DEF Attempt
  <2>2. file["raw"]["bound"][i] = "durable"
    BY <1>1 DEF EvidenceBacked
  <2> QED BY <2>1, <2>2, DurableStays DEF Kind, Dir
<1>2. ASSUME receipts'[p] = receipts[p] PROVE file'["raw"]["bound"][i] = "durable"
  BY <1>1, <1>2
<1>3. ASSUME NEW r, AppendReceipt(p, r), r.evidence => pc[p] = "score"
      PROVE  file'["raw"]["bound"][i] = "durable"
  <2>1. receipts'[p] = Append(receipts[p], r)
    BY <1>0, <1>3 DEF AppendReceipt
  <2>2. CASE i \in 1..Len(receipts[p])
    BY <1>0, <1>1, <2>1, <2>2
  <2>3. CASE i = Len(receipts[p]) + 1
    <3>1. pc[p] = "score" /\ i = Index(p)
      BY <1>0, <1>3, <2>1, <2>3 DEF Index
    <3>2. file["raw"]["bound"][i] = "durable"
      BY <3>1 DEF OwnerInv, Committed
    <3> QED BY <3>1, <3>2, IndexType, DurableStays DEF Kind, Dir, AfterSend
  <2> QED BY <1>0, <2>1, <2>2, <2>3
<1>4. ASSUME NEW q \in Proc, Start(q) \/ Step(q) \/ Crash(q)
      PROVE  file'["raw"]["bound"][i] = "durable"
  <2>1. CASE q # p
    BY <1>2, <1>4, <2>1, OthersUnchanged DEF SameProcess
  <2> SUFFICES ASSUME q = p PROVE file'["raw"]["bound"][i] = "durable"
    BY <2>1
  <2>2. CASE Start(p) \/ Crash(p)
    BY <1>0, <2>2 DEF Start, Crash, FreshMemory
  <2>3. CASE FillBlocked(p)
    <3>1. receipts'[p] = [j \in Attempt |-> IF j <= Len(receipts[p]) THEN receipts[p][j]
                                           ELSE NewReceipt("BLOCKED", stop[p], FALSE, 0)]
      BY <1>0, <2>3 DEF FillBlocked
    <3>2. i \in Attempt
      BY <3>1
    <3>3. receipts'[p][i] = IF i <= Len(receipts[p]) THEN receipts[p][i]
                            ELSE NewReceipt("BLOCKED", stop[p], FALSE, 0)
      BY <3>1, <3>2
    <3>4. CASE i <= Len(receipts[p])
      <4>1. i \in DOMAIN receipts[p]
        BY <1>0, <3>2, <3>4 DEF Attempt
      <4> QED BY <1>1, <3>3, <3>4, <4>1
    <3>5. CASE ~(i <= Len(receipts[p]))
      <4>1. receipts'[p][i] = NewReceipt("BLOCKED", stop[p], FALSE, 0)
        BY <3>3, <3>5
      <4>2. ~receipts'[p][i].evidence
        BY <4>1 DEF NewReceipt
      <4> QED BY <4>2
    <3> QED BY <3>4, <3>5
  <2>4. CASE PlanFinished(p) \/ Archive(p) \/ ArchiveFails(p) \/ BeforeClaim(p)
             \/ DurableWrite(p) \/ Claiming(p) \/ Send(p)
    BY <1>2, <2>4 DEF PlanFinished, Archive, ArchiveFails, BeforeClaim, BeginAttempt, CostStop,
       RevalidateBeforeClaim, StorageGateBeforeClaim, GateBeforeClaimRaises, DurableWrite,
       CreateFile, WriteFile, FlushFile, SyncDirectory, Claiming, BindClaim, ClaimCommitted,
       ClaimRaises, Send, memory
  <2>5. CASE Gate(p)
    <3>1. CASE GateRaises(p)
      BY <1>3, <3>1 DEF GateRaises, NewReceipt
    <3> QED BY <1>2, <2>5, <3>1 DEF Gate, VerifyClaim, RevalidateRunner, StorageGate,
         RevalidateTransport, VerifyClaimAgain, GateStep, memory
  <2>6. CASE ReceiveAnswer(p) \/ EvidenceWritten(p)
    BY <1>2, <2>6 DEF ReceiveAnswer, EvidenceWritten, memory
  <2>7. CASE ReceiveSecret(p) \/ EvidenceFails(p) \/ StopOnTokens(p) \/ ReceiptScored(p)
             \/ ReceiptLocalFailure(p)
    BY <1>3, <2>7 DEF ReceiveSecret, EvidenceFails, StopOnTokens, ReceiptScored,
       ReceiptLocalFailure, NewReceipt
  <2> QED BY <1>4, <2>2, <2>3, <2>4, <2>5, <2>6, <2>7 DEF Step, RunLoop, Answering
<1>5. CASE PowerLoss
  BY <1>5, PowerLossEnds
<1>6. CASE AuthorityLost \/ (\E k \in Kind : DirectoryReplaced(k)) \/ UNCHANGED vars
  BY <1>2, <1>6 DEF AuthorityLost, DirectoryReplaced, vars, memory
<1> QED BY <1>4, <1>5, <1>6 DEF Next, Environment, Terminated

LEMMA StepStale == TypeInv /\ StaleInv /\ [Next]_vars => StaleInv'
<1> SUFFICES ASSUME TypeInv, StaleInv, [Next]_vars PROVE StaleInv'
  OBVIOUS
<1> DEFINE Caught(p) ==
        /\ pc[p] \in Ended \cup EarlyGate
        /\ pc[p] \in EarlyGate => ~authority \/ ~StorageBound
        /\ pc[p] = "storage1" => ~StorageBound
<1>0. \A p \in stale : Caught(p)
  BY DEF StaleInv
<1>1. ASSUME NEW p \in Proc, Start(p) \/ Step(p) \/ Crash(p), p \in stale' => Caught(p)'
      PROVE  StaleInv'
  <2>1. ASSUME NEW q \in Proc, q # p, q \in stale' PROVE Caught(q)'
    <3>1. SameProcess(q) /\ dir' = dir /\ authority' = authority
      BY <1>1, <2>1, OthersUnchanged, DirectoriesUnchanged
    <3> QED BY <1>0, <2>1, <3>1 DEF SameProcess, StorageBound
  <2>2. stale' \subseteq Proc
    BY <1>1, StepType DEF TypeInv, TypeOK
  <2> QED BY <1>1, <2>1, <2>2 DEF StaleInv
<1> USE DEF Goto, TypeInv, TypeOK, Ended, EarlyGate, StorageBound, environment, history
<1>2. ASSUME NEW p \in Proc, Start(p) \/ Crash(p) \/ RunLoop(p) \/ BeforeClaim(p) \/ Send(p),
             p \in stale'
      PROVE  Caught(p)'
  BY <1>0, <1>2 DEF Start, Crash, RunLoop, FillBlocked, PlanFinished, Archive, ArchiveFails,
     BeforeClaim, BeginAttempt, CostStop, Idle, RevalidateBeforeClaim, StorageGateBeforeClaim,
     GateBeforeClaimRaises, Send
<1>3. ASSUME NEW p \in Proc, DurableWrite(p) \/ Answering(p), p \in stale' PROVE Caught(p)'
  BY <1>0, <1>3 DEF DurableWrite, CreateFile, WriteFile, FlushFile, SyncDirectory, Kind,
     Answering, ReceiveAnswer, ReceiveSecret, EvidenceWritten, EvidenceFails,
     StopOnTokens, ReceiptScored, ReceiptLocalFailure
<1>4. ASSUME NEW p \in Proc, Claiming(p), p \in stale' PROVE Caught(p)'
  <2>1. CASE BindClaim(p)
    BY <1>0, <1>4, <2>1 DEF BindClaim
  <2>2. CASE ClaimRaises(p)
    BY <1>4, <2>2 DEF ClaimRaises
  <2>3. CASE ClaimCommitted(p)
    <3>1. pc[p] = "claim" /\ pc'[p] = "verify1"
      BY <2>3 DEF ClaimCommitted
    <3>2. p \notin stale
      BY <1>0, <3>1
    <3>3. ~(authority /\ dir["claim"] = "bound" /\ dir["raw"] = "bound")
      BY <1>4, <2>3, <3>2 DEF ClaimCommitted
    <3>4. authority' = authority /\ dir' = dir
      BY <2>3 DEF ClaimCommitted
    <3> QED BY <3>1, <3>3, <3>4
  <2> QED BY <1>4, <2>1, <2>2, <2>3 DEF Claiming
<1>5. ASSUME NEW p \in Proc, Gate(p), p \in stale' PROVE Caught(p)'
  <2>1. stale' = stale /\ authority' = authority /\ dir' = dir
    BY <1>5 DEF Gate, VerifyClaim, RevalidateRunner, StorageGate, RevalidateTransport,
       VerifyClaimAgain, GateStep, GateRaises
  <2>2. Caught(p)
    BY <1>0, <1>5, <2>1
  <2>3. CASE VerifyClaim(p)
    BY <2>1, <2>2, <2>3 DEF VerifyClaim, GateStep
  <2>4. CASE RevalidateRunner(p)
    BY <2>1, <2>2, <2>4 DEF RevalidateRunner, GateStep, Revalidated
  <2>5. CASE StorageGate(p) \/ RevalidateTransport(p) \/ VerifyClaimAgain(p)
    BY <2>1, <2>2, <2>5 DEF StorageGate, RevalidateTransport, VerifyClaimAgain, GateStep
  <2>6. CASE GateRaises(p)
    BY <2>6 DEF GateRaises
  <2> QED BY <1>5, <2>3, <2>4, <2>5, <2>6 DEF Gate
<1>6. CASE PowerLoss
  BY <1>6, PowerLossEnds DEF PowerLoss, StaleInv
<1>7. CASE AuthorityLost \/ \E k \in Kind : DirectoryReplaced(k)
  BY <1>0, <1>7 DEF AuthorityLost, DirectoryReplaced, StaleInv, Dir, Kind
<1>8. CASE UNCHANGED vars
  BY <1>0, <1>8 DEF vars, StaleInv
<1> QED BY <1>1, <1>2, <1>3, <1>4, <1>5, <1>6, <1>7, <1>8 DEF Next, Step, Environment, Terminated

----------------------------------------------------------------------------
(* The theorems *)

LEMMA InitIndInv == Init => IndInv
<1> SUFFICES ASSUME Init PROVE IndInv
  OBVIOUS
<1>1. TypeInv
  BY InitType
<1>2. CountInv /\ RunInv
  BY DEF Init, CountInv, InStep, RunInv, BeforeSend, AfterSend, GatePhase
<1>3. OwnerInv
  BY DEF Init, OwnerInv, HandleInv, HeldInv, ExclusiveInv, Holds, Writes, Committed, Progress,
     EarlyGate, LateGate, GatePhase, Kind
<1>4. WireInv
  BY DEF Init, WireInv, WireFollowsPlan, SentIsClaimed, Holds, Writes, GatePhase, Ended
<1>5. EvidenceBacked /\ StaleInv
  BY DEF Init, EvidenceBacked, StaleInv
<1> QED BY <1>1, <1>2, <1>3, <1>4, <1>5 DEF IndInv

\* The inductive invariant holds of run_all / run_next under every interleaving,
\* crash, power loss and restart.
THEOREM Inductive == Spec => []IndInv
<1>1. IndInv /\ [Next]_vars => IndInv'
  BY StepType, StepCount, StepRun, StepOwner, StepWire, StepEvidence, StepStale DEF IndInv
<1> QED BY InitIndInv, <1>1, PTL DEF Spec

\* The runner's memory, the directories and the histories keep their types.
THEOREM TypeCorrect == Spec => []TypeOK
<1>1. IndInv => TypeOK
  BY DEF IndInv, TypeInv
<1> QED BY Inductive, <1>1, PTL

\* run_next: the requests that leave under one authorization follow the plan,
\* each planned attempt at most once, all of them from one process.
THEOREM PlanIsFollowed == Spec => []WireFollowsPlan
<1>1. IndInv => WireFollowsPlan
  BY DEF IndInv, WireInv
<1> QED BY Inductive, <1>1, PTL

\* run_next: every request that left has a claim no power loss takes away.
THEOREM ClaimBeforeSend == Spec => []SentIsClaimed
<1>1. IndInv => SentIsClaimed
  BY DEF IndInv, WireInv
<1> QED BY Inductive, <1>1, PTL

\* The gates after the claim: a claim committed too late is not followed by a request.
THEOREM StaleNeverSent == Spec => []StaleClaimNotSent
<1>1. IndInv => StaleClaimNotSent
  BY DEF IndInv, StaleInv, StaleClaimNotSent, Ended, EarlyGate
<1> QED BY Inductive, <1>1, PTL

\* _evidence_receipt: evidence a receipt refers to is on disk in the bound directory.
THEOREM EvidenceIsBacked == Spec => []EvidenceBacked
<1>1. IndInv => EvidenceBacked
  BY DEF IndInv
<1> QED BY Inductive, <1>1, PTL

\* _durable_exclusive_write: no step takes a committed file away or rewrites it.
THEOREM CommittedStay == Spec => CommittedFilesStay
<1>1. IndInv /\ [Next]_vars =>
        [\A k \in Kind, d \in Dir, i \in Attempt :
            file[k][d][i] = "durable" => file'[k][d][i] = "durable"]_vars
  BY DurableStays DEF IndInv
<1> QED BY Inductive, <1>1, PTL DEF Spec, CommittedFilesStay

----------------------------------------------------------------------------
(* The claims and the wire implement OneShot *)

ClaimOwner(i) == {c \in {"authorization"} : file["claim"]["bound"][i] = "durable"}
ClaimUses(i) == {j \in DOMAIN wire : wire[j].attempt = i}

\* A step that sends nothing leaves every history of requests as it is.
LEMMA WireUnchanged ==
  ASSUME TypeInv, [Next]_vars, \A p \in Proc : ~Send(p)
  PROVE  wire' = wire
<1>1. ASSUME NEW p \in Proc, Start(p) \/ Step(p) \/ Crash(p) PROVE wire' = wire
  BY <1>1, QuietCounters
<1>2. CASE Environment \/ UNCHANGED vars
  BY <1>2 DEF Environment, AuthorityLost, DirectoryReplaced, PowerLoss, history, vars
<1> QED BY <1>1, <1>2 DEF Next, Terminated

\* A claim directory changes for OneShot only where a claim becomes durable.
LEMMA CommitStep ==
  ASSUME IndInv, [Next]_vars, wire' = wire
  PROVE  Plan!Next \/ UNCHANGED Plan!vars
<1>1. ASSUME NEW i \in Attempt, ClaimOwner(i)' # ClaimOwner(i)
      PROVE  ClaimOwner(i) = {} /\ ClaimOwner(i)' = {"authorization"}
  <2>1. file["claim"]["bound"][i] = "durable" => file'["claim"]["bound"][i] = "durable"
    BY DurableStays DEF IndInv, Kind, Dir
  <2> QED BY <1>1, <2>1 DEF ClaimOwner
<1>2. [i \in Attempt |-> ClaimUses(i)]' = [i \in Attempt |-> ClaimUses(i)]
  BY DEF ClaimUses
<1>3. [i \in Attempt |-> ClaimOwner(i)]' \in [Attempt -> SUBSET {"authorization"}]
  BY DEF ClaimOwner
<1> QED BY <1>1, <1>2, <1>3 DEF Plan!Next, Plan!Commit, ClaimOwner, ClaimUses

\* A request is the first use of the attempt it is for, by the claim's owner.
LEMMA SpendStep ==
  ASSUME IndInv, IndInv', NEW p \in Proc, Send(p)
  PROVE  Plan!Next
<1> DEFINE u == Len(wire) + 1
<1>1. /\ wire' = Append(wire, [attempt |-> Index(p), run |-> run[p]])
      /\ file' = file
  BY DEF Send
<1>2. Len(wire) \in Nat /\ DOMAIN wire = 1..Len(wire)
  BY WireType DEF IndInv
<1>3. wire \in Seq(Message) /\ wire' \in Seq(Message)
  BY DEF IndInv, TypeInv, TypeOK
<1>4. Len(wire') = u /\ DOMAIN wire' = 1..u
  BY <1>1, <1>2, <1>3
<1>5. \A j \in DOMAIN wire : wire[j].attempt = j
  BY DEF IndInv, WireInv, WireFollowsPlan
<1>6. \A j \in DOMAIN wire' : wire'[j].attempt = j
  BY DEF IndInv, WireInv, WireFollowsPlan
<1>7. u \in DOMAIN wire' /\ u \in Attempt
  <2>1. u \in DOMAIN wire'
    BY <1>2, <1>4
  <2>2. wire'[u] \in Message
    BY <1>3, <1>4, <2>1
  <2>3. wire'[u].attempt \in Attempt
    BY <2>2 DEF Message
  <2> QED BY <1>6, <2>1, <2>3
<1>8. ClaimOwner(u) = {"authorization"}
  <2>1. file'["claim"]["bound"][wire'[u].attempt] = "durable"
    BY <1>7 DEF IndInv, WireInv, SentIsClaimed
  <2> QED BY <1>1, <1>6, <1>7, <2>1 DEF ClaimOwner
<1>9. \A i \in Attempt : ClaimUses(i) = {j \in 1..Len(wire) : j = i}
  BY <1>2, <1>5 DEF ClaimUses
<1>10. \A i \in Attempt : ClaimUses(i)' = {j \in 1..u : j = i}
  BY <1>4, <1>6 DEF ClaimUses
<1>11. ASSUME NEW i \in Attempt, ClaimUses(i)' # ClaimUses(i)
       PROVE  ClaimOwner(i) = {"authorization"} /\ ClaimUses(i) = {} /\ ClaimUses(i)' = {u}
  <2>1. i \in Nat
    BY RunnerAssumption DEF Attempt
  <2>2. ClaimUses(i) = {j \in 1..Len(wire) : j = i}
    BY <1>9
  <2>3. ClaimUses(i)' = {j \in 1..u : j = i}
    BY <1>10
  <2>4. {j \in 1..Len(wire) : j = i} # {j \in 1..u : j = i}
    BY <1>11, <2>2, <2>3
  <2>5. i = u
    BY <1>2, <2>1, <2>4
  <2> QED BY <1>2, <1>8, <2>2, <2>3, <2>5
<1>12. [i \in Attempt |-> ClaimUses(i)]' \in [Attempt -> SUBSET (1..Planned)]
  <2>1. 1..u \subseteq 1..Planned
    BY <1>2, <1>7, RunnerAssumption DEF Attempt
  <2> QED BY <1>10, <2>1
<1>13. [i \in Attempt |-> ClaimOwner(i)]' = [i \in Attempt |-> ClaimOwner(i)]
  BY <1>1 DEF ClaimOwner
<1>14. u \in 1..Planned
  BY <1>7 DEF Attempt
<1>15. \A i \in Attempt :
          [n \in Attempt |-> ClaimUses(n)]'[i] # [n \in Attempt |-> ClaimUses(n)][i] =>
              /\ [n \in Attempt |-> ClaimOwner(n)][i] = {"authorization"}
              /\ [n \in Attempt |-> ClaimUses(n)][i] = {}
              /\ [n \in Attempt |-> ClaimUses(n)]'[i] = {u}
  BY <1>11
<1> HIDE DEF u
<1>16. Plan!Spend("authorization", u)
  BY <1>12, <1>13, <1>15 DEF Plan!Spend, ClaimOwner, ClaimUses
<1>17. \E c \in {"authorization"}, v \in 1..Planned : Plan!Spend(c, v)
  BY <1>14, <1>16 DEF Plan!Spend
<1> QED BY <1>17 DEF Plan!Next

\* OneShot over the runner's claim directory: an attempt is committed to the
\* authorization once, for good, and used by at most one request, made by its
\* owner, under every interleaving, crash, power loss and restart.
THEOREM ClaimsAreOneShot == Spec => PlanIsOneShot
<1>1. Init => Plan!Init
  <2> SUFFICES ASSUME Init PROVE Plan!Init
    OBVIOUS
  <2>1. wire = << >>
    BY DEF Init
  <2>2. \A i \in Attempt : file["claim"]["bound"][i] # "durable"
    BY DEF Init, Kind, Dir
  <2> QED BY <2>1, <2>2 DEF Plan!Init
<1>2. IndInv /\ IndInv' /\ [Next]_vars => Plan!Next \/ UNCHANGED Plan!vars
  <2> SUFFICES ASSUME IndInv, IndInv', [Next]_vars
               PROVE  Plan!Next \/ UNCHANGED Plan!vars
    OBVIOUS
  <2>1. CASE \E p \in Proc : Send(p)
    BY <2>1, SpendStep
  <2>2. CASE \A p \in Proc : ~Send(p)
    BY <2>2, WireUnchanged, CommitStep DEF IndInv
  <2> QED BY <2>1, <2>2
<1> QED BY <1>1, <1>2, Inductive, PTL DEF Spec, PlanIsOneShot, Plan!Spec

----------------------------------------------------------------------------
(* The account: what is spent, what stops a run, and its summary *)

Affordable == SumTo(worst, Planned) <= Ceiling

SpendInv ==
    /\ wire # << >> => Affordable
    /\ \A p \in Proc : pc[p] \in BeforeSend => Affordable

Blocked(rs, i) == rs[i].terminal = "BLOCKED"

\* Nothing is blocked before a stop, and everything after one.
StopsOnce(rs) ==
    \A i \in DOMAIN rs : Blocked(rs, i) <=> \E j \in 1..(i - 1) : StopsTheRun(rs, j)

Unstopped(rs) ==
    \A i \in DOMAIN rs : ~Blocked(rs, i) /\ ~StopsTheRun(rs, i)

\* The last receipt is the one that stops the run.
JustStopped(rs) ==
    /\ rs # << >> /\ StopsTheRun(rs, Len(rs))
    /\ \A i \in DOMAIN rs : ~Blocked(rs, i)

Counted(p) ==
    localErrors[p] = Cardinality(LocalFailures(receipts[p], Len(receipts[p])))

StopInv(p) ==
    /\ Counted(p)
    /\ StopsOnce(receipts[p])
    /\ pc[p] \notin Ended /\ stop[p] = "none"
           => Unstopped(receipts[p]) /\ localErrors[p] < ErrorLimit
    /\ pc[p] = "loop" /\ stop[p] # "none" => JustStopped(receipts[p])

SummaryInv(p) ==
    /\ pc[p] \notin Ended \/ (pc[p] = "done" /\ receipts[p] # << >>)
           => requests[p] = Cardinality(SentBy(run[p]))
    /\ pc[p] = "summary" \/ (pc[p] = "done" /\ receipts[p] # << >>)
           => /\ Len(receipts[p]) = Planned
              /\ \A i \in Attempt : ~Blocked(receipts[p], i) <=> i <= requests[p]

AccountInv ==
    /\ SpendInv
    /\ \A p \in Proc : StopInv(p)
    /\ \A p \in Proc : SummaryInv(p)

----------------------------------------------------------------------------
(* Spending *)

LEMMA WorstFixed == [Next]_vars => UNCHANGED worst
<1> SUFFICES ASSUME [Next]_vars PROVE UNCHANGED worst
  OBVIOUS
<1>1. ASSUME NEW p \in Proc, Start(p) \/ Step(p) \/ Crash(p) PROVE UNCHANGED worst
  <2>1. CASE DurableWrite(p)
    BY <2>1 DEF DurableWrite, CreateFile, WriteFile, FlushFile, SyncDirectory, environment
  <2>2. CASE Start(p) \/ Crash(p) \/ RunLoop(p) \/ BeforeClaim(p) \/ Claiming(p)
    BY <2>2 DEF Start, Crash, RunLoop, FillBlocked, PlanFinished, Archive, ArchiveFails,
       BeforeClaim, BeginAttempt, CostStop, RevalidateBeforeClaim, StorageGateBeforeClaim,
       GateBeforeClaimRaises, Claiming, BindClaim, ClaimCommitted, ClaimRaises, environment
  <2>3. CASE Gate(p) \/ Send(p) \/ Answering(p)
    BY <2>3 DEF Gate, VerifyClaim, RevalidateRunner, StorageGate, RevalidateTransport,
       VerifyClaimAgain, GateStep, GateRaises, Send, Answering, ReceiveAnswer, ReceiveSecret,
       EvidenceWritten, EvidenceFails, StopOnTokens, ReceiptScored, ReceiptLocalFailure,
       environment
  <2> QED BY <1>1, <2>1, <2>2, <2>3 DEF Step
<1>2. CASE Environment \/ UNCHANGED vars
  BY <1>2 DEF Environment, AuthorityLost, DirectoryReplaced, PowerLoss, environment, vars
<1> QED BY <1>1, <1>2 DEF Next, Terminated

LEMMA PlanCosts ==
  ASSUME TypeInv
  PROVE  /\ \A i \in 1..Planned : worst[i] \in Nat
         /\ \A m \in 0..Planned : SumTo(worst, m) \in Nat
<1>1. \A i \in 1..Planned : worst[i] \in Nat
  BY RunnerAssumption DEF TypeInv, TypeOK, Attempt
<1>2. ASSUME NEW m \in 0..Planned PROVE SumTo(worst, m) \in Nat
  <2>1. Planned \in Nat
    BY RunnerAssumption
  <2> QED BY <1>1, <2>1, SumType
<1> QED BY <1>1, <1>2

\* The guard of the first attempt adds up the whole plan, and nothing was sent before.
LEMMA GuardCoversPlan ==
  ASSUME IndInv, SpendInv, NEW p \in Proc, BeginAttempt(p)
  PROVE  Affordable
<1>1. pc[p] = "loop" /\ requests[p] = Len(receipts[p]) /\ Len(receipts[p]) \in Nat
  BY DEF BeginAttempt, Idle, IndInv, CountInv, InStep, TypeInv, TypeOK
<1>2. CASE Len(receipts[p]) = 0
  <2>1. Index(p) - 1 = 0
    BY <1>2 DEF Index
  <2>2. Spent(p) = 0 /\ SumTo(worst, Index(p) - 1) = 0
    BY <1>2, <2>1, SumGrows DEF Spent
  <2>3. SumTo(worst, Planned) \in Nat
    BY PlanCosts, RunnerAssumption DEF IndInv
  <2>4. ~(Spent(p) + (SumTo(worst, Planned) - SumTo(worst, Index(p) - 1)) > Ceiling)
    BY DEF BeginAttempt, CostGuard, Remaining
  <2> QED BY <2>2, <2>3, <2>4, RunnerAssumption DEF Affordable
<1>3. CASE Len(receipts[p]) # 0
  <2>1. Len(wire) = requests[p]
    BY <1>1, <1>3 DEF IndInv, WireInv, Ended
  <2>2. wire # << >>
    BY <1>1, <1>3, <2>1
  <2> QED BY <2>2 DEF SpendInv
<1> QED BY <1>1, <1>2, <1>3

\* Only BeginAttempt enters the part of run_next before the request.
LEMMA EntersByGuard ==
  ASSUME TypeInv, NEW p \in Proc, Start(p) \/ Step(p) \/ Crash(p), ~BeginAttempt(p),
         pc'[p] \in BeforeSend
  PROVE  pc[p] \in BeforeSend
<1> USE DEF TypeInv, TypeOK, Goto, memory, BeforeSend, GatePhase, Ended
<1>1. ~Start(p) /\ ~Crash(p) /\ ~Send(p)
  BY DEF Start, Crash, Send
<1>2. ~RunLoop(p)
  BY DEF RunLoop, FillBlocked, PlanFinished, Archive, ArchiveFails
<1>3. CASE BeforeClaim(p)
  BY <1>3 DEF BeforeClaim, CostStop, RevalidateBeforeClaim, StorageGateBeforeClaim,
     GateBeforeClaimRaises
<1>4. CASE DurableWrite(p)
  BY <1>4 DEF DurableWrite, CreateFile, WriteFile, FlushFile, SyncDirectory
<1>5. CASE Claiming(p)
  BY <1>5 DEF Claiming, BindClaim, ClaimCommitted, ClaimRaises
<1>6. CASE Gate(p)
  BY <1>6 DEF Gate, VerifyClaim, RevalidateRunner, StorageGate, RevalidateTransport,
     VerifyClaimAgain, GateStep, GateRaises
<1>7. ~Answering(p)
  BY DEF Answering, ReceiveAnswer, ReceiveSecret, EvidenceWritten, EvidenceFails,
     StopOnTokens, ReceiptScored, ReceiptLocalFailure
<1> QED BY <1>1, <1>2, <1>3, <1>4, <1>5, <1>6, <1>7 DEF Step

LEMMA StepSpend == IndInv /\ SpendInv /\ [Next]_vars => SpendInv'
<1> SUFFICES ASSUME IndInv, SpendInv, [Next]_vars PROVE SpendInv'
  OBVIOUS
<1>1. Affordable' = Affordable
  BY WorstFixed DEF Affordable
<1>2. CASE Affordable
  BY <1>1, <1>2 DEF SpendInv
<1>3. CASE ~Affordable
  <2>1. wire = << >> /\ \A p \in Proc : pc[p] \notin BeforeSend
    BY <1>3 DEF SpendInv
  <2>2. \A p \in Proc : ~BeginAttempt(p) /\ ~Send(p)
    BY <1>3, <2>1, GuardCoversPlan DEF Send, BeforeSend, GatePhase
  <2>3. wire' = wire
    BY <2>2, WireUnchanged DEF IndInv
  <2>4. ASSUME NEW q \in Proc PROVE pc'[q] \notin BeforeSend
    <3>1. ASSUME NEW p \in Proc, Start(p) \/ Step(p) \/ Crash(p) PROVE pc'[q] \notin BeforeSend
      <4>1. CASE q = p
        BY <2>1, <2>2, <3>1, <4>1, EntersByGuard DEF IndInv
      <4>2. CASE q # p
        BY <2>1, <3>1, <4>2, OthersUnchanged DEF SameProcess, IndInv
      <4> QED BY <4>1, <4>2
    <3>2. CASE PowerLoss
      BY <3>2, PowerLossEnds DEF IndInv, BeforeSend, GatePhase, Ended
    <3>3. CASE AuthorityLost \/ (\E k \in Kind : DirectoryReplaced(k)) \/ UNCHANGED vars
      BY <2>1, <3>3 DEF AuthorityLost, DirectoryReplaced, vars
    <3> QED BY <3>1, <3>2, <3>3 DEF Next, Environment, Terminated
  <2> QED BY <2>1, <2>3, <2>4 DEF SpendInv
<1> QED BY <1>2, <1>3

\* What was sent is a prefix of the plan.
LEMMA PrefixIsPaid ==
  ASSUME IndInv, SpendInv
  PROVE  SpendWithinCeiling
<1> DEFINE f == [j \in DOMAIN wire |-> worst[wire[j].attempt]]
<1>1. Len(wire) \in Nat /\ DOMAIN wire = 1..Len(wire)
  BY WireType DEF IndInv
<1>2. \A j \in 1..Len(wire) : f[j] = worst[j]
  BY <1>1 DEF IndInv, WireInv, WireFollowsPlan
<1>3. SumTo(f, Len(wire)) = SumTo(worst, Len(wire))
  <2> HIDE DEF f
  <2> QED BY <1>1, <1>2, SumSame
<1>4. CASE Len(wire) = 0
  <2>1. SumTo(worst, Len(wire)) = 0
    BY <1>4, SumGrows
  <2> QED BY <1>3, <2>1, RunnerAssumption DEF SpendWithinCeiling
<1>5. CASE Len(wire) # 0
  <2>1. wire # << >>
    BY <1>5
  <2>2. Len(wire) \in 0..Planned
    <3>1. Len(wire) \in DOMAIN wire
      BY <1>1, <1>5
    <3>2. wire[Len(wire)] \in Message
      BY <1>1, <3>1 DEF IndInv, TypeInv, TypeOK
    <3>3. wire[Len(wire)].attempt = Len(wire)
      BY <3>1 DEF IndInv, WireInv, WireFollowsPlan
    <3> QED BY <1>1, <3>2, <3>3, RunnerAssumption DEF Message, Attempt
  <2>3. SumTo(worst, Len(wire)) <= SumTo(worst, Planned)
    BY <2>2, PlanCosts, SumMonotone, RunnerAssumption DEF IndInv
  <2>4. SumTo(worst, Len(wire)) \in Nat /\ SumTo(worst, Planned) \in Nat
    BY <2>2, PlanCosts, RunnerAssumption DEF IndInv
  <2>5. SumTo(worst, Planned) <= Ceiling
    BY <2>1 DEF SpendInv, Affordable
  <2>6. SumTo(f, Len(wire)) <= Ceiling
    <3> HIDE DEF f
    <3> QED BY <1>3, <2>3, <2>4, <2>5, RunnerAssumption
  <2> QED BY <2>6 DEF SpendWithinCeiling
<1> QED BY <1>4, <1>5

----------------------------------------------------------------------------
(* Stopping *)

LEMMA FailuresAreFinite ==
  ASSUME NEW rs \in Seq(Receipt), NEW n \in 0..Len(rs)
  PROVE  IsFiniteSet(LocalFailures(rs, n)) /\ Cardinality(LocalFailures(rs, n)) \in Nat
<1>1. IsFiniteSet(1..n)
  BY FS_Interval
<1>2. LocalFailures(rs, n) \subseteq 1..n
  BY DEF LocalFailures
<1>3. IsFiniteSet(LocalFailures(rs, n))
  BY <1>1, <1>2, FS_Subset
<1> QED BY <1>3, FS_CardinalityType

\* Whether a receipt stops the run depends on it and on those before it.
LEMMA StopsByPrefix ==
  ASSUME NEW rs, NEW rt, NEW n \in Nat, \A j \in 1..n : rt[j] = rs[j], NEW i \in 1..n
  PROVE  /\ LocalFailures(rt, i) = LocalFailures(rs, i)
         /\ StopsTheRun(rt, i) <=> StopsTheRun(rs, i)
<1>1. LocalFailures(rt, i) = LocalFailures(rs, i)
  BY DEF LocalFailures
<1> QED BY <1>1 DEF StopsTheRun

\* Appending one receipt.
LEMMA FailuresAppended ==
  ASSUME NEW rs \in Seq(Receipt), NEW r \in Receipt, NEW rt, rt = Append(rs, r)
  PROVE  /\ Cardinality(LocalFailures(rt, Len(rt))) =
               Cardinality(LocalFailures(rs, Len(rs)))
                   + (IF r.reason = "PROVIDER_LOCAL" THEN 1 ELSE 0)
         /\ Cardinality(LocalFailures(rs, Len(rs))) \in Nat
<1> DEFINE n == Len(rs)
<1>1. n \in Nat /\ Len(rt) = n + 1 /\ rt[n + 1] = r /\ \A j \in 1..n : rt[j] = rs[j]
  OBVIOUS
<1>2. IsFiniteSet(LocalFailures(rs, n)) /\ Cardinality(LocalFailures(rs, n)) \in Nat
  BY <1>1, FailuresAreFinite
<1>3. n + 1 \notin LocalFailures(rs, n)
  BY <1>1 DEF LocalFailures
<1>4. CASE r.reason = "PROVIDER_LOCAL"
  <2>1. LocalFailures(rt, n + 1) = LocalFailures(rs, n) \cup {n + 1}
    BY <1>1, <1>4 DEF LocalFailures
  <2>2. Cardinality(LocalFailures(rs, n) \cup {n + 1}) = Cardinality(LocalFailures(rs, n)) + 1
    BY <1>2, <1>3, FS_AddElement
  <2> QED BY <1>1, <1>2, <1>4, <2>1, <2>2
<1>5. CASE r.reason # "PROVIDER_LOCAL"
  <2>1. LocalFailures(rt, n + 1) = LocalFailures(rs, n)
    BY <1>1, <1>5 DEF LocalFailures
  <2> QED BY <1>1, <1>2, <1>5, <2>1
<1> QED BY <1>4, <1>5

\* An exception of the gate, a stop or a receipt that does not stop.
LEMMA StopAppended ==
  ASSUME TypeInv, NEW p \in Proc, StopInv(p), pc[p] \in GatePhase \cup AfterSend,
         NEW r \in Receipt, AppendReceipt(p, r), r.terminal # "BLOCKED",
         localErrors'[p] =
            localErrors[p] + (IF r.reason = "PROVIDER_LOCAL" THEN 1 ELSE 0),
         \/ pc'[p] \in Ended
         \/ /\ pc'[p] = "loop" /\ stop'[p] # "none"
            /\ \/ r.terminal = "ERROR" /\ r.reason \in StopReason
               \/ localErrors'[p] >= ErrorLimit
         \/ /\ pc'[p] = "loop" /\ stop'[p] = "none"
            /\ r.reason \notin StopReason /\ localErrors'[p] < ErrorLimit
  PROVE  StopInv(p)'
<1> DEFINE rs == receipts[p]
           rt == receipts'[p]
           n == Len(rs)
<1>1. rs \in Seq(Receipt) /\ n \in Nat
  BY DEF TypeInv, TypeOK
<1>2. rt = Append(rs, r)
  BY Appended DEF TypeInv, TypeOK
<1>3. /\ Len(rt) = n + 1 /\ DOMAIN rs = 1..n /\ DOMAIN rt = 1..(n + 1)
      /\ rt[n + 1] = r /\ \A j \in 1..n : rt[j] = rs[j]
  BY <1>1, <1>2
<1>4. pc[p] \notin Ended /\ stop[p] = "none"
  BY DEF TypeInv, UnderWay, BeforeSend, AfterSend, GatePhase, Ended
<1>5. Unstopped(rs) /\ localErrors[p] < ErrorLimit /\ Counted(p) /\ StopsOnce(rs)
  BY <1>4 DEF StopInv
<1>6. localErrors'[p] = Cardinality(LocalFailures(rt, n + 1)) /\ localErrors'[p] \in Nat
  <2>1. /\ Cardinality(LocalFailures(rt, Len(rt))) =
              Cardinality(LocalFailures(rs, n))
                  + (IF r.reason = "PROVIDER_LOCAL" THEN 1 ELSE 0)
        /\ Cardinality(LocalFailures(rs, n)) \in Nat
    <3> HIDE DEF rs, rt
    <3> QED BY <1>1, <1>2, FailuresAppended
  <2>2. localErrors[p] = Cardinality(LocalFailures(rs, n)) /\ Len(rt) = n + 1
    BY <1>3, <1>5 DEF Counted
  <2> HIDE DEF rs, rt, n
  <2> QED BY <2>1, <2>2
<1>7. Counted(p)'
  BY <1>3, <1>6 DEF Counted
<1>8. \A j \in 1..n : ~Blocked(rt, j) /\ ~StopsTheRun(rt, j)
  <2>1. ASSUME NEW j \in 1..n PROVE ~Blocked(rt, j) /\ ~StopsTheRun(rt, j)
    <3>1. ~Blocked(rs, j) /\ ~StopsTheRun(rs, j)
      BY <1>3, <1>5 DEF Unstopped
    <3>2. StopsTheRun(rt, j) <=> StopsTheRun(rs, j)
      <4> HIDE DEF rs, rt, n
      <4> QED BY <1>1, <1>3, StopsByPrefix
    <3> QED BY <1>3, <3>1, <3>2 DEF Blocked
  <2> QED BY <2>1
<1>9. ~Blocked(rt, n + 1)
  BY <1>3 DEF Blocked
<1>10. StopsOnce(rt)
  <2> SUFFICES ASSUME NEW i \in 1..(n + 1)
               PROVE  ~Blocked(rt, i) /\ \A j \in 1..(i - 1) : ~StopsTheRun(rt, j)
    BY <1>3 DEF StopsOnce
  <2> QED BY <1>1, <1>8, <1>9
<1>11. StopsTheRun(rt, n + 1) <=>
          (r.terminal = "ERROR" /\ r.reason \in StopReason) \/ localErrors'[p] >= ErrorLimit
  BY <1>3, <1>6 DEF StopsTheRun
<1>12. CASE pc'[p] \in Ended
  BY <1>7, <1>10, <1>12 DEF StopInv, Ended
<1>13. CASE pc'[p] = "loop" /\ stop'[p] # "none"
  <2>1. StopsTheRun(rt, Len(rt)) /\ rt # << >>
    BY <1>3, <1>11, <1>13 DEF Ended
  <2>2. \A i \in DOMAIN rt : ~Blocked(rt, i)
    BY <1>1, <1>3, <1>8, <1>9
  <2> QED BY <1>7, <1>10, <1>13, <2>1, <2>2 DEF StopInv, JustStopped, Ended
<1>14. CASE pc'[p] = "loop" /\ stop'[p] = "none"
  <2>1. localErrors'[p] < ErrorLimit /\ r.reason \notin StopReason
    BY <1>14 DEF Ended
  <2>2. ~StopsTheRun(rt, n + 1)
    <3> HIDE DEF rt, n
    <3> QED BY <1>6, <1>11, <2>1, RunnerAssumption
  <2>3. \A i \in DOMAIN rt : ~Blocked(rt, i) /\ ~StopsTheRun(rt, i)
    BY <1>1, <1>3, <1>8, <1>9, <2>2
  <2> QED BY <1>7, <1>10, <1>14, <2>1, <2>3 DEF StopInv, Unstopped, Ended
<1> QED BY <1>12, <1>13, <1>14

\* run_all fills the plan behind the receipt that stopped it.
LEMMA StopFilled ==
  ASSUME TypeInv, NEW p \in Proc, StopInv(p), FillBlocked(p)
  PROVE  StopInv(p)'
<1> DEFINE rs == receipts[p]
           rt == receipts'[p]
           n == Len(rs)
<1>1. rs \in Seq(Receipt) /\ n \in Nat /\ n <= Planned /\ Planned \in Nat /\ DOMAIN rs = 1..n
  BY RunnerAssumption DEF TypeInv, TypeOK, UnderWay
<1>2. /\ rt \in Seq(Receipt) /\ Len(rt) = Planned
      /\ \A i \in Attempt : rt[i] =
             IF i <= n THEN rs[i] ELSE NewReceipt("BLOCKED", stop[p], FALSE, 0)
  BY <1>1, Filled DEF TypeInv, TypeOK
<1>3. DOMAIN rt = 1..Planned /\ \A j \in 1..n : rt[j] = rs[j]
  <2>1. DOMAIN rt = 1..Planned
    BY <1>1, <1>2
  <2>2. ASSUME NEW j \in 1..n PROVE rt[j] = rs[j]
    <3>1. j \in Attempt /\ j <= n
      BY <1>1 DEF Attempt
    <3> QED BY <1>2, <3>1
  <2> QED BY <2>1, <2>2
<1>4. ASSUME NEW i \in 1..Planned, i > n
      PROVE  Blocked(rt, i) /\ rt[i].reason # "PROVIDER_LOCAL"
  <2>1. rt[i] = NewReceipt("BLOCKED", stop[p], FALSE, 0)
    <3>1. i \in Attempt /\ ~(i <= n)
      BY <1>1, <1>4 DEF Attempt
    <3> QED BY <1>2, <3>1
  <2>2. stop[p] # "PROVIDER_LOCAL"
    BY DEF TypeInv, TypeOK, StopReason
  <2> QED BY <2>1, <2>2 DEF NewReceipt, Blocked
<1>5. pc[p] = "loop" /\ stop[p] # "none" /\ localErrors' = localErrors /\ stop' = stop
      /\ pc'[p] = "summary"
  BY DEF FillBlocked, Goto, TypeInv, TypeOK
<1>6. JustStopped(rs) /\ StopsOnce(rs) /\ Counted(p)
  BY <1>5 DEF StopInv
<1>7. n \in 1..n /\ StopsTheRun(rs, n)
  BY <1>1, <1>6 DEF JustStopped
<1>8. \A j \in 1..n : (StopsTheRun(rt, j) <=> StopsTheRun(rs, j))
                      /\ LocalFailures(rt, j) = LocalFailures(rs, j)
  <2> HIDE DEF rs, rt, n
  <2> QED BY <1>1, <1>3, StopsByPrefix
<1>9. Counted(p)'
  <2>1. LocalFailures(rt, Planned) = LocalFailures(rt, n)
    BY <1>1, <1>4 DEF LocalFailures
  <2>2. LocalFailures(rt, Len(rt)) = LocalFailures(rs, n)
    BY <1>2, <1>7, <1>8, <2>1
  <2> QED BY <1>5, <1>6, <2>2 DEF Counted
<1>10. StopsOnce(rt)
  <2>1. ASSUME NEW i \in 1..Planned
        PROVE  Blocked(rt, i) <=> \E j \in 1..(i - 1) : StopsTheRun(rt, j)
    <3>1. CASE i <= n
      <4>1. i \in DOMAIN rs /\ rt[i] = rs[i]
        BY <1>1, <1>3, <3>1
      <4>2. Blocked(rs, i) <=> \E j \in 1..(i - 1) : StopsTheRun(rs, j)
        BY <1>6, <4>1 DEF StopsOnce
      <4>3. \A j \in 1..(i - 1) : StopsTheRun(rt, j) <=> StopsTheRun(rs, j)
        BY <1>1, <1>8, <3>1
      <4> QED BY <4>1, <4>2, <4>3 DEF Blocked
    <3>2. CASE i > n
      <4>1. n \in 1..(i - 1) /\ StopsTheRun(rt, n)
        BY <1>1, <1>7, <1>8, <3>2
      <4>2. Blocked(rt, i)
        BY <1>4, <3>2
      <4> QED BY <4>1, <4>2
    <3> QED BY <1>1, <3>1, <3>2
  <2> QED BY <1>3, <2>1 DEF StopsOnce
<1> QED BY <1>5, <1>9, <1>10 DEF StopInv

\* A process that only moves on, or ends.
LEMMA StopMoved ==
  ASSUME NEW p \in Proc, StopInv(p),
         receipts'[p] = receipts[p], localErrors'[p] = localErrors[p],
         \/ pc'[p] \in Ended
         \/ stop'[p] = stop[p] /\ pc'[p] = pc[p]
         \/ stop'[p] = stop[p] /\ pc[p] \notin Ended /\ pc'[p] # "loop"
  PROVE  StopInv(p)'
<1>1. Counted(p)' /\ StopsOnce(receipts[p])'
  BY DEF StopInv, Counted, StopsOnce
<1> QED BY <1>1 DEF StopInv, Ended, Unstopped, JustStopped

LEMMA StopReset ==
  ASSUME NEW p \in Proc, receipts'[p] = << >>, localErrors'[p] = 0, stop'[p] = "none"
  PROVE  StopInv(p)'
<1>1. LocalFailures(<< >>, 0) = {} /\ Cardinality({}) = 0
  BY FS_EmptySet DEF LocalFailures
<1>2. Counted(p)'
  BY <1>1 DEF Counted
<1> QED BY <1>2, RunnerAssumption DEF StopInv, StopsOnce, Unstopped

\* The steps that append no receipt and reset nothing only move on, or end.
LEMMA StopStays ==
  ASSUME TypeInv, NEW p \in Proc, StopInv(p),
         \/ PlanFinished(p) \/ Archive(p) \/ ArchiveFails(p) \/ BeforeClaim(p)
         \/ DurableWrite(p) \/ Claiming(p) \/ (Gate(p) /\ ~GateRaises(p)) \/ Send(p)
         \/ ReceiveAnswer(p) \/ EvidenceWritten(p)
  PROVE  StopInv(p)'
<1> USE DEF memory, Goto, TypeInv, TypeOK, Ended
<1>1. CASE PlanFinished(p) \/ Archive(p) \/ ArchiveFails(p)
  BY <1>1, StopMoved DEF PlanFinished, Archive, ArchiveFails
<1>2. CASE BeforeClaim(p)
  <2>1. receipts'[p] = receipts[p] /\ localErrors'[p] = localErrors[p]
    BY <1>2 DEF BeforeClaim, BeginAttempt, CostStop, RevalidateBeforeClaim,
       StorageGateBeforeClaim, GateBeforeClaimRaises
  <2>2. pc'[p] \in Ended \/ (stop'[p] = stop[p] /\ pc[p] \notin Ended /\ pc'[p] # "loop")
    BY <1>2 DEF BeforeClaim, BeginAttempt, Idle, CostStop, RevalidateBeforeClaim,
       StorageGateBeforeClaim, GateBeforeClaimRaises
  <2> QED BY <2>1, <2>2, StopMoved
<1>3. CASE DurableWrite(p)
  BY <1>3, StopMoved DEF DurableWrite, CreateFile, WriteFile, FlushFile, SyncDirectory
<1>4. CASE Claiming(p)
  BY <1>4, StopMoved DEF Claiming, BindClaim, ClaimCommitted, ClaimRaises
<1>5. CASE Gate(p) /\ ~GateRaises(p)
  <2>1. UNCHANGED memory
    BY <1>5 DEF Gate, VerifyClaim, RevalidateRunner, StorageGate, RevalidateTransport,
       VerifyClaimAgain, GateStep
  <2>2. pc[p] \notin Ended /\ pc'[p] # "loop"
    BY <1>5 DEF Gate, VerifyClaim, RevalidateRunner, StorageGate, RevalidateTransport,
       VerifyClaimAgain, GateStep
  <2> QED BY <2>1, <2>2, StopMoved
<1>6. CASE Send(p)
  BY <1>6, StopMoved DEF Send
<1>7. CASE ReceiveAnswer(p) \/ EvidenceWritten(p)
  BY <1>7, StopMoved DEF ReceiveAnswer, EvidenceWritten
<1> QED BY <1>1, <1>2, <1>3, <1>4, <1>5, <1>6, <1>7

\* The steps that append a receipt.
LEMMA StopReceipted ==
  ASSUME TypeInv, NEW p \in Proc, StopInv(p),
         \/ GateRaises(p) \/ ReceiveSecret(p) \/ EvidenceFails(p) \/ StopOnTokens(p)
         \/ ReceiptScored(p) \/ ReceiptLocalFailure(p)
  PROVE  StopInv(p)'
<1> DEFINE Receipted(terminal, reason, evidence, cost) ==
        /\ AppendReceipt(p, NewReceipt(terminal, reason, evidence, cost))
        /\ pc[p] \in GatePhase \cup AfterSend
        /\ localErrors'[p] = localErrors[p] + (IF reason = "PROVIDER_LOCAL" THEN 1 ELSE 0)
        /\ \/ pc'[p] \in Ended
           \/ /\ pc'[p] = "loop" /\ stop'[p] # "none"
              /\ \/ terminal = "ERROR" /\ reason \in StopReason
                 \/ localErrors'[p] >= ErrorLimit
           \/ /\ pc'[p] = "loop" /\ stop'[p] = "none"
              /\ reason \notin StopReason /\ localErrors'[p] < ErrorLimit
<1>1. ASSUME NEW terminal \in {"SCORED", "ERROR"},
             NEW reason \in StopReason \cup {"SCORED", "PROVIDER_LOCAL"},
             NEW evidence \in BOOLEAN, NEW cost \in Nat,
             Receipted(terminal, reason, evidence, cost)
      PROVE  StopInv(p)'
  <2> DEFINE r == NewReceipt(terminal, reason, evidence, cost)
  <2>1. r \in Receipt /\ r.terminal = terminal /\ r.reason = reason
    BY DEF NewReceipt, Receipt
  <2>2. AppendReceipt(p, r)
    BY <1>1
  <2> HIDE DEF r
  <2> QED BY <1>1, <2>1, <2>2, StopAppended
<1>2. localErrors[p] \in Nat /\ ErrorLimit \in Nat
  BY RunnerAssumption DEF TypeInv, TypeOK
<1>3. pc[p] \in AfterSend => AttributableCost(p) \in Nat
  BY RunnerAssumption DEF AttributableCost, TypeInv, UnderWay, TypeOK, Index, Attempt,
     BeforeSend, AfterSend
<1> USE DEF Goto, TypeInv, TypeOK, AfterSend, Ended
<1>4. CASE GateRaises(p)
  <2>1. PICK reason \in {"LIVE_AUTHORIZATION_STOP", "LIVE_PRE_PROVIDER_STOP"} :
           AppendReceipt(p, NewReceipt("ERROR", reason, FALSE, 0))
    BY <1>4 DEF GateRaises
  <2>2. reason \in StopReason /\ reason # "PROVIDER_LOCAL"
    BY DEF StopReason
  <2>3. pc[p] \in GatePhase /\ pc'[p] = "raised" /\ localErrors'[p] = localErrors[p]
    BY <1>4 DEF GateRaises
  <2>4. pc[p] \in GatePhase \cup AfterSend /\ pc'[p] \in Ended
    BY <2>3
  <2>5. localErrors'[p] = localErrors[p] + (IF reason = "PROVIDER_LOCAL" THEN 1 ELSE 0)
    BY <1>2, <2>2, <2>3
  <2>6. Receipted("ERROR", reason, FALSE, 0)
    BY <2>1, <2>4, <2>5
  <2> HIDE DEF Receipted
  <2> QED BY <1>1, <2>2, <2>6
<1>5. CASE ReceiveSecret(p)
  <2>1. AppendReceipt(p, NewReceipt("ERROR", "SECRET_LEAK_SUSPECTED", FALSE, 0))
    BY <1>5 DEF ReceiveSecret
  <2>2. pc[p] \in AfterSend /\ pc'[p] = "loop" /\ stop'[p] = "SECRET_LEAK_SUSPECTED"
    BY <1>5 DEF ReceiveSecret
  <2>3. localErrors'[p] = localErrors[p] + (IF "SECRET_LEAK_SUSPECTED" = "PROVIDER_LOCAL" THEN 1 ELSE 0)
    BY <1>2, <1>5 DEF ReceiveSecret
  <2>4. "SECRET_LEAK_SUSPECTED" \in StopReason
    BY DEF StopReason
  <2>5. Receipted("ERROR", "SECRET_LEAK_SUSPECTED", FALSE, 0)
    BY <2>1, <2>2, <2>3, <2>4
  <2> HIDE DEF Receipted
  <2> QED BY <1>1, <2>4, <2>5
<1>6. CASE EvidenceFails(p)
  <2>1. AppendReceipt(p, NewReceipt("ERROR", "EVIDENCE_WRITE_ERROR", FALSE, AttributableCost(p)))
    BY <1>6 DEF EvidenceFails
  <2>2. pc[p] \in AfterSend /\ pc'[p] = "loop" /\ stop'[p] = "EVIDENCE_WRITE_ERROR"
    BY <1>6 DEF EvidenceFails
  <2>3. localErrors'[p] = localErrors[p] + (IF "EVIDENCE_WRITE_ERROR" = "PROVIDER_LOCAL" THEN 1 ELSE 0)
    BY <1>2, <1>6 DEF EvidenceFails
  <2>4. "EVIDENCE_WRITE_ERROR" \in StopReason
    BY DEF StopReason
  <2>5. Receipted("ERROR", "EVIDENCE_WRITE_ERROR", FALSE, AttributableCost(p))
    BY <2>1, <2>2, <2>3, <2>4
  <2>6. AttributableCost(p) \in Nat
    BY <1>3, <2>2
  <2> HIDE DEF Receipted
  <2> QED BY <1>1, <2>4, <2>5, <2>6
<1>7. CASE StopOnTokens(p)
  <2>1. AppendReceipt(p, NewReceipt("ERROR", "COST_CEILING_GUARD", TRUE, 0))
    BY <1>7 DEF StopOnTokens
  <2>2. pc[p] \in AfterSend /\ pc'[p] = "loop" /\ stop'[p] = "COST_CEILING_GUARD"
    BY <1>7 DEF StopOnTokens
  <2>3. localErrors'[p] = localErrors[p] + (IF "COST_CEILING_GUARD" = "PROVIDER_LOCAL" THEN 1 ELSE 0)
    BY <1>2, <1>7 DEF StopOnTokens
  <2>4. "COST_CEILING_GUARD" \in StopReason
    BY DEF StopReason
  <2>5. Receipted("ERROR", "COST_CEILING_GUARD", TRUE, 0)
    BY <2>1, <2>2, <2>3, <2>4
  <2> HIDE DEF Receipted
  <2> QED BY <1>1, <2>4, <2>5
<1>8. pc[p] = "score" => stop[p] = "none" /\ localErrors[p] < ErrorLimit
  BY DEF StopInv, UnderWay
<1>9. CASE ReceiptScored(p)
  <2>1. /\ AppendReceipt(p, NewReceipt("SCORED", "SCORED", TRUE, AttributableCost(p)))
        /\ pc[p] = "score" /\ pc'[p] = "loop"
        /\ localErrors'[p] = localErrors[p] /\ stop'[p] = stop[p]
    BY <1>9 DEF ReceiptScored
  <2>2. localErrors'[p] = localErrors[p] + (IF "SCORED" = "PROVIDER_LOCAL" THEN 1 ELSE 0)
    BY <1>2, <2>1
  <2>3. stop'[p] = "none" /\ "SCORED" \notin StopReason /\ localErrors'[p] < ErrorLimit
    BY <1>8, <2>1 DEF StopReason
  <2>4. Receipted("SCORED", "SCORED", TRUE, AttributableCost(p))
    BY <2>1, <2>2, <2>3
  <2> HIDE DEF Receipted
  <2> QED BY <1>1, <1>3, <2>1, <2>4
<1>10. CASE ReceiptLocalFailure(p)
  <2>1. /\ AppendReceipt(p, NewReceipt("ERROR", "PROVIDER_LOCAL", TRUE, AttributableCost(p)))
        /\ pc[p] = "score" /\ pc'[p] = "loop"
        /\ localErrors'[p] = localErrors[p] + 1
        /\ stop'[p] = IF localErrors[p] + 1 >= ErrorLimit
                      THEN "SECOND_PROVIDER_LOCAL_ERROR" ELSE stop[p]
    BY <1>10 DEF ReceiptLocalFailure, ErrorLimitReached
  <2>2. localErrors'[p] = localErrors[p] + (IF "PROVIDER_LOCAL" = "PROVIDER_LOCAL" THEN 1 ELSE 0)
    BY <2>1
  <2>3. CASE localErrors[p] + 1 >= ErrorLimit
    <3>1. stop'[p] # "none" /\ localErrors'[p] >= ErrorLimit
      BY <2>1, <2>3
    <3>2. Receipted("ERROR", "PROVIDER_LOCAL", TRUE, AttributableCost(p))
      BY <2>1, <2>2, <3>1
    <3> HIDE DEF Receipted
    <3> QED BY <1>1, <1>3, <2>1, <3>2
  <2>4. CASE ~(localErrors[p] + 1 >= ErrorLimit)
    <3>1. stop'[p] = "none" /\ localErrors'[p] < ErrorLimit /\ "PROVIDER_LOCAL" \notin StopReason
      BY <1>2, <1>8, <2>1, <2>4 DEF StopReason
    <3>2. Receipted("ERROR", "PROVIDER_LOCAL", TRUE, AttributableCost(p))
      BY <2>1, <2>2, <3>1
    <3> HIDE DEF Receipted
    <3> QED BY <1>1, <1>3, <2>1, <3>2
  <2> QED BY <2>3, <2>4
<1> QED BY <1>4, <1>5, <1>6, <1>7, <1>9, <1>10

LEMMA StepStop ==
  IndInv /\ (\A p \in Proc : StopInv(p)) /\ [Next]_vars => (\A p \in Proc : StopInv(p))'
<1> SUFFICES ASSUME IndInv, \A p \in Proc : StopInv(p), [Next]_vars, NEW q \in Proc
             PROVE  StopInv(q)'
  OBVIOUS
<1> USE DEF IndInv
<1>1. ASSUME NEW p \in Proc, Start(p) \/ Step(p) \/ Crash(p) PROVE StopInv(q)'
  <2>1. CASE q # p
    <3>1. SameProcess(q)
      BY <1>1, <2>1, OthersUnchanged
    <3> QED BY <3>1, StopMoved DEF SameProcess
  <2>2. CASE q = p /\ (Start(p) \/ Crash(p))
    BY <2>2, StopReset DEF Start, Crash, FreshMemory, TypeInv, TypeOK
  <2>3. CASE q = p /\ Step(p)
    BY <2>3, StopFilled, StopStays, StopReceipted DEF Step, RunLoop, Gate, Answering
  <2> QED BY <1>1, <2>1, <2>2, <2>3
<1>2. CASE PowerLoss
  BY <1>2, StopReset DEF PowerLoss
<1>3. CASE AuthorityLost \/ (\E k \in Kind : DirectoryReplaced(k)) \/ UNCHANGED vars
  BY <1>3, StopMoved DEF AuthorityLost, DirectoryReplaced, vars, memory
<1> QED BY <1>1, <1>2, <1>3 DEF Next, Environment, Terminated

----------------------------------------------------------------------------
(* The summary *)

LEMMA SentGrows ==
  ASSUME TypeInv, NEW m \in Message, wire' = Append(wire, m), NEW n
  PROVE  /\ m.run = n => Cardinality(SentBy(n)') = Cardinality(SentBy(n)) + 1
         /\ m.run # n => SentBy(n)' = SentBy(n)
<1>1. wire \in Seq(Message) /\ Len(wire) \in Nat /\ DOMAIN wire = 1..Len(wire)
  BY WireType DEF TypeInv, TypeOK
<1>2. /\ DOMAIN wire' = 1..(Len(wire) + 1) /\ wire'[Len(wire) + 1] = m
      /\ \A j \in 1..Len(wire) : wire'[j] = wire[j]
  BY <1>1
<1>3. IsFiniteSet(SentBy(n)) /\ Len(wire) + 1 \notin SentBy(n)
  <2>1. SentBy(n) \in SUBSET (1..Len(wire)) /\ IsFiniteSet(1..Len(wire))
    BY <1>1, FS_Interval DEF SentBy
  <2> QED BY <1>1, <2>1, FS_Subset
<1>4. CASE m.run = n
  <2>1. SentBy(n)' = SentBy(n) \cup {Len(wire) + 1}
    BY <1>1, <1>2, <1>4 DEF SentBy
  <2> QED BY <1>3, <1>4, <2>1, FS_AddElement
<1>5. CASE m.run # n
  BY <1>1, <1>2, <1>5 DEF SentBy
<1> QED BY <1>4, <1>5

\* A summary that is about to be archived.
LEMMA SummaryBegins ==
  ASSUME IndInv, NEW p \in Proc, StopInv(p), SummaryInv(p), FillBlocked(p) \/ PlanFinished(p)
  PROVE  SummaryInv(p)'
<1>1. /\ pc[p] = "loop" /\ pc'[p] = "summary" /\ requests'[p] = requests[p]
      /\ run'[p] = run[p] /\ wire' = wire
  BY DEF FillBlocked, PlanFinished, Goto, memory, history, IndInv, TypeInv, TypeOK
<1>2. requests'[p] = Cardinality(SentBy(run[p]))'
  BY <1>1 DEF SummaryInv, SentBy, Ended
<1>3. /\ requests[p] = Len(receipts[p]) /\ Len(receipts[p]) \in Nat
      /\ Len(receipts[p]) <= Planned /\ Planned \in Nat
      /\ DOMAIN receipts[p] = 1..Len(receipts[p])
  BY <1>1, RunnerAssumption DEF IndInv, CountInv, InStep, TypeInv, UnderWay, TypeOK
<1>4. CASE FillBlocked(p)
  <2>1. Len(receipts'[p]) = Planned
    BY <1>3, <1>4, Filled DEF IndInv, TypeInv
  <2>2. ASSUME NEW i \in Attempt PROVE ~Blocked(receipts'[p], i) <=> i <= requests[p]
    <3>1. receipts'[p][i] = IF i <= Len(receipts[p]) THEN receipts[p][i]
                            ELSE NewReceipt("BLOCKED", stop[p], FALSE, 0)
      BY <1>3, <1>4, Filled DEF IndInv, TypeInv
    <3>2. JustStopped(receipts[p])
      BY <1>1, <1>4 DEF StopInv, FillBlocked
    <3>3. CASE i <= Len(receipts[p])
      <4>1. i \in DOMAIN receipts[p]
        BY <1>3, <3>3 DEF Attempt
      <4> QED BY <1>3, <3>1, <3>2, <3>3, <4>1 DEF Blocked, JustStopped
    <3>4. CASE ~(i <= Len(receipts[p]))
      BY <1>3, <3>1, <3>4 DEF Blocked, NewReceipt
    <3> QED BY <3>3, <3>4
  <2> QED BY <1>1, <1>2, <2>1, <2>2 DEF SummaryInv
<1>5. CASE PlanFinished(p)
  <2>1. receipts' = receipts /\ Len(receipts[p]) = Planned /\ stop[p] = "none"
    BY <1>3, <1>5 DEF PlanFinished, memory
  <2>2. ASSUME NEW i \in Attempt PROVE ~Blocked(receipts[p], i) /\ i <= requests[p]
    <3>1. i \in DOMAIN receipts[p] /\ i <= requests[p]
      BY <1>3, <2>1 DEF Attempt
    <3> QED BY <1>1, <2>1, <3>1 DEF StopInv, Unstopped, Ended
  <2> QED BY <1>1, <1>2, <2>1, <2>2 DEF SummaryInv, Blocked
<1> QED BY <1>4, <1>5

\* A process that only moves on, ends, or archives the summary it has.
LEMMA SummaryMoved ==
  ASSUME NEW p \in Proc, SummaryInv(p),
         \/ pc'[p] \in {"down", "raised"}
         \/ /\ wire' = wire /\ requests'[p] = requests[p] /\ run'[p] = run[p]
            /\ \/ pc[p] \notin Ended /\ pc'[p] \notin Ended \cup {"summary"}
               \/ pc'[p] = pc[p] /\ receipts'[p] = receipts[p]
               \/ pc[p] = "summary" /\ pc'[p] = "done" /\ receipts'[p] = receipts[p]
         \/ receipts'[p] = << >> /\ pc'[p] \in Ended
  PROVE  SummaryInv(p)'
  BY DEF SummaryInv, SentBy, Ended, Blocked

LEMMA SummaryStays ==
  ASSUME TypeInv, NEW p \in Proc, SummaryInv(p),
         BeforeClaim(p) \/ DurableWrite(p) \/ Claiming(p) \/ Gate(p) \/ Answering(p)
  PROVE  SummaryInv(p)'
<1> USE DEF memory, history, Goto, Ended, TypeInv, TypeOK
<1>1. wire' = wire /\ requests'[p] = requests[p] /\ run'[p] = run[p]
  <2>1. CASE BeforeClaim(p)
    BY <2>1 DEF BeforeClaim, BeginAttempt, CostStop, Idle, RevalidateBeforeClaim,
       StorageGateBeforeClaim, GateBeforeClaimRaises
  <2>2. CASE DurableWrite(p)
    BY <2>2 DEF DurableWrite, CreateFile, WriteFile, FlushFile, SyncDirectory
  <2>3. CASE Claiming(p)
    BY <2>3 DEF Claiming, BindClaim, ClaimCommitted, ClaimRaises
  <2>4. CASE Gate(p)
    BY <2>4 DEF Gate, VerifyClaim, RevalidateRunner, StorageGate, RevalidateTransport,
       VerifyClaimAgain, GateStep, GateRaises
  <2>5. CASE Answering(p)
    BY <2>5 DEF Answering, ReceiveAnswer, ReceiveSecret, EvidenceWritten, EvidenceFails,
       StopOnTokens, ReceiptScored, ReceiptLocalFailure
  <2> QED BY <2>1, <2>2, <2>3, <2>4, <2>5
<1>2. pc'[p] = "raised" \/ (pc[p] \notin Ended /\ pc'[p] \notin Ended \cup {"summary"})
  <2>1. CASE BeforeClaim(p)
    BY <2>1 DEF BeforeClaim, BeginAttempt, CostStop, Idle, RevalidateBeforeClaim,
       StorageGateBeforeClaim, GateBeforeClaimRaises
  <2>2. CASE DurableWrite(p)
    BY <2>2 DEF DurableWrite, CreateFile, WriteFile, FlushFile, SyncDirectory, Kind
  <2>3. CASE Claiming(p)
    BY <2>3 DEF Claiming, BindClaim, ClaimCommitted, ClaimRaises
  <2>4. CASE Gate(p)
    BY <2>4 DEF Gate, VerifyClaim, RevalidateRunner, StorageGate, RevalidateTransport,
       VerifyClaimAgain, GateStep, GateRaises, GatePhase
  <2>5. CASE Answering(p)
    BY <2>5 DEF Answering, ReceiveAnswer, ReceiveSecret, EvidenceWritten, EvidenceFails,
       StopOnTokens, ReceiptScored, ReceiptLocalFailure
  <2> QED BY <2>1, <2>2, <2>3, <2>4, <2>5
<1> QED BY <1>1, <1>2, SummaryMoved

\* A new process has sent nothing, and no old request bears its number.
LEMMA SummaryStarts ==
  ASSUME IndInv, NEW p \in Proc, Start(p)
  PROVE  SummaryInv(p)'
<1>1. /\ pc'[p] = "loop" /\ requests'[p] = 0 /\ run'[p] = starts + 1 /\ wire' = wire
  BY DEF Start, FreshMemory, Goto, IndInv, TypeInv, TypeOK
<1>2. starts \in Nat /\ \A j \in DOMAIN wire : wire[j].run <= starts
  BY RunnerAssumption DEF IndInv, RunInv, TypeInv, TypeOK
<1>3. ASSUME NEW j \in DOMAIN wire PROVE wire[j].run \in Nat
  <2>1. wire \in Seq(Message)
    BY DEF IndInv, TypeInv, TypeOK
  <2>2. wire[j] \in Message
    BY <2>1
  <2> QED BY <2>2, RunnerAssumption DEF Message
<1>4. SentBy(run[p])' = {}
  BY <1>1, <1>2, <1>3 DEF SentBy
<1> QED BY <1>1, <1>4, FS_EmptySet DEF SummaryInv, Ended

\* A request counts for the process that sends it, and for no other.
LEMMA SummarySends ==
  ASSUME IndInv, NEW p \in Proc, Send(p), NEW q \in Proc, SummaryInv(q)
  PROVE  SummaryInv(q)'
<1> DEFINE m == [attempt |-> Index(p), run |-> run[p]]
<1>1. /\ pc[p] = "send" /\ pc'[p] = "wait" /\ run' = run /\ wire' = Append(wire, m)
      /\ requests'[p] = requests[p] + 1
  BY DEF Send, Goto, IndInv, TypeInv, TypeOK
<1>2. run[p] \in 1..starts /\ run[p] \in 1..MaxStarts /\ Index(p) \in Attempt
  <2>1. run[p] \in 1..starts
    BY <1>1 DEF IndInv, TypeInv, UnderWay, Ended
  <2>2. Index(p) \in Attempt
    BY <1>1, IndexType DEF IndInv, BeforeSend, GatePhase
  <2> QED BY <2>1, <2>2, RunnerAssumption DEF IndInv, TypeInv, TypeOK
<1>3. m \in Message /\ m.run = run[p]
  BY <1>2 DEF Message
<1> HIDE DEF m
<1>4. CASE q = p
  <2>1. requests[p] = Cardinality(SentBy(run[p]))
    BY <1>1, <1>4 DEF SummaryInv, Ended
  <2>2. Cardinality(SentBy(run[p])') = Cardinality(SentBy(run[p])) + 1
    BY <1>1, <1>3, SentGrows DEF IndInv
  <2> QED BY <1>1, <1>4, <2>1, <2>2 DEF SummaryInv, Ended, SentBy
<1>5. CASE q # p
  <2>1. SameProcess(q)
    BY <1>5, OthersUnchanged DEF IndInv, Step
  <2>2. run[q] # run[p]
    BY <1>2, <1>5 DEF IndInv, RunInv
  <2>3. SentBy(run[q])' = SentBy(run[q])
    BY <1>1, <1>3, <2>2, SentGrows DEF IndInv
  <2> QED BY <2>1, <2>3 DEF SameProcess, SummaryInv, SentBy, Blocked
<1> QED BY <1>4, <1>5

LEMMA StepSummary ==
  ASSUME IndInv, \A p \in Proc : StopInv(p) /\ SummaryInv(p), [Next]_vars
  PROVE  (\A p \in Proc : SummaryInv(p))'
<1> SUFFICES ASSUME NEW q \in Proc PROVE SummaryInv(q)'
  OBVIOUS
<1>0. TypeInv /\ StopInv(q) /\ SummaryInv(q)
  BY DEF IndInv
<1>1. ASSUME NEW p \in Proc, Start(p) \/ Step(p) \/ Crash(p), ~Send(p), q # p
      PROVE  SummaryInv(q)'
  <2>1. SameProcess(q) /\ wire' = wire
    BY <1>0, <1>1, OthersUnchanged, QuietCounters
  <2> QED BY <1>0, <2>1, SummaryMoved DEF SameProcess
<1>2. CASE Start(q)
  BY <1>2, SummaryStarts
<1>3. CASE Step(q) /\ ~Send(q)
  <2>1. CASE FillBlocked(q) \/ PlanFinished(q)
    BY <1>0, <2>1, SummaryBegins
  <2>2. CASE Archive(q) \/ ArchiveFails(q)
    BY <1>0, <2>2, SummaryMoved DEF Archive, ArchiveFails, Goto, memory, history, TypeInv, TypeOK
  <2> QED BY <1>0, <1>3, <2>1, <2>2, SummaryStays DEF Step, RunLoop
<1>4. CASE Crash(q)
  BY <1>0, <1>4, SummaryMoved DEF Crash, Goto, TypeInv, TypeOK
<1>5. CASE PowerLoss
  BY <1>0, <1>5, SummaryMoved DEF PowerLoss, Ended
<1>6. CASE AuthorityLost \/ (\E k \in Kind : DirectoryReplaced(k)) \/ UNCHANGED vars
  <2>1. /\ pc' = pc /\ receipts' = receipts /\ requests' = requests
        /\ run' = run /\ wire' = wire
    BY <1>6 DEF AuthorityLost, DirectoryReplaced, vars, memory, history
  <2> QED BY <1>0, <2>1, SummaryMoved
<1> QED
  BY <1>0, <1>1, <1>2, <1>3, <1>4, <1>5, <1>6, SummarySends DEF Next, Environment, Terminated

----------------------------------------------------------------------------
LEMMA InitAccount == Init => AccountInv
<1> SUFFICES ASSUME Init PROVE AccountInv
  OBVIOUS
<1>1. SpendInv
  BY DEF Init, SpendInv, BeforeSend, GatePhase
<1>2. LocalFailures(<< >>, 0) = {} /\ Cardinality({}) = 0
  BY FS_EmptySet DEF LocalFailures
<1>3. ASSUME NEW p \in Proc PROVE StopInv(p) /\ SummaryInv(p)
  <2>1. /\ pc[p] = "down" /\ receipts[p] = << >> /\ localErrors[p] = 0 /\ stop[p] = "none"
    BY DEF Init
  <2>2. Counted(p)
    BY <1>2, <2>1 DEF Counted
  <2> QED BY <2>1, <2>2 DEF StopInv, StopsOnce, SummaryInv, Ended
<1> QED BY <1>1, <1>3 DEF AccountInv

\* The counters, the stop reason and the summary of every process agree with its
\* receipts and with the wire, and nobody claims a plan that does not fit.
THEOREM Accounted == Spec => []AccountInv
<1>1. IndInv /\ AccountInv /\ [Next]_vars => AccountInv'
  <2> SUFFICES ASSUME IndInv, AccountInv, [Next]_vars PROVE AccountInv'
    OBVIOUS
  <2>1. SpendInv' /\ (\A p \in Proc : StopInv(p))'
    BY StepSpend, StepStop DEF AccountInv
  <2>2. (\A p \in Proc : SummaryInv(p))'
    BY StepSummary DEF AccountInv
  <2> QED BY <2>1, <2>2 DEF AccountInv
<1> QED BY InitAccount, <1>1, Inductive, PTL DEF Spec

\* The ceiling holds for all requests of all processes together, whatever usage the
\* provider reported: the cost guard of run_next prices the whole plan before the
\* first claim, and later attempts are cheaper parts of what it priced.
THEOREM SpendIsBounded == Spec => []SpendWithinCeiling
<1>1. IndInv /\ AccountInv => SpendWithinCeiling
  BY PrefixIsPaid DEF AccountInv
<1> QED BY <1>1, Inductive, Accounted, PTL

\* A global stop, or the failure that reaches the limit, is final, and nothing is
\* blocked without one (run_next, the BLOCKED receipts of run_all).
THEOREM StopsForGood == Spec => []StopIsFinal
<1>1. AccountInv => StopIsFinal
  BY DEF AccountInv, StopInv, StopsOnce, StopIsFinal, Blocked
<1> QED BY <1>1, Accounted, PTL

\* An archived summary says exactly which attempts of its process reached the wire
\* (provider_request_count and the terminal states of run_all's summary).
THEOREM SummariesAreTrue == Spec => []SummaryMatchesWire
<1>1. AccountInv => SummaryMatchesWire
  BY DEF AccountInv, SummaryInv, SummaryMatchesWire, Blocked
<1> QED BY <1>1, Accounted, PTL

----------------------------------------------------------------------------
(* The live workflow *)

ReceiptType == [issued : Nat, head : Heads, credential : Credentials]
GateType == [main : Heads, expected : ReceiptType, os : DOMAIN NativeOS]
JobType == [phase : {"queued", "gated", "stopped"}, attempt : Nat, created : Nat,
            sha : Heads, names : ReceiptType, gate : SUBSET GateType]

\* The approval named an archived receipt, and the gate compared both with it.
Linked(j) ==
    /\ j.names.issued <= j.created /\ j.created <= now
    /\ \A g \in j.gate : g.expected = j.names /\ g.main = j.sha

Quiet == wire = << >> /\ \A p \in Proc : pc[p] \in Ended

ClockInv == now \in Nat /\ prepared \subseteq ReceiptType /\ \A r \in prepared : r.issued <= now
ChainInv == job \subseteq JobType /\ \A j \in job : Linked(j)
LaunchInv == (\A l \in launched : Approved(l)) /\ (launched = {} => Quiet)

LiveInv == ClockInv /\ ChainInv /\ LaunchInv

----------------------------------------------------------------------------
\* A step of a runner is a step of one that runs.
LEMMA StepsRun == \A p \in Proc : Step(p) => pc[p] \notin Ended
  <1>. SUFFICES ASSUME NEW p \in Proc, Step(p) PROVE pc[p] \notin Ended
    OBVIOUS
  <1>1. CASE RunLoop(p)
    BY <1>1 DEF RunLoop, FillBlocked, PlanFinished, Archive, ArchiveFails, Ended
  <1>2. CASE BeforeClaim(p)
    BY <1>2 DEF BeforeClaim, BeginAttempt, CostStop, RevalidateBeforeClaim,
                StorageGateBeforeClaim, GateBeforeClaimRaises, Idle, Ended
  <1>3. CASE DurableWrite(p)
    BY <1>3 DEF DurableWrite, CreateFile, WriteFile, FlushFile, SyncDirectory, Kind, Ended
  <1>4. CASE Claiming(p)
    BY <1>4 DEF Claiming, BindClaim, ClaimCommitted, ClaimRaises, Ended
  <1>5. CASE Gate(p)
    BY <1>5 DEF Gate, VerifyClaim, RevalidateRunner, StorageGate, RevalidateTransport,
                VerifyClaimAgain, GateRaises, GateStep, GatePhase, Ended
  <1>6. CASE Send(p)
    BY <1>6 DEF Send, Ended
  <1>7. CASE Answering(p)
    BY <1>7 DEF Answering, ReceiveAnswer, ReceiveSecret, EvidenceWritten, EvidenceFails,
                StopOnTokens, ReceiptScored, ReceiptLocalFailure, Ended
  <1>. QED
    BY <1>1, <1>2, <1>3, <1>4, <1>5, <1>6, <1>7 DEF Step

\* Before the first start no step of the runner's own can send or start anything.
LEMMA QuietStays == Quiet /\ RunnerStep => Quiet'
  <1>. SUFFICES ASSUME Quiet, RunnerStep PROVE Quiet'
    OBVIOUS
  <1>1. CASE \E p \in Proc : Step(p) \/ Crash(p)
    BY <1>1, StepsRun DEF Quiet, Crash
  <1>2. CASE AuthorityLost
    BY <1>2 DEF Quiet, AuthorityLost, history
  <1>3. CASE \E k \in Kind : DirectoryReplaced(k)
    BY <1>3 DEF Quiet, DirectoryReplaced, history
  <1>4. CASE PowerLoss
    BY <1>4 DEF Quiet, PowerLoss
  <1>5. CASE Terminated
    BY <1>5 DEF Quiet, Terminated, vars, history
  <1>. QED
    BY <1>1, <1>2, <1>3, <1>4, <1>5 DEF RunnerStep

\* The steps that move the clock, the receipts and the workflow run only.
Orchestration ==
    Tick \/ Prepare \/ Approve \/ PublicGate \/ JobStops \/ StorageRefused
    \/ ProbeFails \/ Rerun \/ Forget

LEMMA OrchestrationOnly ==
    Orchestration => UNCHANGED vars /\ launched' = launched
  BY DEF Orchestration, Tick, Prepare, Approve, PublicGate, JobStops, StorageRefused,
         ProbeFails, Rerun, Forget, Stop

\* execute_live takes no step BM1Runner does not take.
LEMMA LiveStepIsRunnerStep == [LiveNext]_<<vars, liveVars>> => [Next]_vars
  <1>1. CASE Orchestration
    BY <1>1, OrchestrationOnly
  <1>2. CASE \E p \in Proc : Execute(p)
    BY <1>2 DEF Execute, Next
  <1>3. CASE RunnerStep
    BY <1>3 DEF RunnerStep, Next, Environment
  <1>4. CASE UNCHANGED <<vars, liveVars>>
    BY <1>4
  <1>. QED
    BY <1>1, <1>2, <1>3, <1>4 DEF LiveNext, Orchestration

\* The orchestrated runner is a runner: every behaviour of the two workflows, seen
\* through the runner's own state, is one of BM1Runner (execute_live, run_all).
THEOREM LiveIsRunner == LiveSpec => Spec
  <1>1. LiveInit => Init
    BY DEF LiveInit
  <1>. QED
    BY <1>1, LiveStepIsRunnerStep, PTL DEF LiveSpec, Spec

----------------------------------------------------------------------------
LEMMA InitLiveInv == LiveInit => LiveInv
  BY DEF LiveInit, Init, LiveInv, ClockInv, ChainInv, LaunchInv, Quiet, Ended

LEMMA ClockSteps == LiveInv /\ [LiveNext]_<<vars, liveVars>> => ClockInv'
  <1>. SUFFICES ASSUME LiveInv, [LiveNext]_<<vars, liveVars>> PROVE ClockInv'
    OBVIOUS
  <1>. USE DEF LiveInv, ClockInv
  <1>1. CASE Tick
    BY <1>1 DEF Tick, ReceiptType
  <1>2. CASE Prepare
    BY <1>2 DEF Prepare, ReceiptType
  <1>3. CASE Approve \/ PublicGate \/ JobStops \/ StorageRefused \/ ProbeFails \/ Rerun \/ Forget
    BY <1>3 DEF Approve, PublicGate, JobStops, StorageRefused, ProbeFails, Rerun, Forget, Stop
  <1>4. CASE \E p \in Proc : Execute(p)
    BY <1>4 DEF Execute, Load
  <1>5. CASE RunnerStep \/ UNCHANGED <<vars, liveVars>>
    BY <1>5 DEF RunnerStep, liveVars
  <1>. QED
    BY <1>1, <1>2, <1>3, <1>4, <1>5 DEF LiveNext

\* The next phase of a workflow run keeps what links it to its receipt.
LEMMA MovedJob ==
    ASSUME NEW j \in JobType, Linked(j), NEW phase \in {"queued", "gated", "stopped"},
           NEW n \in Nat, NEW gate \in SUBSET GateType,
           \A g \in gate : g.expected = j.names /\ g.main = j.sha
    PROVE  Moved(j, phase, n, gate) \in JobType /\ Linked(Moved(j, phase, n, gate))
  BY DEF JobType, Moved, Linked

LEMMA MovedSame ==
    ASSUME NEW j \in JobType, Linked(j), NEW phase \in {"queued", "gated", "stopped"},
           NEW n \in Nat
    PROVE  Moved(j, phase, n, j.gate) \in JobType /\ Linked(Moved(j, phase, n, j.gate))
  <1>1. j.gate \in SUBSET GateType /\ \A g \in j.gate : g.expected = j.names /\ g.main = j.sha
    BY DEF JobType, Linked
  <1>. QED
    BY <1>1, MovedJob

LEMMA ChainSteps == LiveInv /\ [LiveNext]_<<vars, liveVars>> => ChainInv'
  <1>. SUFFICES ASSUME LiveInv, [LiveNext]_<<vars, liveVars>> PROVE ChainInv'
    OBVIOUS
  <1>0. \A j \in job : j \in JobType /\ Linked(j) /\ j.attempt \in Nat
    BY DEF LiveInv, ChainInv, JobType
  <1>1. CASE Tick
    <2>. SUFFICES ASSUME NEW j \in job PROVE Linked(j)'
      BY <1>1, <1>0 DEF Tick, ChainInv
    <2>. QED
      BY <1>0, <1>1 DEF Tick, Linked, JobType, LiveInv, ClockInv
  <1>2. CASE Prepare \/ RunnerStep \/ UNCHANGED <<vars, liveVars>>
    BY <1>2, <1>0 DEF Prepare, RunnerStep, liveVars, ChainInv, Linked
  <1>3. CASE Approve
    <2>1. PICK receipt \in prepared, sha \in Heads :
            job' = {[phase |-> "queued", attempt |-> 1, created |-> now, sha |-> sha,
                     names |-> receipt, gate |-> {}]}
      BY <1>3 DEF Approve
    <2>2. receipt \in ReceiptType /\ receipt.issued <= now /\ now \in Nat /\ now' = now
      BY <1>3 DEF Approve, LiveInv, ClockInv
    <2>. QED
      BY <2>1, <2>2 DEF ChainInv, JobType, Linked
  <1>4. CASE PublicGate
    <2>1. PICK j \in job, main \in Heads, expected \in prepared, os \in DOMAIN NativeOS :
            /\ HeadMatches(j, main) /\ expected = j.names
            /\ job' = {Moved(j, "gated", j.attempt,
                             {[main |-> main, expected |-> expected, os |-> os]})}
      BY <1>4 DEF PublicGate
    <2>2. [main |-> main, expected |-> expected, os |-> os] \in GateType
      BY DEF GateType, LiveInv, ClockInv
    <2>3. now' = now
      BY <1>4 DEF PublicGate
    <2>. QED
      BY <1>0, <2>1, <2>2, <2>3, MovedJob DEF HeadMatches, ChainInv, Linked
  <1>5. CASE JobStops \/ StorageRefused \/ ProbeFails
    <2>1. PICK j \in job : job' = {Moved(j, "stopped", j.attempt, j.gate)} /\ now' = now
      BY <1>5 DEF JobStops, StorageRefused, ProbeFails, Stop, Gated
    <2>. QED
      BY <1>0, <2>1, MovedSame DEF ChainInv, Linked
  <1>6. CASE Rerun
    <2>1. PICK j \in job, phase \in {"queued", "gated"} :
            job' = {Moved(j, phase, j.attempt + 1, j.gate)} /\ now' = now
      BY <1>6 DEF Rerun
    <2>2. j.attempt + 1 \in Nat
      BY <1>0
    <2>. QED
      BY <1>0, <2>1, <2>2, MovedSame DEF ChainInv, Linked
  <1>7. CASE Forget \/ \E p \in Proc : Execute(p)
    BY <1>7 DEF Forget, Execute, ChainInv
  <1>. QED
    BY <1>1, <1>2, <1>3, <1>4, <1>5, <1>6, <1>7 DEF LiveNext

\* What execute_live compares, together with what its job carries, is the chain.
LEMMA ExecuteApproves ==
    ASSUME LiveInv, NEW p \in Proc, Execute(p)
    PROVE  \E l : launched' = {l} /\ Approved(l)
  <1>1. PICK j \in Gated, credential \in Credentials, os \in DOMAIN NativeOS :
          \E g \in j.gate, r \in Load(j) :
            /\ PrivateRunner(os, g.os)
            /\ FirstAttempt(j) /\ ReceiptOfHead(r, j) /\ ReceiptFresh(r)
            /\ CredentialUnchanged(r, credential) /\ ApprovalActive(j)
            /\ launched' = {Authorization(r, j, credential)}
    BY DEF Execute
  <1>2. PICK g \in j.gate, r \in Load(j) :
            /\ PrivateRunner(os, g.os)
            /\ FirstAttempt(j) /\ ReceiptOfHead(r, j) /\ ReceiptFresh(r)
            /\ CredentialUnchanged(r, credential) /\ ApprovalActive(j)
            /\ launched' = {Authorization(r, j, credential)}
    BY <1>1
  <1>3. j \in JobType /\ Linked(j) /\ now \in Nat
    BY DEF Gated, LiveInv, ChainInv, ClockInv
  <1>4. r = j.names /\ r \in ReceiptType
    BY <1>3 DEF Load, Linked, JobType
  <1>5. g.expected = r /\ g.main = r.head /\ NativeOS[g.os] = Platform
    BY <1>2, <1>3, <1>4 DEF Linked, ReceiptOfHead, PrivateRunner
  <1>6. /\ r.issued <= j.created /\ j.created <= now
        /\ now <= j.created + ApprovalTTL /\ now <= r.issued + ReceiptTTL
    BY <1>2, <1>3, <1>4, LiveAssumption
       DEF Linked, ApprovalActive, ReceiptFresh, JobType, ReceiptType
  <1>7. Approved(Authorization(r, j, credential))
    BY <1>2, <1>4, <1>5, <1>6
       DEF Approved, Authorization, ReceiptOfHead, CredentialUnchanged, FirstAttempt
  <1>. QED
    BY <1>2, <1>7

LEMMA LaunchSteps == LiveInv /\ [LiveNext]_<<vars, liveVars>> => LaunchInv'
  <1>. SUFFICES ASSUME LiveInv, [LiveNext]_<<vars, liveVars>> PROVE LaunchInv'
    OBVIOUS
  <1>1. CASE Orchestration \/ UNCHANGED <<vars, liveVars>>
    BY <1>1, OrchestrationOnly
       DEF LiveInv, LaunchInv, Quiet, Approved, vars, liveVars, history
  <1>2. CASE \E p \in Proc : Execute(p)
    BY <1>2, ExecuteApproves DEF LaunchInv, Approved
  <1>3. CASE RunnerStep
    BY <1>3, QuietStays DEF RunnerStep, liveVars, LiveInv, LaunchInv, Approved
  <1>. QED
    BY <1>1, <1>2, <1>3 DEF LiveNext, Orchestration

THEOREM LiveInductive == LiveSpec => []LiveInv
  <1>1. LiveInv /\ [LiveNext]_<<vars, liveVars>> => LiveInv'
    BY ClockSteps, ChainSteps, LaunchSteps DEF LiveInv
  <1>. QED
    BY InitLiveInv, <1>1, PTL DEF LiveSpec

\* Whatever main, the credentials, the protected variable and the clock do between
\* the steps of the owner and of the jobs, a request stands on one unbroken chain
\* (execute_live, github_event_snapshot, validate_run_ready_receipt).
THEOREM ChainIsUnbroken == LiveSpec => []SentAsApproved
  <1>1. LiveInv => SentAsApproved
    BY DEF LiveInv, LaunchInv, Quiet, SentAsApproved
  <1>. QED
    BY LiveInductive, <1>1, PTL

\* The runner's own promise, kept by every run the two workflows can start.
THEOREM LivePlanIsFollowed == LiveSpec => []WireFollowsPlan
  BY LiveIsRunner, PlanIsFollowed, PTL

\* What the two workflows start stays within the ceiling, stops for good and archives
\* summaries that match the wire: BM1Runner's account holds of every run of them.
THEOREM LiveIsAccounted ==
    LiveSpec => [](SpendWithinCeiling /\ StopIsFinal /\ SummaryMatchesWire)
  BY LiveIsRunner, SpendIsBounded, StopsForGood, SummariesAreTrue, PTL

=============================================================================
