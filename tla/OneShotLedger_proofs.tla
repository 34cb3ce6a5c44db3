------------------------- MODULE OneShotLedger_proofs -------------------------
(***************************************************************************)
(* The ledger of the R1b lane is a one-shot store, for every number of     *)
(* jobs, identities and reruns.                                            *)
(*                                                                         *)
(* LaneIsOneShot is not inductive: that a provider attempt is the first of *)
(* its identities follows from how far the claim behind it has come.  The  *)
(* lock keeps one job at a time in the ledger (LockInv), so what a job did *)
(* there is where it left it (ProgressInv); an index leads to a durable    *)
(* record and is the only one of its identity (IndexInv); and who has made *)
(* an attempt holds both indexes for good and never passes a scan again    *)
(* (CallInv), because its own record is in the way.                        *)
(***************************************************************************)
EXTENDS OneShotLedger, TLAPS

\* The phases behind the commit of the record, those of an owner of both indexes,
\* and those of a job that has written nothing since it last entered the lane.
Linking == {"link_authorization", "sync_authorization", "link_run", "sync_run", "check"}
Holding == {"check", "claimed", "requested"}
Attributable == {"written", "synced", "durable"}
Outside == Over \cup {"triggered", "approved", "scan"}

LockInv == \A j \in Job : pc[j] \in LedgerPhase => lock = {j}

ProgressInv ==
    \A j \in Job :
        /\ pc[j] = "write" => record[j] = "created"
        /\ pc[j] = "sync" => record[j] = "written"
        /\ pc[j] = "syncdir" => record[j] = "synced"
        /\ pc[j] \in Linking \cup Holding => record[j] = "durable"
        /\ pc[j] = "sync_run" => <<j, "authorization">> \in durable
        /\ pc[j] = "link_run" => <<j, "authorization">> \in durable
        /\ pc[j] = "sync_authorization" => <<j, "authorization">> \in links
        /\ pc[j] = "sync_run" => <<j, "run">> \in links
        /\ pc[j] \in Holding => \A k \in IndexKind : <<j, k>> \in durable

IndexInv ==
    /\ \A j \in Job, k \in IndexKind : <<j, k>> \in links => record[j] = "durable"
    /\ \A i, j \in Job, k \in IndexKind :
          <<i, k>> \in links /\ <<j, k>> \in links /\ approval[i][k] = approval[j][k] => i = j

CallInv ==
    \A c \in calls :
        /\ record[c[1]] = "durable"
        /\ \A k \in IndexKind : <<c[1], k>> \in durable
        /\ pc[c[1]] \in Outside

LaneInv == TypeOK /\ LockInv /\ ProgressInv /\ IndexInv /\ CallInv /\ QuarantineHolds

USE DEF Attributable, Phase, LedgerPhase, Over, Outside, Linking, Holding, IndexKind, FileState

LEMMA InitLane == Init => LaneInv
<1> SUFFICES ASSUME Init PROVE LaneInv
  OBVIOUS
<1>1. TypeOK
  BY LedgerAssumption DEF Init, TypeOK
<1> QED BY <1>1 DEF Init, LaneInv, LockInv, ProgressInv, IndexInv, CallInv, QuarantineHolds

\* A directory sync commits what is there and takes nothing back.
LEMMA SyncKeeps ==
  ASSUME TypeOK, DirectorySync
  PROVE  /\ record' \in [Job -> FileState]
         /\ \A i \in Job : record'[i] = IF record[i] = "synced" THEN "durable" ELSE record[i]
         /\ durable' = links
BY DEF TypeOK, DirectorySync, AfterDirectorySync

\* A job takes or keeps the lock and goes on to a phase of the ledger.
Inside(j, to) ==
    /\ pc[j] \in LedgerPhase \/ (pc[j] = "approved" /\ lock = {})
    /\ to \in LedgerPhase
    /\ pc' = [pc EXCEPT ![j] = to]
    /\ lock' = {j}

\* A job that goes on under the lock is alone in the ledger.
LEMMA Alone ==
  ASSUME LaneInv, NEW j \in Job, NEW to, Inside(j, to)
  PROVE  /\ \A i \in Job : i # j => pc[i] \notin LedgerPhase /\ pc'[i] = pc[i]
         /\ pc' \in [Job -> Phase] /\ pc'[j] = to /\ lock' \subseteq Job
         /\ LockInv'
<1>1. pc' \in [Job -> Phase] /\ pc'[j] = to /\ \A i \in Job : i # j => pc'[i] = pc[i]
  BY DEF LaneInv, TypeOK, Inside
<1>2. \A i \in Job : i # j => pc[i] \notin LedgerPhase
  BY DEF LaneInv, LockInv, Inside
<1>3. LockInv' /\ lock' \subseteq Job
  BY <1>1, <1>2 DEF LockInv, Inside
<1> QED BY <1>1, <1>2, <1>3

\* A step under the lock that ends with a directory sync.
Synced(j, to) ==
    /\ Inside(j, to)
    /\ DirectorySync
    /\ UNCHANGED <<attempt, approval, body, links, calls>>
    /\ to \in {"scan", "link_authorization", "link_run", "check"}
    /\ to # "scan" => pc[j] \notin Outside /\ record'[j] = "durable"
    /\ to # "scan" => \A i \in Job : i # j /\ record[i] # "absent" =>
                          record[i] \in Attributable /\ body[i] = 1
    /\ to = "link_run" => <<j, "authorization">> \in links
    /\ to = "check" => \A k \in IndexKind : <<j, k>> \in links

\* A directory sync under the lock: the entries of the other jobs were not in
\* flight, so the sync only commits the record and the index of the job itself.
LEMMA SyncedKeeps ==
  ASSUME LaneInv, NEW j \in Job, NEW to, Synced(j, to)
  PROVE  LaneInv'
<1>1. /\ \A i \in Job : i # j => pc[i] \notin LedgerPhase /\ pc'[i] = pc[i]
      /\ pc' \in [Job -> Phase] /\ pc'[j] = to /\ LockInv' /\ lock' \subseteq Job
  BY Alone DEF Synced
<1>2. /\ record' \in [Job -> FileState] /\ durable' = links
      /\ \A i \in Job : record'[i] = IF record[i] = "synced" THEN "durable" ELSE record[i]
  BY SyncKeeps DEF LaneInv, Synced
<1>u. UNCHANGED <<attempt, approval, body, links, calls>>
  BY DEF Synced
<1>3. TypeOK'
  BY <1>1, <1>2, <1>u DEF LaneInv, TypeOK
<1>4. ProgressInv'
  <2> SUFFICES ASSUME NEW i \in Job
               PROVE  /\ pc'[i] = "write" => record'[i] = "created"
                      /\ pc'[i] = "sync" => record'[i] = "written"
                      /\ pc'[i] = "syncdir" => record'[i] = "synced"
                      /\ pc'[i] \in Linking \cup Holding => record'[i] = "durable"
                      /\ pc'[i] = "sync_run" => <<i, "authorization">> \in durable'
                      /\ pc'[i] = "link_run" => <<i, "authorization">> \in durable'
                      /\ pc'[i] = "sync_authorization" => <<i, "authorization">> \in links'
                      /\ pc'[i] = "sync_run" => <<i, "run">> \in links'
                      /\ pc'[i] \in Holding => \A k \in IndexKind : <<i, k>> \in durable'
    BY DEF ProgressInv
  <2>1. CASE i = j
    BY <2>1, <1>1, <1>2, <1>u DEF Synced
  <2>2. CASE i # j
    <3>1. pc'[i] \in Holding => record[i] = "durable" /\ \A k \in IndexKind : <<i, k>> \in links
      BY <2>2, <1>1 DEF LaneInv, ProgressInv, TypeOK
    <3>2. pc'[i] \notin LedgerPhase
      BY <2>2, <1>1
    <3>3. pc'[i] \in Holding => /\ record'[i] = "durable"
                                /\ \A k \in IndexKind : <<i, k>> \in durable'
      BY <3>1, <1>2
    <3> QED BY <3>2, <3>3
  <2> QED BY <2>1, <2>2
<1>5. IndexInv'
  BY <1>2, <1>u DEF LaneInv, IndexInv
<1>6. CallInv'
  <2> SUFFICES ASSUME NEW c \in calls
               PROVE  /\ record'[c[1]] = "durable"
                      /\ \A k \in IndexKind : <<c[1], k>> \in durable'
                      /\ pc'[c[1]] \in Outside
    BY <1>u DEF CallInv
  <2>1. c[1] \in Job /\ record[c[1]] = "durable" /\ pc[c[1]] \in Outside
    BY DEF LaneInv, CallInv, TypeOK
  <2>2. \A k \in IndexKind : <<c[1], k>> \in links
    BY DEF LaneInv, CallInv, TypeOK
  <2>3. record'[c[1]] = "durable" /\ \A k \in IndexKind : <<c[1], k>> \in durable'
    BY <2>1, <2>2, <1>2
  <2>4. pc'[c[1]] \in Outside
    BY <2>1, <1>1 DEF Synced
  <2> QED BY <2>3, <2>4
<1>7. QuarantineHolds'
  <2> SUFFICES ASSUME NEW i \in Job, NEW h \in Job, i # h, pc'[h] \in LedgerPhase \ {"scan"},
                      record'[i] # "absent"
               PROVE  ValidClaim(i)'
    BY DEF QuarantineHolds
  <2>1. h = j
    BY <1>1
  <2>2. record[i] \in Attributable /\ body[i] = 1
    <3>1. to # "scan" /\ record[i] # "absent"
      BY <2>1, <1>1, <1>2
    <3> QED BY <2>1, <3>1 DEF Synced
  <2> QED BY <2>2, <1>2, <1>u DEF ValidClaim, Readable
<1> QED BY <1>1, <1>3, <1>4, <1>5, <1>6, <1>7 DEF LaneInv

\* While a job writes under the lock, the records of all others can be attributed.
LEMMA OthersValid ==
  ASSUME LaneInv, NEW j \in Job, pc[j] \in LedgerPhase \ {"scan"}
  PROVE  \A i \in Job : i # j /\ record[i] # "absent" =>
            record[i] \in Attributable /\ body[i] = 1
BY DEF LaneInv, QuarantineHolds, ValidClaim, Readable

\* A job goes from one phase outside the ledger to another, or leaves the ledger.
Leaves(j, to) ==
    /\ pc' = [pc EXCEPT ![j] = to]
    /\ to \in Phase \ LedgerPhase
    /\ to \in Holding => pc[j] \in Holding
    /\ to \notin Outside => pc[j] \notin Outside
    /\ lock' = lock \ {j} \/ (lock' = lock /\ pc[j] \notin LedgerPhase)
    /\ UNCHANGED <<approval, ledger>>
    /\ \/ calls' = calls
       \/ pc[j] = "requested" /\ to = "done" /\ calls' = calls \cup {<<j, attempt[j]>>}
    /\ attempt' \in [Job -> 1..MaxAttempts]

\* Outside the ledger nothing is lost, and who attempts holds both indexes.
LEMMA LeavesKeeps ==
  ASSUME LaneInv, NEW j \in Job, NEW to, Leaves(j, to)
  PROVE  LaneInv'
<1>1. /\ pc' \in [Job -> Phase] /\ pc'[j] = to /\ to \notin LedgerPhase
      /\ \A i \in Job : i # j => pc'[i] = pc[i]
  BY DEF LaneInv, TypeOK, Leaves
<1>2. UNCHANGED <<approval, record, body, links, durable>>
  BY DEF Leaves, ledger
<1>3. calls' \subseteq Job \X (1..MaxAttempts)
  BY DEF LaneInv, TypeOK, Leaves
<1>4. TypeOK'
  BY <1>1, <1>2, <1>3 DEF LaneInv, TypeOK, Leaves
<1>5. LockInv'
  BY <1>1 DEF LaneInv, TypeOK, LockInv, Leaves
<1>6. ProgressInv'
  <2>1. to \in Holding => /\ record[j] = "durable"
                          /\ \A k \in IndexKind : <<j, k>> \in durable
    BY DEF LaneInv, ProgressInv, Leaves
  <2> QED BY <2>1, <1>1, <1>2 DEF LaneInv, ProgressInv
<1>7. IndexInv' /\ QuarantineHolds'
  BY <1>1, <1>2 DEF LaneInv, IndexInv, QuarantineHolds, ValidClaim, Readable
<1>8. CallInv'
  <2> SUFFICES ASSUME NEW c \in calls'
               PROVE  /\ record[c[1]] = "durable"
                      /\ \A k \in IndexKind : <<c[1], k>> \in durable
                      /\ pc'[c[1]] \in Outside
    BY <1>2 DEF CallInv
  <2>1. CASE c \in calls
    <3>1. /\ c[1] \in Job /\ record[c[1]] = "durable" /\ pc[c[1]] \in Outside
          /\ \A k \in IndexKind : <<c[1], k>> \in durable
      BY <2>1 DEF LaneInv, CallInv, TypeOK
    <3>2. pc'[c[1]] \in Outside
      BY <3>1, <1>1 DEF Leaves
    <3> QED BY <3>1, <3>2
  <2>2. CASE c \notin calls
    <3>1. c[1] = j /\ pc[j] = "requested" /\ to = "done"
      BY <2>2 DEF Leaves
    <3> QED BY <3>1, <1>1 DEF LaneInv, ProgressInv
  <2> QED BY <2>1, <2>2
<1> QED BY <1>4, <1>5, <1>6, <1>7, <1>8 DEF LaneInv

\* A job under the lock writes the next stage of its own record.
Records(j, to, s) ==
    /\ Inside(j, to)
    /\ \/ to = "write" /\ s = "created"
       \/ to = "sync" /\ s = "written"
       \/ to = "syncdir" /\ s = "synced"
    /\ pc[j] \in LedgerPhase \ {"scan"}
    /\ record[j] \in {"absent", "created", "written"}
    /\ record' = [record EXCEPT ![j] = s]
    /\ body' \in [Job -> 0..MaxAttempts]
    /\ \A i \in Job : i # j => body'[i] = body[i]
    /\ UNCHANGED <<attempt, approval, links, durable, calls>>

\* No index leads to a record that is not durable, so none is cut off.
LEMMA RecordsKeeps ==
  ASSUME LaneInv, NEW j \in Job, NEW to, NEW s, Records(j, to, s)
  PROVE  LaneInv'
<1>1. /\ \A i \in Job : i # j => pc[i] \notin LedgerPhase /\ pc'[i] = pc[i]
      /\ pc' \in [Job -> Phase] /\ pc'[j] = to /\ LockInv' /\ lock' \subseteq Job
  BY Alone DEF Records
<1>2. UNCHANGED <<attempt, approval, links, durable, calls>>
  BY DEF Records
<1>3. \/ to = "write" /\ s = "created"
      \/ to = "sync" /\ s = "written"
      \/ to = "syncdir" /\ s = "synced"
  BY DEF Records
<1>4. /\ record' \in [Job -> FileState] /\ record'[j] = s
      /\ \A i \in Job : i # j => record'[i] = record[i]
  BY <1>3 DEF LaneInv, TypeOK, Records
<1>5. record[j] # "durable"
  BY DEF Records
<1>6. TypeOK'
  BY <1>1, <1>2, <1>4 DEF LaneInv, TypeOK, Records
<1>7. ProgressInv'
  <2>1. \A i \in Job : i # j => pc'[i] \notin LedgerPhase
    BY <1>1
  <2> QED BY <2>1, <1>1, <1>2, <1>3, <1>4 DEF LaneInv, ProgressInv
<1>8. IndexInv'
  BY <1>2, <1>4, <1>5 DEF LaneInv, TypeOK, IndexInv
<1>9. CallInv'
  BY <1>1, <1>2, <1>4, <1>5 DEF LaneInv, TypeOK, CallInv
<1>10. QuarantineHolds'
  BY <1>1, <1>4 DEF LaneInv, QuarantineHolds, ValidClaim, Readable, Records
<1> QED BY <1>1, <1>6, <1>7, <1>8, <1>9, <1>10 DEF LaneInv

\* A job under the lock links one index to its durable record.
Links(j, to, k) ==
    /\ Inside(j, to)
    /\ pc[j] \in Linking
    /\ \/ to = "sync_authorization" /\ k = "authorization"
       \/ to = "sync_run" /\ k = "run" /\ <<j, "authorization">> \in durable
    /\ \A i \in Job : <<i, k>> \in links => approval[i][k] # approval[j][k]
    /\ links' = links \cup {<<j, k>>}
    /\ UNCHANGED <<attempt, approval, record, body, durable, calls>>

\* os.link refuses a name that exists, so an identity has one index.
LEMMA LinksKeeps ==
  ASSUME LaneInv, NEW j \in Job, NEW to, NEW k, Links(j, to, k)
  PROVE  LaneInv'
<1>1. /\ \A i \in Job : i # j => pc[i] \notin LedgerPhase /\ pc'[i] = pc[i]
      /\ pc' \in [Job -> Phase] /\ pc'[j] = to /\ LockInv' /\ lock' \subseteq Job
  BY Alone DEF Links
<1>2. /\ UNCHANGED <<attempt, approval, record, body, durable, calls>>
      /\ links' = links \cup {<<j, k>>} /\ k \in IndexKind
  BY DEF Links
<1>3. record[j] = "durable"
  BY DEF LaneInv, ProgressInv, Links
<1>4. TypeOK'
  BY <1>1, <1>2 DEF LaneInv, TypeOK
<1>5. ProgressInv'
  <2> SUFFICES ASSUME NEW i \in Job
               PROVE  /\ pc'[i] \notin {"write", "sync", "syncdir", "link_run"}
                      /\ pc'[i] \in Linking \cup Holding => record[i] = "durable"
                      /\ pc'[i] = "sync_run" => /\ <<i, "authorization">> \in durable
                                                /\ <<i, "run">> \in links'
                      /\ pc'[i] = "sync_authorization" => <<i, "authorization">> \in links'
                      /\ pc'[i] \in Holding => \A h \in IndexKind : <<i, h>> \in durable
    BY <1>2 DEF ProgressInv
  <2>1. CASE i = j
    BY <2>1, <1>1, <1>2, <1>3 DEF Links
  <2>2. CASE i # j
    BY <2>2, <1>1 DEF LaneInv, ProgressInv
  <2> QED BY <2>1, <2>2
<1>6. IndexInv'
  <2>1. \A i \in Job, h \in IndexKind : <<i, h>> \in links' => record'[i] = "durable"
    BY <1>2, <1>3 DEF LaneInv, IndexInv
  <2>2. ASSUME NEW i \in Job, NEW l \in Job, NEW h \in IndexKind,
               <<i, h>> \in links', <<l, h>> \in links', approval[i][h] = approval[l][h]
        PROVE  i = l
    <3>1. CASE <<i, h>> \in links /\ <<l, h>> \in links
      BY <3>1, <2>2 DEF LaneInv, IndexInv
    <3>2. CASE <<i, h>> \notin links
      BY <3>2, <2>2, <1>2 DEF Links
    <3>3. CASE <<l, h>> \notin links
      BY <3>3, <2>2, <1>2 DEF Links
    <3> QED BY <3>1, <3>2, <3>3
  <2> QED BY <2>1, <2>2, <1>2 DEF IndexInv
<1>7. CallInv'
  BY <1>1, <1>2 DEF LaneInv, TypeOK, CallInv, Links
<1>8. QuarantineHolds'
  <2>1. pc[j] \in LedgerPhase \ {"scan"}
    BY DEF Links
  <2> QED BY <2>1, <1>1, <1>2 DEF LaneInv, QuarantineHolds, ValidClaim, Readable
<1> QED BY <1>1, <1>4, <1>5, <1>6, <1>7, <1>8 DEF LaneInv

\* The scan finds nothing of the job's own identities, its own record included.
LEMMA ScanKeeps ==
  ASSUME LaneInv, NEW j \in Job, Scan(j)
  PROVE  LaneInv'
<1>1. UNCHANGED <<attempt, approval, lock, record, body, links, durable, calls>>
  BY DEF Scan, ledger
<1>2. Inside(j, "create") /\ ScanPasses(j)
  BY <1>1 DEF LaneInv, LockInv, Scan, Goto, Inside
<1>3. /\ \A i \in Job : i # j => pc[i] \notin LedgerPhase /\ pc'[i] = pc[i]
      /\ pc' \in [Job -> Phase] /\ pc'[j] = "create" /\ LockInv' /\ lock' \subseteq Job
  BY <1>2, Alone
<1>4. record[j] = "absent"
  BY <1>2 DEF ScanPasses, SharesIdentity
<1>5. TypeOK'
  BY <1>1, <1>3 DEF LaneInv, TypeOK
<1>6. ProgressInv'
  BY <1>1, <1>3 DEF LaneInv, ProgressInv
<1>7. IndexInv'
  BY <1>1 DEF LaneInv, IndexInv
<1>8. CallInv'
  BY <1>1, <1>3, <1>4 DEF LaneInv, TypeOK, CallInv
<1>9. QuarantineHolds'
  BY <1>1, <1>2, <1>3 DEF QuarantineHolds, ScanPasses, ValidClaim, Readable
<1> QED BY <1>3, <1>5, <1>6, <1>7, <1>8, <1>9 DEF LaneInv

\* A power loss takes neither a durable record nor a durable index.
LEMMA PowerLossKeeps ==
  ASSUME LaneInv, PowerLoss
  PROVE  LaneInv'
<1>1. UNCHANGED <<attempt, approval, durable, calls>> /\ lock' = {}
  BY DEF PowerLoss
<1>2. /\ pc' \in [Job -> Phase]
      /\ \A i \in Job : pc'[i] \in Outside \cup {"approved"} /\ pc'[i] # "scan"
      /\ \A i \in Job : pc[i] \in Over \cup {"triggered", "approved"} => pc'[i] = pc[i]
      /\ \A i \in Job : pc'[i] \in Over \cup {"triggered", "approved"}
  BY DEF LaneInv, TypeOK, PowerLoss
<1>3. /\ record' \in [Job -> FileState]
      /\ \A i \in Job : record[i] = "durable" => record'[i] = "durable"
  BY DEF LaneInv, TypeOK, PowerLoss, AfterPowerLoss, Volatile
<1>4. body' \in [Job -> 0..MaxAttempts]
  BY LedgerAssumption DEF LaneInv, TypeOK, PowerLoss
<1>5. durable \subseteq links' /\ links' \subseteq links
  BY DEF LaneInv, TypeOK, PowerLoss
<1>6. TypeOK'
  BY <1>1, <1>2, <1>3, <1>4, <1>5 DEF LaneInv, TypeOK
<1>7. LockInv' /\ ProgressInv' /\ QuarantineHolds'
  BY <1>2 DEF LockInv, ProgressInv, QuarantineHolds
<1>8. IndexInv'
  BY <1>1, <1>3, <1>5 DEF LaneInv, IndexInv
<1>9. CallInv'
  BY <1>1, <1>2, <1>3 DEF LaneInv, TypeOK, CallInv
<1> QED BY <1>6, <1>7, <1>8, <1>9 DEF LaneInv

\* Every step of a job is of one of these kinds.
LEMMA JobKeeps ==
  ASSUME LaneInv, NEW j \in Job, Step(j) \/ Rerun(j)
  PROVE  LaneInv'
<1>1. /\ pc[j] \in LedgerPhase => lock = {j}
      /\ attempt \in [Job -> 1..MaxAttempts] /\ attempt[j] \in 1..MaxAttempts
      /\ body \in [Job -> 0..MaxAttempts] /\ lock \subseteq Job
  BY DEF LaneInv, LockInv, TypeOK
<1>2. CASE WindowGate(j)
  <2>1. Leaves(j, "approved")
    BY <1>1, <1>2 DEF WindowGate, Goto, Leaves
  <2> QED BY <2>1, LeavesKeeps
<1>3. CASE LockLedger(j)
  <2>1. Synced(j, "scan")
    BY <1>3 DEF LockLedger, Goto, Synced, Inside
  <2> QED BY <2>1, SyncedKeeps
<1>4. CASE Scan(j)
  BY <1>4, ScanKeeps
<1>5. CASE CreateRecord(j)
  <2>1. Inside(j, "write") /\ record[j] = "absent"
    BY <1>1, <1>5 DEF CreateRecord, Creatable, Goto, Inside
  <2>2. /\ body' \in [Job -> 0..MaxAttempts]
        /\ \A i \in Job : i # j => body'[i] = body[i]
    BY <1>1, <1>5, LedgerAssumption DEF CreateRecord
  <2>3. Records(j, "write", "created")
    BY <2>1, <2>2, <1>5 DEF CreateRecord, Records
  <2> QED BY <2>3, RecordsKeeps
<1>6. CASE WriteRecord(j)
  <2>1. Inside(j, "sync") /\ record[j] = "created"
    BY <1>1, <1>6 DEF WriteRecord, Goto, Inside, LaneInv, ProgressInv
  <2>2. Records(j, "sync", "written")
    BY <2>1, <1>1, <1>6 DEF WriteRecord, Records
  <2> QED BY <2>2, RecordsKeeps
<1>7. CASE SyncRecord(j)
  <2>1. Inside(j, "syncdir") /\ record[j] = "written"
    BY <1>1, <1>7 DEF SyncRecord, Goto, Inside, LaneInv, ProgressInv
  <2>2. AfterFlush = "synced"
    BY LedgerAssumption DEF AfterFlush
  <2>3. Records(j, "syncdir", "synced")
    BY <2>1, <2>2, <1>1, <1>7 DEF SyncRecord, Records
  <2> QED BY <2>3, RecordsKeeps
<1>8. ASSUME NEW from \in LedgerPhase, NEW to \in {"link_authorization", "link_run", "check"},
             pc[j] = from, from # "scan", DirectorySync, Goto(j, to),
             UNCHANGED <<attempt, approval, lock, body, links, calls>>,
             record[j] \in {"synced", "durable"},
             to = "link_run" => <<j, "authorization">> \in links,
             to = "check" => \A k \in IndexKind : <<j, k>> \in links
      PROVE  LaneInv'
  <2>1. Inside(j, to)
    BY <1>1, <1>8 DEF Goto, Inside
  <2>2. record'[j] = "durable"
    BY <1>8, SyncKeeps DEF LaneInv
  <2>3. \A i \in Job : i # j /\ record[i] # "absent" => record[i] \in Attributable /\ body[i] = 1
    BY <1>8, OthersValid
  <2>4. Synced(j, to)
    BY <2>1, <2>2, <2>3, <1>8 DEF Synced
  <2> QED BY <2>4, SyncedKeeps
<1>9. CASE CommitRecord(j)
  BY <1>8, <1>9 DEF CommitRecord, LaneInv, ProgressInv
<1>10. CASE LinkAuthorization(j)
  <2>1. Links(j, "sync_authorization", "authorization")
    BY <1>1, <1>10 DEF LinkAuthorization, LinkIndex, Goto, Links, Inside
  <2> QED BY <2>1, LinksKeeps
<1>11. CASE SyncAuthorization(j)
  BY <1>8, <1>11 DEF SyncAuthorization, SyncIndex, LaneInv, ProgressInv
<1>12. CASE LinkRunIdentity(j)
  <2>1. Links(j, "sync_run", "run")
    BY <1>1, <1>12 DEF LinkRunIdentity, LinkIndex, Goto, Links, Inside, LaneInv, ProgressInv
  <2> QED BY <2>1, LinksKeeps
<1>13. CASE SyncRunIdentity(j)
  <2>1. \A k \in IndexKind : <<j, k>> \in links
    BY <1>13 DEF SyncRunIdentity, SyncIndex, LaneInv, ProgressInv, TypeOK
  <2> QED BY <2>1, <1>8, <1>13 DEF SyncRunIdentity, SyncIndex, LaneInv, ProgressInv
<1>14. CASE CheckLinks(j)
  <2>1. Leaves(j, "claimed")
    BY <1>1, <1>14 DEF CheckLinks, Goto, Unlock, Leaves
  <2> QED BY <2>1, LeavesKeeps
<1>15. CASE RebindClaim(j)
  <2>1. Leaves(j, "requested")
    BY <1>1, <1>15 DEF RebindClaim, Goto, Leaves
  <2> QED BY <2>1, LeavesKeeps
<1>16. CASE ProviderAttempt(j)
  <2>1. Leaves(j, "done")
    BY <1>1, <1>16 DEF ProviderAttempt, Goto, Leaves
  <2> QED BY <2>1, LeavesKeeps
<1>17. CASE Fail(j)
  <2>1. PICK to \in {"rejected", "failed"} : Goto(j, to)
    BY <1>17 DEF Fail
  <2>2. Leaves(j, to)
    BY <1>1, <1>17, <2>1 DEF Fail, Goto, Unlock, Leaves
  <2> QED BY <2>2, LeavesKeeps
<1>18. CASE Rerun(j)
  <2>1. PICK to \in {"triggered", "approved"} : Goto(j, to)
    BY <1>18 DEF Rerun
  <2>2. attempt' \in [Job -> 1..MaxAttempts]
    BY <1>1, <1>18, LedgerAssumption DEF Rerun
  <2>3. Leaves(j, to)
    BY <2>1, <2>2, <1>1, <1>18 DEF Rerun, Goto, Leaves
  <2> QED BY <2>3, LeavesKeeps
<1> QED BY <1>2, <1>3, <1>4, <1>5, <1>6, <1>7, <1>9, <1>10, <1>11, <1>12, <1>13, <1>14, <1>15,
           <1>16, <1>17, <1>18 DEF Step, Claim

----------------------------------------------------------------------------
(* Theorems *)

\* The lane invariant holds over overlapping jobs, reruns, failures and power losses.
THEOREM LaneInvariant == Spec => []LaneInv
<1>1. LaneInv /\ [Next]_vars => LaneInv'
  <2> SUFFICES ASSUME LaneInv, [Next]_vars PROVE LaneInv'
    OBVIOUS
  <2>1. CASE UNCHANGED vars
    BY <2>1 DEF vars, ledger, LaneInv, TypeOK, LockInv, ProgressInv, IndexInv, CallInv,
         QuarantineHolds, ValidClaim, Readable
  <2> QED BY <2>1, JobKeeps, PowerLossKeeps DEF Next, Terminated
<1> QED BY <1>1, InitLane, PTL DEF Spec

\* The jobs, the lock and the ledger keep their types.
THEOREM LaneTypes == Spec => []TypeOK
<1>1. LaneInv => TypeOK
  BY DEF LaneInv
<1> QED BY <1>1, LaneInvariant, PTL

\* The locked scan: a job past it never writes next to an entry that cannot be
\* attributed.
THEOREM QuarantineAlways == Spec => []QuarantineHolds
<1>1. LaneInv => QuarantineHolds
  BY DEF LaneInv
<1> QED BY <1>1, LaneInvariant, PTL

----------------------------------------------------------------------------
(* The ledger and the attempts behind it implement OneShot *)

Name == IndexKind \X Identity

ClaimOwner(n) ==
    {j \in Job : /\ record[j] = "durable" /\ <<j, n[1]>> \in durable
                 /\ approval[j][n[1]] = n[2]}

ClaimUses(n) == {c \in calls : approval[c[1]][n[1]] = n[2]}

\* No step takes back a durable record or index, or changes what a job was approved for.
LEMMA CommittedStays ==
  ASSUME LaneInv, [Next]_vars
  PROVE  /\ \A i \in Job : record[i] = "durable" => record'[i] = "durable"
         /\ durable \subseteq durable'
         /\ approval' = approval
<1>1. ASSUME DirectorySync
      PROVE  /\ \A i \in Job : record[i] = "durable" => record'[i] = "durable"
             /\ durable \subseteq durable'
  BY <1>1, SyncKeeps DEF LaneInv, TypeOK
<1>2. ASSUME NEW j \in Job, record[j] # "durable", NEW s, record' = [record EXCEPT ![j] = s]
      PROVE  \A i \in Job : record[i] = "durable" => record'[i] = "durable"
  BY <1>2 DEF LaneInv, TypeOK
<1>3. ASSUME NEW j \in Job, Step(j) \/ Rerun(j)
      PROVE  /\ \A i \in Job : record[i] = "durable" => record'[i] = "durable"
             /\ durable \subseteq durable'
             /\ approval' = approval
  <2>1. CASE LockLedger(j) \/ CommitRecord(j) \/ SyncAuthorization(j) \/ SyncRunIdentity(j)
    BY <2>1, <1>1 DEF LockLedger, CommitRecord, SyncAuthorization, SyncRunIdentity, SyncIndex
  <2>2. CASE CreateRecord(j)
    BY <2>2, <1>2 DEF CreateRecord, Creatable
  <2>3. CASE WriteRecord(j)
    <3>1. record[j] = "created"
      BY <2>3 DEF WriteRecord, LaneInv, ProgressInv
    <3> QED BY <3>1, <2>3, <1>2 DEF WriteRecord
  <2>4. CASE SyncRecord(j)
    <3>1. record[j] = "written"
      BY <2>4 DEF SyncRecord, LaneInv, ProgressInv
    <3> QED BY <3>1, <2>4, <1>2 DEF SyncRecord
  <2>5. CASE \/ WindowGate(j) \/ Scan(j) \/ LinkAuthorization(j) \/ LinkRunIdentity(j)
             \/ CheckLinks(j) \/ RebindClaim(j) \/ ProviderAttempt(j) \/ Fail(j) \/ Rerun(j)
    BY <2>5 DEF WindowGate, Scan, LinkAuthorization, LinkRunIdentity, LinkIndex, CheckLinks,
         RebindClaim, ProviderAttempt, Fail, Rerun, ledger
  <2> QED BY <1>3, <2>1, <2>2, <2>3, <2>4, <2>5 DEF Step, Claim
<1>4. CASE PowerLoss
  <2>1. approval' = approval /\ durable' = durable
    BY <1>4 DEF PowerLoss
  <2>2. \A i \in Job : record[i] = "durable" => record'[i] = "durable"
    BY <1>4 DEF PowerLoss, AfterPowerLoss, Volatile
  <2> QED BY <2>1, <2>2
<1>5. CASE UNCHANGED vars
  BY <1>5 DEF vars, ledger
<1> QED BY <1>3, <1>4, <1>5 DEF Next, Terminated

\* Only a provider attempt uses an identity.
LEMMA CallsUnchanged ==
  ASSUME [Next]_vars, \A j \in Job : ~ProviderAttempt(j)
  PROVE  calls' = calls
<1>1. ASSUME NEW j \in Job, Step(j) \/ Rerun(j)
      PROVE  calls' = calls
  BY <1>1 DEF Step, Claim, WindowGate, LockLedger, Scan, CreateRecord, WriteRecord, SyncRecord,
       CommitRecord, LinkAuthorization, SyncAuthorization, LinkRunIdentity, SyncRunIdentity,
       LinkIndex, SyncIndex, CheckLinks, RebindClaim, Fail, Rerun
<1>2. CASE PowerLoss \/ UNCHANGED vars
  BY <1>2 DEF PowerLoss, vars
<1> QED BY <1>1, <1>2 DEF Next, Terminated

\* An identity is committed to one job, and to none if it was to another before.
LEMMA CommitStep ==
  ASSUME LaneInv, LaneInv', [Next]_vars, calls' = calls
  PROVE  Lane!Commit
<1>1. /\ \A i \in Job : record[i] = "durable" => record'[i] = "durable"
      /\ durable \subseteq durable' /\ approval' = approval
  BY CommittedStays
<1>2. ASSUME NEW n \in Name, ClaimOwner(n)' # ClaimOwner(n)
      PROVE  ClaimOwner(n) = {} /\ \E j \in Job : ClaimOwner(n)' = {j}
  <2>1. n[1] \in IndexKind
    BY DEF Name
  <2>2. ClaimOwner(n) \subseteq ClaimOwner(n)' /\ ClaimOwner(n)' \subseteq Job
    BY <1>1 DEF ClaimOwner
  <2>3. \A i, j \in ClaimOwner(n)' : i = j
    <3>1. \A i, j \in Job, k \in IndexKind :
             <<i, k>> \in durable' /\ <<j, k>> \in durable' /\ approval'[i][k] = approval'[j][k]
                => i = j
      BY DEF LaneInv, IndexInv, TypeOK
    <3> QED BY <2>1, <3>1 DEF ClaimOwner
  <2>4. PICK j \in ClaimOwner(n)' : j \notin ClaimOwner(n)
    BY <1>2, <2>2
  <2>5. ClaimOwner(n)' = {j} /\ j \in Job
    BY <2>2, <2>3, <2>4
  <2>6. ClaimOwner(n) = {}
    BY <2>2, <2>4, <2>5
  <2> QED BY <2>5, <2>6
<1>3. [n \in Name |-> ClaimUses(n)]' = [n \in Name |-> ClaimUses(n)]
  BY <1>1 DEF ClaimUses
<1>4. [n \in Name |-> ClaimOwner(n)]' \in [Name -> SUBSET Job]
  BY DEF ClaimOwner
<1> QED BY <1>2, <1>3, <1>4 DEF Lane!Commit, ClaimOwner, ClaimUses, Name

\* A provider attempt is the first use of both identities, by the job that owns them.
LEMMA SpendStep ==
  ASSUME LaneInv, LaneInv', NEW j \in Job, ProviderAttempt(j)
  PROVE  Lane!Spend(j, <<j, attempt[j]>>)
<1> DEFINE u == <<j, attempt[j]>>
<1>1. /\ calls' = calls \cup {u} /\ pc[j] = "requested"
      /\ UNCHANGED <<attempt, approval, record, durable>>
  BY DEF ProviderAttempt, ledger
<1>2. u[1] = j
  OBVIOUS
<1> HIDE DEF u
<1>3. /\ record[j] = "durable"
      /\ \A k \in IndexKind : <<j, k>> \in durable
  BY <1>1 DEF LaneInv, ProgressInv
<1>4. ASSUME NEW n \in Name, approval[j][n[1]] = n[2]
      PROVE  ClaimOwner(n) = {j} /\ ClaimUses(n) = {} /\ ClaimUses(n)' = {u}
  <2>1. n[1] \in IndexKind
    BY DEF Name
  <2>2. \A i \in Job : <<i, n[1]>> \in durable /\ approval[i][n[1]] = n[2] => i = j
    <3>1. \A i, h \in Job, k \in IndexKind :
             <<i, k>> \in links /\ <<h, k>> \in links /\ approval[i][k] = approval[h][k] => i = h
      BY DEF LaneInv, IndexInv
    <3>2. durable \subseteq links
      BY DEF LaneInv, TypeOK
    <3> QED BY <1>3, <1>4, <2>1, <3>1, <3>2
  <2>3. ClaimOwner(n) = {j}
    BY <1>3, <1>4, <2>1, <2>2 DEF ClaimOwner
  <2>4. ASSUME NEW c \in calls, approval[c[1]][n[1]] = n[2] PROVE FALSE
    <3>1. c[1] \in Job /\ <<c[1], n[1]>> \in durable /\ pc[c[1]] \in Outside
      BY <2>1 DEF LaneInv, CallInv, TypeOK
    <3>2. c[1] = j
      BY <2>2, <2>4, <3>1
    <3> QED BY <1>1, <3>1, <3>2
  <2>5. ClaimUses(n) = {}
    BY <2>4 DEF ClaimUses
  <2>6. ClaimUses(n)' = {u}
    BY <1>1, <1>2, <1>4, <2>4 DEF ClaimUses
  <2> QED BY <2>3, <2>5, <2>6
<1>5. ASSUME NEW n \in Name, approval[j][n[1]] # n[2]
      PROVE  ClaimUses(n)' = ClaimUses(n)
  BY <1>1, <1>2, <1>5 DEF ClaimUses
<1>6. \A n \in Name : ClaimUses(n)' # ClaimUses(n) =>
          ClaimOwner(n) = {j} /\ ClaimUses(n) = {} /\ ClaimUses(n)' = {u}
  BY <1>4, <1>5
<1>7. [n \in Name |-> ClaimUses(n)]' \in [Name -> SUBSET (Job \X (1..MaxAttempts))]
  <2>1. calls' \subseteq Job \X (1..MaxAttempts)
    BY DEF LaneInv, TypeOK
  <2> QED BY <2>1 DEF ClaimUses
<1>8. [n \in Name |-> ClaimOwner(n)]' = [n \in Name |-> ClaimOwner(n)]
  BY <1>1 DEF ClaimOwner
<1> QED BY <1>6, <1>7, <1>8 DEF Lane!Spend, ClaimOwner, ClaimUses, Name, u

\* OneShot over the ledger: an authorization or a run identity is committed to one
\* job, for good, and used by at most one provider attempt of the job that owns both,
\* over overlapping jobs, reruns, failures at every step and power losses.
THEOREM LaneImplements == Spec => LaneIsOneShot
<1>1. Init => Lane!Init
  <2> SUFFICES ASSUME Init PROVE Lane!Init
    OBVIOUS
  <2>1. \A j \in Job : record[j] # "durable"
    BY DEF Init
  <2>2. calls = {}
    BY DEF Init
  <2> QED BY <2>1, <2>2 DEF Lane!Init
<1>2. LaneInv /\ LaneInv' /\ [Next]_vars => Lane!Next \/ UNCHANGED Lane!vars
  <2> SUFFICES ASSUME LaneInv, LaneInv', [Next]_vars
               PROVE  Lane!Next
    OBVIOUS
  <2>1. ASSUME NEW j \in Job, ProviderAttempt(j)
        PROVE  Lane!Next
    <3>1. <<j, attempt[j]>> \in Job \X (1..MaxAttempts)
      BY DEF LaneInv, TypeOK
    <3>2. Lane!Spend(j, <<j, attempt[j]>>)
      BY <2>1, SpendStep
    <3> DEFINE v == <<j, attempt[j]>>
    <3> HIDE DEF v
    <3>3. \E c \in Job, w \in Job \X (1..MaxAttempts) : Lane!Spend(c, w)
      <4>1. v \in Job \X (1..MaxAttempts)
        BY <3>1 DEF v
      <4>2. Lane!Spend(j, v)
        BY <3>2, Zenon DEF v
      <4> QED BY <4>1, <4>2 DEF Lane!Spend
    <3> QED BY <3>3 DEF Lane!Next
  <2>2. CASE \A j \in Job : ~ProviderAttempt(j)
    BY <2>2, CallsUnchanged, CommitStep DEF Lane!Next
  <2> QED BY <2>1, <2>2
<1> QED BY <1>1, <1>2, LaneInvariant, PTL DEF Spec, LaneIsOneShot, Lane!Spec

=============================================================================
