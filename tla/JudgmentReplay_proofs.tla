------------------------ MODULE JudgmentReplay_proofs ------------------------
(***************************************************************************)
(* The three promises of a judgment replay, for every number of            *)
(* invocations, planned records and faults.                                *)
(*                                                                         *)
(* A power loss may undo any name that no fsync has committed, so the      *)
(* argument is about what a file may hold after it (Possible).  One        *)
(* invocation at a time is behind the directory it made (OwnerInv); until  *)
(* something raises, what is committed is what its memory says and the     *)
(* file it is writing is the only other one (CleanInv); afterwards it only *)
(* adds a receipt that counts what it found (ClosingInv), and what then    *)
(* stands on disk is not touched again (RestInv).                          *)
(***************************************************************************)
EXTENDS JudgmentReplay, TLAPS

Setup == {"preflight", "journal0", "records0", "audit0", "start"}
Closing == {"leakage", "resource", "checks", "end", "receipt", "manifest", "return"}
Operation == {"gate", "directory", "check", "decide", "started", "entries"}
                 \cup Setup \cup Replacing \cup Closing \cup Over

\* What a file holds, or may hold after a power loss.
Possible(f) == disk[f] \cup safe[f]

\* Behind the directory it made.
Busy(p) == /\ at[p] \notin {"gate"} \cup Over
           /\ at[p] = "directory" => part[p] = "sync"

Claims(p) == Busy(p) \/ calls[p] > 0

ReplayType ==
    /\ at \in [Invocation -> Operation]
    /\ part \in [Invocation -> {"check", "replace", "sync"}]
    /\ \A p \in Invocation : at[p] \notin Write \cup {"killed"} => part[p] = "check"
    /\ \A p \in Invocation : at[p] = "directory" => part[p] # "replace"
    /\ journal \in [Invocation -> Nat] /\ calls \in [Invocation -> Nat]
    /\ delivered \in [Invocation -> Nat] /\ failed \in [Invocation -> BOOLEAN]
    /\ receipt = [p \in Invocation |-> receipt[p]]
    /\ result = [p \in Invocation |-> result[p]]
    /\ disk = [f \in File |-> disk[f]] /\ safe = [f \in File |-> safe[f]]
    /\ \A f \in File : \A x, y \in disk[f] : x = y
    /\ \A f \in File : \A x, y \in safe[f] : x = y

OwnerInv ==
    /\ \A p, q \in Invocation : Claims(p) /\ Claims(q) => p = q
    /\ \A p \in Invocation : Claims(p) => disk["directory"] # {}
    /\ \A p \in Invocation : Claims(p) /\ (calls[p] > 0 \/ at[p] # "directory") =>
                                 safe["directory"] # {}
    /\ safe["directory"] # {} => disk["directory"] # {}
    /\ \A f \in File \ {"directory"} : Possible(f) # {} => safe["directory"] # {}

\* What is committed, by the progress of the invocation that commits it.
Committed(p, f) ==
    CASE f = "journal" -> IF at[p] \in {"directory", "preflight", "journal0"}
                          THEN {} ELSE {journal[p]}
      [] f = "records" -> IF at[p] \in {"directory", "preflight", "journal0", "records0"}
                          THEN {} ELSE {delivered[p]}
      [] f = "audit" -> IF at[p] \in {"directory", "preflight", "journal0", "records0", "audit0"}
                        THEN {}
                        ELSE {IF at[p] = "audit" THEN delivered[p] - 1 ELSE delivered[p]}
      [] f = "start" -> IF at[p] \in {"directory"} \cup Setup THEN {} ELSE {0}
      [] f = "receipt" -> IF at[p] \in {"manifest", "return"} THEN {receipt[p]} ELSE {}

\* The file of a write that is not yet synchronised is ahead of what is committed.
Tracks(p, f) ==
    /\ safe[f] = Committed(p, f)
    /\ disk[f] = IF at[p] \in Write /\ part[p] = "sync" /\ Target[at[p]] = f
                 THEN {Content(p)} ELSE safe[f]

Counts(p) ==
    /\ journal[p] = delivered[p] + (IF at[p] = "records" THEN 1 ELSE 0)
    /\ calls[p] = journal[p] + (IF at[p] = "journal" THEN 1 ELSE 0)
    /\ at[p] = "audit" => delivered[p] > 0

CleanInv ==
    /\ \A p \in Invocation : at[p] \in {"gate", "directory"} \cup Setup =>
          calls[p] = 0 /\ journal[p] = 0 /\ delivered[p] = 0 /\ ~failed[p]
    /\ \A p \in Invocation : Busy(p) /\ ~failed[p] =>
          /\ Counts(p)
          /\ \A f \in Replacing \cup {"start"} : Tracks(p, f)
    /\ \A p \in Invocation : Busy(p) /\ failed[p] =>
          at[p] \in {"started", "entries"} \cup Closing

ClosingInv ==
    \A p \in Invocation : Busy(p) =>
        /\ Tracks(p, "receipt")
        /\ failed[p] /\ at[p] = "started" /\ disk["start"] = {} => Possible("journal") \subseteq {0}
        /\ at[p] = "leakage" => disk["journal"] \subseteq {receipt[p].count}
        /\ at[p] \in Closing \ {"leakage"} => Possible("journal") \subseteq {receipt[p].count}
        /\ at[p] \in Closing /\ receipt[p].status = "PASS" =>
              /\ calls[p] = Planned
              /\ \A f \in Replacing : disk[f] = {Planned} /\ safe[f] = {Planned}
        /\ at[p] = "manifest" /\ part[p] = "sync" => disk["manifest"] # {}
        /\ at[p] = "return" => disk["manifest"] # {} /\ safe["manifest"] # {}

RestInv ==
    /\ \A j \in Possible("journal"), r \in Possible("records"), a \in Possible("audit") :
          a <= r /\ r <= j /\ j <= a + 1
    /\ \A r \in Possible("receipt"), j \in Possible("journal") : r.count = j
    /\ \A r \in Possible("receipt") : r.status = "PASS" =>
          /\ \A f \in Replacing : disk[f] = {Planned} /\ safe[f] = {Planned}
          /\ \E p \in Invocation : calls[p] = Planned /\ receipt[p] = r
    /\ \A p \in Invocation : result[p] = "PASS" =>
          /\ at[p] = "returned" /\ calls[p] = Planned
          /\ disk["receipt"] = {receipt[p]} /\ safe["receipt"] = {receipt[p]}
          /\ disk["manifest"] # {} /\ safe["manifest"] # {}

JournalInv == ReplayType /\ OwnerInv /\ CleanInv /\ ClosingInv /\ RestInv

----------------------------------------------------------------------------
(* The tables of the module *)

LEMMA Tables ==
  /\ Write = {"directory", "preflight", "journal0", "records0", "audit0", "start", "journal",
              "records", "audit", "leakage", "resource", "checks", "end", "receipt", "manifest"}
  /\ File = {"directory", "preflight", "journal", "records", "audit", "start", "leakage",
             "resource", "checks", "end", "receipt", "manifest"}
  /\ \A op \in {"directory", "preflight", "start", "journal", "records", "audit", "leakage",
                 "resource", "checks", "end", "receipt", "manifest"} : Target[op] = op
  /\ Target["journal0"] = "journal" /\ Target["records0"] = "records"
  /\ Target["audit0"] = "audit"
BY DEF Target, Write, File

LEMMA JournalStart == Init => JournalInv
<1> SUFFICES ASSUME Init PROVE JournalInv
  OBVIOUS
<1>1. \A p \in Invocation : ~Busy(p) /\ ~Claims(p)
  BY DEF Init, Busy, Claims, Over
<1>2. ReplayType
  BY Tables DEF Init, ReplayType, Operation, Unbuilt
<1>3. \A f \in File : Possible(f) = {}
  BY DEF Init, Possible
<1>4. OwnerInv
  BY <1>1, <1>3, Tables DEF Init, OwnerInv
<1>5. CleanInv /\ ClosingInv
  BY <1>1 DEF Init, CleanInv, ClosingInv, Setup
<1>6. RestInv
  BY <1>3, Tables DEF Init, RestInv
<1> QED BY <1>2, <1>4, <1>5, <1>6 DEF JournalInv

----------------------------------------------------------------------------
(* The owner *)

\* A step of the invocation that is behind the committed directory.
LEMMA OwnerActs ==
  ASSUME OwnerInv, NEW p \in Invocation, Busy(p), at[p] # "directory",
         \A q \in Invocation \ {p} :
             at'[q] = at[q] /\ part'[q] = part[q] /\ calls'[q] = calls[q],
         at'[p] # "directory",
         disk'["directory"] = disk["directory"],
         safe'["directory"] = safe["directory"] \/ safe'["directory"] = disk["directory"]
  PROVE  OwnerInv' /\ \A q \in Invocation : Busy(q)' => q = p
<1>1. Claims(p) /\ safe["directory"] # {} /\ safe'["directory"] # {} /\ disk'["directory"] # {}
  BY DEF OwnerInv, Claims
<1>2. \A q \in Invocation \ {p} : Claims(q)' => Claims(q)
  BY DEF Claims, Busy
<1>3. \A q \in Invocation : Claims(q)' => q = p
  BY <1>1, <1>2 DEF OwnerInv
<1> QED BY <1>1, <1>3 DEF OwnerInv, Claims

----------------------------------------------------------------------------
(* Steps that write nothing *)

\* What an invocation that does not move has written is what it had written.
LEMMA Unmoved ==
  ASSUME NEW q \in Invocation, at'[q] = at[q], part'[q] = part[q], journal'[q] = journal[q],
         calls'[q] = calls[q], delivered'[q] = delivered[q], receipt'[q] = receipt[q],
         UNCHANGED files
  PROVE  /\ Counts(q) => Counts(q)'
         /\ \A f \in File : Tracks(q, f) => Tracks(q, f)'
<1>1. Counts(q) => Counts(q)'
  BY DEF Counts
<1>2. ASSUME NEW f \in File PROVE Content(q)' = Content(q) /\ Committed(q, f)' = Committed(q, f)
  BY DEF Content, Committed
<1>3. ASSUME NEW f \in File PROVE Tracks(q, f) => Tracks(q, f)'
  BY <1>2 DEF Tracks, files
<1> QED BY <1>1, <1>3

\* replay returns, or its process is killed.
LEMMA StopKeeps ==
  ASSUME JournalInv, NEW p \in Invocation, at[p] \notin Over,
         NEW over \in Over, at' = [at EXCEPT ![p] = over],
         part' = part \/ part' = [part EXCEPT ![p] = "check"],
         over = "returned" => part'[p] = "check",
         UNCHANGED <<journal, calls, delivered, failed, receipt, files>>,
         result' = [q \in Invocation |-> result'[q]],
         \A q \in Invocation : result'[q] = "PASS" =>
             \/ result[q] = "PASS"
             \/ q = p /\ over = "returned" /\ at[p] = "return" /\ receipt[p].status = "PASS"
  PROVE  JournalInv'
<1>1. ReplayType'
  <2>1. at' \in [Invocation -> Operation]
    BY DEF JournalInv, ReplayType, Operation, Over
  <2>2. /\ part' \in [Invocation -> {"check", "replace", "sync"}]
        /\ \A q \in Invocation : part'[q] = part[q] \/ part'[q] = "check"
        /\ \A q \in Invocation \ {p} : at'[q] = at[q] /\ part'[q] = part[q]
        /\ at'[p] = over
    BY DEF JournalInv, ReplayType
  <2>3. \A q \in Invocation : /\ at'[q] \notin Write \cup {"killed"} => part'[q] = "check"
                              /\ at'[q] = "directory" => part'[q] # "replace"
    BY <2>2 DEF JournalInv, ReplayType, Over
  <2>4. UNCHANGED <<journal, calls, delivered, failed, receipt, disk, safe>>
    BY DEF files
  <2> QED BY <2>1, <2>2, <2>3, <2>4 DEF JournalInv, ReplayType
<1>2. at \in [Invocation -> Operation]
  BY DEF JournalInv, ReplayType
<1>3. at'[p] \in Over /\ \A q \in Invocation \ {p} : at'[q] = at[q] /\ part'[q] = part[q]
  BY <1>2 DEF JournalInv, ReplayType
<1>4. \A q \in Invocation : Busy(q)' => q # p /\ Busy(q)
  BY <1>3 DEF Busy
<1>5. \A q \in Invocation : Claims(q)' => Claims(q) /\ (q = p => calls[q] > 0)
  BY <1>4 DEF Claims
<1>6. disk' = disk /\ safe' = safe /\ \A f \in File : Possible(f)' = Possible(f)
  BY DEF files, Possible
<1>7. OwnerInv'
  BY <1>3, <1>5, <1>6 DEF JournalInv, OwnerInv
<1>8. CleanInv'
  <2>1. \A q \in Invocation : Busy(q)' =>
             /\ Counts(q) => Counts(q)'
             /\ \A f \in File : Tracks(q, f) => Tracks(q, f)'
    BY <1>3, <1>4, Unmoved DEF memory
  <2>2. at'[p] \notin {"gate", "directory"} \cup Setup
    BY <1>3 DEF Over, Setup
  <2> QED BY <1>3, <1>4, <2>1, <2>2, Tables DEF JournalInv, CleanInv, Replacing
<1>9. ClosingInv'
  <2>1. \A q \in Invocation : Busy(q)' => (Tracks(q, "receipt") => Tracks(q, "receipt")')
    BY <1>3, <1>4, Tables, Unmoved DEF memory
  <2> QED BY <1>3, <1>4, <1>6, <2>1, Tables DEF JournalInv, ClosingInv
<1>10. RestInv'
  <2>1. ASSUME at[p] = "return", receipt[p].status = "PASS"
        PROVE  /\ calls[p] = Planned
               /\ disk["receipt"] = {receipt[p]} /\ safe["receipt"] = {receipt[p]}
               /\ disk["manifest"] # {} /\ safe["manifest"] # {}
    <3>1. Busy(p) /\ at[p] \in Closing
      BY <2>1 DEF Busy, Over, Closing
    <3>2. calls[p] = Planned /\ disk["manifest"] # {} /\ safe["manifest"] # {}
      BY <2>1, <3>1 DEF JournalInv, ClosingInv
    <3>3. Tracks(p, "receipt")
      BY <3>1 DEF JournalInv, ClosingInv
    <3>4. Committed(p, "receipt") = {receipt[p]} /\ at[p] \notin Write
      BY <2>1, Tables DEF Committed
    <3> QED BY <3>2, <3>3, <3>4 DEF Tracks
  <2> QED BY <1>3, <1>6, <2>1, Tables DEF JournalInv, RestInv, Over, Possible
<1> QED BY <1>1, <1>7, <1>8, <1>9, <1>10 DEF JournalInv

\* The checks before the directory is made.
LEMMA GateKeeps ==
  ASSUME JournalInv, NEW p \in Invocation, PassGate(p) \/ FailGate(p)
  PROVE  JournalInv'
<1>1. CASE FailGate(p)
  <2>1. result' = [q \in Invocation |-> result'[q]]
           /\ \A q \in Invocation : result'[q] = "PASS" => result[q] = "PASS"
    BY <1>1 DEF FailGate, Return, JournalInv, ReplayType
  <2>2. part[p] = "check"
    BY <1>1, Tables DEF FailGate, JournalInv, ReplayType
  <2> QED BY <1>1, <2>1, <2>2, StopKeeps DEF FailGate, Return, Goto, memory, Over
<1>2. CASE PassGate(p)
  <2>1. /\ at' = [at EXCEPT ![p] = "directory"] /\ at[p] = "gate" /\ part[p] = "check"
        /\ UNCHANGED <<part, memory, result, files>>
    BY <1>2, Tables DEF PassGate, Goto, JournalInv, ReplayType
  <2>2. \A q \in Invocation \ {p} : at'[q] = at[q]
    BY <2>1 DEF JournalInv, ReplayType
  <2>3. at'[p] = "directory" /\ ~Busy(p)'
    BY <2>1 DEF JournalInv, ReplayType, Busy
  <2>4. \A q \in Invocation : Busy(q)' => q # p /\ Busy(q)
    BY <2>1, <2>2, <2>3 DEF Busy
  <2>5. \A q \in Invocation : Claims(q)' => Claims(q)
    BY <2>1, <2>4 DEF Claims, memory
  <2>6. calls[p] = 0
    BY <2>1 DEF JournalInv, CleanInv
  <2>7. ReplayType'
    BY <2>1, Tables DEF JournalInv, ReplayType, Operation, memory, files
  <2>8. OwnerInv'
    <3>1. \A q \in Invocation : Claims(q)' => q # p
      BY <2>1, <2>3, <2>6 DEF Claims, memory
    <3> QED BY <2>1, <2>2, <2>5, <3>1 DEF JournalInv, OwnerInv, memory, files, Possible
  <2>9. CleanInv'
    <3>1. \A q \in Invocation : Busy(q)' =>
             /\ Counts(q) => Counts(q)'
             /\ \A f \in File : Tracks(q, f) => Tracks(q, f)'
      BY <2>1, <2>2, <2>4, Unmoved DEF memory
    <3> QED BY <2>1, <2>2, <2>3, <2>4, <3>1, Tables DEF JournalInv, CleanInv, Replacing, memory
  <2>10. ClosingInv'
    <3>1. \A q \in Invocation : Busy(q)' => (Tracks(q, "receipt") => Tracks(q, "receipt")')
      BY <2>1, <2>2, <2>4, Tables, Unmoved DEF memory
    <3> QED BY <2>1, <2>2, <2>4, <3>1, Tables
            DEF JournalInv, ClosingInv, Possible, memory, files
  <2>11. RestInv'
    BY <2>1, <2>2 DEF JournalInv, RestInv, Possible, memory, files
  <2> QED BY <2>7, <2>8, <2>9, <2>10, <2>11 DEF JournalInv
<1> QED BY <1>1, <1>2

\* The next part of a write, the drift check and the count of a decision: the journal
\* and its projections stay what memory says.
LEMMA ProgressKeeps ==
  ASSUME JournalInv, NEW p \in Invocation, CheckTarget(p) \/ CheckDrift(p) \/ Decide(p)
  PROVE  JournalInv'
<1>1. /\ \A q \in Invocation \ {p} : at'[q] = at[q] /\ part'[q] = part[q] /\ calls'[q] = calls[q]
      /\ UNCHANGED <<journal, delivered, failed, receipt, result, files>>
      /\ Busy(p) \/ at[p] = "directory"
      /\ \/ at'[p] = at[p] /\ at[p] \in Write \ {"directory"} /\ part'[p] = "replace"
            /\ part[p] = "check" /\ calls'[p] = calls[p]
         \/ at[p] = "check" /\ at'[p] = "decide" /\ part'[p] = part[p] /\ calls'[p] = calls[p]
         \/ at[p] = "decide" /\ at'[p] = "journal" /\ part'[p] = part[p]
            /\ calls'[p] = calls[p] + 1
  BY Tables DEF JournalInv, ReplayType, CheckTarget, CheckDrift, Decide, Goto, memory, Busy, Over
<1>2. /\ Busy(p) /\ at[p] # "directory" /\ at'[p] # "directory" /\ Busy(p)'
      /\ part'[p] # "sync" /\ part[p] # "sync"
  BY <1>1, Tables DEF Busy, Over, JournalInv, ReplayType
<1>3. disk' = disk /\ safe' = safe /\ \A f \in File : Possible(f)' = Possible(f)
  BY <1>1 DEF files, Possible
<1>4. ReplayType'
  BY <1>1, Tables DEF JournalInv, ReplayType, Operation, Replacing,
     CheckTarget, CheckDrift, Decide, Goto, files, memory
<1>5. OwnerInv' /\ \A q \in Invocation : Busy(q)' => q = p
  BY <1>1, <1>2, <1>3, OwnerActs DEF JournalInv
<1>6. /\ ~failed[p] => Counts(p)' /\ \A f \in Replacing \cup {"start"} : Tracks(p, f)'
      /\ Tracks(p, "receipt")'
  <2>1. \A f \in {"journal", "records", "audit", "start", "receipt"} :
           Tracks(p, f) => Tracks(p, f)'
    BY <1>1, <1>2, <1>3, Tables DEF Tracks, Committed, Setup
  <2>2. journal[p] \in Nat /\ calls[p] \in Nat
    BY DEF JournalInv, ReplayType
  <2>3. Counts(p) => Counts(p)'
    BY <1>1, <2>2, Tables DEF Counts
  <2> QED BY <1>2, <2>1, <2>3 DEF JournalInv, CleanInv, ClosingInv, Replacing
<1>7. CleanInv'
  <2>1. at'[p] \in {"gate", "directory"} \cup Setup => at'[p] = at[p] /\ calls'[p] = calls[p]
    BY <1>1 DEF Setup
  <2>2. failed[p] => at'[p] \in {"started", "entries"} \cup Closing
    BY <1>1, <1>2 DEF JournalInv, CleanInv, Closing
  <2> QED BY <1>1, <1>5, <1>6, <2>1, <2>2 DEF JournalInv, CleanInv
<1>8. ClosingInv'
  <2>1. at'[p] \in Closing \cup {"started"} => at'[p] = at[p] /\ calls'[p] = calls[p]
    BY <1>1 DEF Closing
  <2> QED BY <1>1, <1>2, <1>3, <1>5, <1>6, <2>1, Tables DEF JournalInv, ClosingInv, Closing
<1>9. RestInv'
  <2>1. at[p] = "decide" => Possible("receipt") = {}
    <3> SUFFICES ASSUME at[p] = "decide" PROVE Possible("receipt") = {}
      OBVIOUS
    <3>1. Tracks(p, "receipt")
      BY <1>2 DEF JournalInv, ClosingInv
    <3>2. Committed(p, "receipt") = {} /\ at[p] \notin Write
      BY Tables DEF Committed
    <3> QED BY <3>1, <3>2 DEF Tracks, Possible
  <2>2. calls'[p] = calls[p] \/ Possible("receipt") = {}
    BY <1>1, <2>1
  <2>3. result[p] # "PASS"
    BY <1>2 DEF JournalInv, RestInv, Busy, Over
  <2> QED BY <1>1, <1>3, <2>2, <2>3, Tables DEF JournalInv, RestInv, Possible
<1> QED BY <1>4, <1>5, <1>7, <1>8, <1>9 DEF JournalInv

\* The receipt is built: what it says is read from the disk, and PASS only follows a
\* replay in which nothing raised.
LEMMA VerdictKeeps ==
  ASSUME JournalInv, NEW p \in Invocation,
         Started(p) \/ ReadDurableTruth(p) \/ EndUnavailable(p)
  PROVE  JournalInv'
<1>1. /\ at' = [at EXCEPT ![p] = at'[p]]
      /\ UNCHANGED <<part, journal, calls, delivered, failed, result, files>>
      /\ receipt' = [receipt EXCEPT ![p] = receipt'[p]]
      /\ \/ at[p] = "started" /\ at'[p] = "entries" /\ disk["start"] # {}
         \/ at[p] = "started" /\ at'[p] = "receipt" /\ disk["start"] = {}
            /\ receipt'[p].count = 0 /\ receipt'[p].status = "PRESTART"
         \/ at[p] = "entries" /\ at'[p] = "leakage"
            /\ \E e \in disk["journal"] :
                  /\ receipt'[p].count = e
                  /\ receipt'[p].status = "PASS" => Complete(p, e)
  <2>1. at \in [Invocation -> Operation] /\ receipt = [q \in Invocation |-> receipt[q]]
    BY DEF JournalInv, ReplayType
  <2>2. CASE Started(p)
    BY <2>1, <2>2 DEF Started, Exists, Goto
  <2>3. CASE ReadDurableTruth(p) \/ EndUnavailable(p)
    <3>1. PICK e \in disk["journal"] : Conclude(p, Complete(p, e), e) \/ Conclude(p, FALSE, e)
      BY <2>3 DEF ReadDurableTruth, EndUnavailable
    <3>2. at[p] = "entries"
      BY <2>3 DEF ReadDurableTruth, EndUnavailable
    <3> QED BY <2>1, <3>1, <3>2 DEF Conclude, Goto
  <2> QED BY <2>2, <2>3
<1>2. /\ at'[p] \in {"entries", "receipt", "leakage"} /\ part[p] = "check" /\ part' = part
      /\ \A q \in Invocation \ {p} : at'[q] = at[q] /\ receipt'[q] = receipt[q]
  BY <1>1, Tables DEF JournalInv, ReplayType
<1>3. Busy(p) /\ at[p] # "directory" /\ at'[p] # "directory" /\ Busy(p)'
  BY <1>1, <1>2 DEF Busy, Over
<1>4. disk' = disk /\ safe' = safe /\ \A f \in File : Possible(f)' = Possible(f)
  BY <1>1 DEF files, Possible
<1>5. ReplayType'
  <2>1. at' \in [Invocation -> Operation]
    BY <1>1, <1>2 DEF JournalInv, ReplayType, Operation, Closing
  <2>2. receipt' = [q \in Invocation |-> receipt'[q]]
    BY <1>1 DEF JournalInv, ReplayType
  <2> QED BY <1>1, <1>2, <2>1, <2>2 DEF JournalInv, ReplayType, files
<1>6. OwnerInv' /\ \A q \in Invocation : Busy(q)' => q = p
  BY <1>1, <1>2, <1>3, <1>4, OwnerActs DEF JournalInv
<1>7. /\ \A f \in {"journal", "records", "audit", "start"} : Tracks(p, f) => Tracks(p, f)'
      /\ Tracks(p, "receipt")' /\ Possible("receipt") = {}
  <2>1. Tracks(p, "receipt") /\ at[p] \in {"started", "entries"}
    BY <1>1, <1>3 DEF JournalInv, ClosingInv
  <2>2. disk["receipt"] = {} /\ safe["receipt"] = {}
    BY <2>1, Tables DEF Tracks, Committed
  <2>3. Tracks(p, "receipt")'
    BY <1>2, <1>4, <2>2, Tables DEF Tracks, Committed
  <2>4. \A f \in {"journal", "records", "audit", "start"} : Committed(p, f)' = Committed(p, f)
    <3>1. at[p] \notin {"directory", "audit"} \cup Setup
      BY <2>1 DEF Setup
    <3>2. at'[p] \notin {"directory", "audit"} \cup Setup
      BY <1>2 DEF Setup
    <3> QED BY <1>1, <3>1, <3>2 DEF Committed, Setup
  <2>5. \A f \in {"journal", "records", "audit", "start"} : Tracks(p, f) => Tracks(p, f)'
    BY <1>2, <1>4, <2>1, <2>4 DEF Tracks
  <2> QED BY <2>2, <2>3, <2>5 DEF Possible
<1>8. CleanInv'
  <2>1. Counts(p) => Counts(p)'
    BY <1>1 DEF Counts
  <2>2. at'[p] \notin {"gate", "directory"} \cup Setup
    BY <1>2 DEF Setup
  <2>3. ~failed[p] => at'[p] # "receipt"
    BY <1>1, <1>3, Tables DEF JournalInv, CleanInv, Tracks, Committed, Setup
  <2> QED BY <1>1, <1>2, <1>3, <1>6, <1>7, <2>1, <2>2 DEF JournalInv, CleanInv, Replacing, Closing
<1>9. ClosingInv'
  <2>1. at'[p] = "leakage" => disk["journal"] \subseteq {receipt'[p].count}
    BY <1>1, Tables DEF JournalInv, ReplayType
  <2>2. at'[p] = "receipt" => Possible("journal") \subseteq {receipt'[p].count}
    <3>1. ASSUME at'[p] = "receipt" PROVE failed[p] /\ receipt'[p].count = 0
      BY <1>1, <1>3, <3>1, Tables DEF JournalInv, CleanInv, Tracks, Committed, Setup
    <3> QED BY <1>1, <1>3, <3>1 DEF JournalInv, ClosingInv
  <2>3. ASSUME receipt'[p].status = "PASS", at'[p] \in Closing
        PROVE  calls[p] = Planned /\ \A f \in Replacing : disk[f] = {Planned} /\ safe[f] = {Planned}
    <3>1. PICK e \in disk["journal"] : Complete(p, e) /\ at[p] = "entries"
      BY <1>1, <2>3 DEF Closing
    <3>2. ~failed[p] /\ calls[p] = Planned /\ e = Planned /\ delivered[p] = Planned
      BY <3>1 DEF Complete
    <3>3. Counts(p) /\ \A f \in Replacing : Tracks(p, f)
      BY <1>3, <3>2 DEF JournalInv, CleanInv
    <3>4. journal[p] = Planned
      BY <3>1, <3>2, <3>3 DEF Counts, JournalInv, ReplayType
    <3> QED BY <3>1, <3>2, <3>3, <3>4, Tables DEF Tracks, Committed, Replacing
  <2>4. at'[p] \notin {"started", "manifest", "return"}
    BY <1>2
  <2>5. at'[p] \in Closing \ {"leakage"} => at'[p] = "receipt"
    BY <1>2 DEF Closing
  <2>6. calls' = calls /\ disk' = disk /\ safe' = safe /\ Possible("journal")' = Possible("journal")
    BY <1>1, <1>4 DEF Possible
  <2> QED BY <1>6, <1>7, <2>1, <2>2, <2>3, <2>4, <2>5, <2>6 DEF ClosingInv
<1>10. RestInv'
  <2>1. result[p] # "PASS"
    BY <1>1 DEF JournalInv, RestInv
  <2> QED BY <1>1, <1>2, <1>4, <1>7, <2>1, Tables DEF JournalInv, RestInv
<1> QED BY <1>5, <1>6, <1>8, <1>9, <1>10 DEF JournalInv

\* An exception before the receipt leads to it, with the code set; a later one ends
\* replay. What was written stays.
LEMMA RaiseKeeps ==
  ASSUME JournalInv, NEW p \in Invocation, at[p] \notin {"gate"} \cup Over, Raise(p),
         \/ calls' = calls
         \/ at[p] = "decide" /\ calls' = [calls EXCEPT ![p] = @ + 1]
  PROVE  JournalInv'
<1>1. CASE at[p] \notin Guarded
  <2>1. /\ at' = [at EXCEPT ![p] = "returned"]
        /\ result' = [result EXCEPT ![p] = IF Exists("start") THEN "NOT_EVALUABLE" ELSE "PRESTART"]
        /\ UNCHANGED <<journal, delivered, failed, receipt, files>>
        /\ part' = [part EXCEPT ![p] = "check"]
    BY <1>1 DEF Raise, Return, Goto
  <2>2. result' = [q \in Invocation |-> result'[q]]
           /\ \A q \in Invocation : result'[q] = "PASS" => result[q] = "PASS"
    BY <2>1 DEF JournalInv, ReplayType
  <2>3. calls' = calls
    BY <1>1 DEF Guarded
  <2>4. part'[p] = "check"
    BY <2>1 DEF JournalInv, ReplayType
  <2> QED BY <2>1, <2>2, <2>3, <2>4, StopKeeps DEF Over
<1>2. CASE at[p] \in Guarded
  <2>1. /\ at' = [at EXCEPT ![p] = "started"] /\ part' = [part EXCEPT ![p] = "check"]
        /\ failed' = [failed EXCEPT ![p] = TRUE]
        /\ UNCHANGED <<journal, delivered, receipt, result, files>>
    BY <1>2 DEF Raise, Goto
  <2>2. /\ \A q \in Invocation \ {p} : at'[q] = at[q] /\ part'[q] = part[q]
                                      /\ calls'[q] = calls[q] /\ failed'[q] = failed[q]
        /\ at'[p] = "started" /\ failed'[p] /\ part'[p] = "check"
    BY <2>1 DEF JournalInv, ReplayType
  <2>3. Busy(p) /\ at[p] # "directory"
    BY <1>2 DEF Busy, Guarded, Replacing, Over
  <2>4. disk' = disk /\ safe' = safe /\ \A f \in File : Possible(f)' = Possible(f)
    BY <2>1 DEF files, Possible
  <2>5. ReplayType'
    BY <2>1, <2>2, Tables DEF JournalInv, ReplayType, Operation, files
  <2>6. OwnerInv' /\ \A q \in Invocation : Busy(q)' => q = p
    BY <2>2, <2>3, <2>4, OwnerActs DEF JournalInv
  <2>7. at[p] \notin {"started", "entries"} \cup Closing /\ ~failed[p]
    BY <1>2, <2>3 DEF Guarded, Replacing, Closing, JournalInv, CleanInv
  <2>8. CleanInv'
    BY <2>1, <2>2, <2>6 DEF JournalInv, CleanInv, Setup
  <2>9. Possible("receipt") = {}
    BY <1>2, <2>3, Tables
    DEF JournalInv, ClosingInv, Tracks, Committed, Guarded, Replacing, Possible
  <2>10. ClosingInv'
    <3>1. Tracks(p, "receipt")'
      BY <2>2, <2>4, <2>9 DEF Tracks, Committed, Possible
    <3>2. disk["start"] = {} => Possible("journal") \subseteq {0}
      <4> SUFFICES ASSUME disk["start"] = {} PROVE Possible("journal") \subseteq {0}
        OBVIOUS
      <4>1. \A f \in Replacing \cup {"start"} : Tracks(p, f)
        BY <2>3, <2>7 DEF JournalInv, CleanInv
      <4>2. at[p] \in Setup
        <5>1. Tracks(p, "start")
          BY <4>1
        <5> QED BY <1>2, <2>3, <5>1, Tables DEF Tracks, Committed, Guarded, Replacing, Setup
      <4>3. journal[p] = 0
        BY <4>2 DEF JournalInv, CleanInv
      <4>4. Tracks(p, "journal")
        BY <4>1 DEF Replacing
      <4> QED BY <4>2, <4>3, <4>4, Tables DEF Tracks, Committed, Content, Setup, Possible
    <3> QED BY <2>2, <2>4, <2>6, <3>1, <3>2, Tables DEF ClosingInv, Closing
  <2>11. RestInv'
    <3>1. result[p] # "PASS"
      BY <2>3 DEF JournalInv, RestInv, Busy, Over
    <3> QED BY <2>1, <2>2, <2>4, <2>9, <3>1, Tables DEF JournalInv, RestInv
  <2> QED BY <2>5, <2>6, <2>8, <2>10, <2>11 DEF JournalInv
<1> QED BY <1>1, <1>2

----------------------------------------------------------------------------
(* The writes *)

\* Whoever makes the directory finds nothing in it, and nobody behind it.
LEMMA DirectoryKeeps ==
  ASSUME JournalInv, NEW p \in Invocation, MakeDirectory(p)
  PROVE  JournalInv'
<1>1. /\ at[p] = "directory" /\ part[p] = "check" /\ disk["directory"] = {}
      /\ disk' = [disk EXCEPT !["directory"] = {0}]
      /\ part' = [part EXCEPT ![p] = "sync"]
      /\ UNCHANGED <<at, memory, result, safe>>
  BY DEF MakeDirectory, Exists
<1>2. \A q \in Invocation : ~Claims(q) /\ ~Busy(q) /\ calls[q] = 0
  BY <1>1 DEF JournalInv, OwnerInv, ReplayType, Claims
<1>3. safe["directory"] = {} /\ \A f \in File \ {"directory"} : disk[f] = {} /\ safe[f] = {}
  BY <1>1 DEF JournalInv, OwnerInv, Possible
<1>4. /\ \A f \in File \ {"directory"} : disk'[f] = {} /\ safe'[f] = {} /\ Possible(f)' = {}
      /\ disk'["directory"] = {0} /\ safe'["directory"] = {}
  BY <1>1, <1>3, Tables DEF JournalInv, ReplayType, Possible
<1>5. /\ \A q \in Invocation \ {p} : ~Busy(q)' /\ ~Claims(q)'
      /\ part'[p] = "sync" /\ at'[p] = "directory"
  BY <1>1, <1>2 DEF JournalInv, ReplayType, Busy, Claims, memory
<1>6. ReplayType'
  <2>1. disk' = [f \in File |-> disk'[f]] /\ safe' = [f \in File |-> safe'[f]]
    BY <1>1 DEF JournalInv, ReplayType
  <2>2. part' \in [Invocation -> {"check", "replace", "sync"}]
    BY <1>1 DEF JournalInv, ReplayType
  <2>3. \A q \in Invocation : /\ at'[q] \notin Write \cup {"killed"} => part'[q] = "check"
                              /\ at'[q] = "directory" => part'[q] # "replace"
    BY <1>1, <1>5, Tables DEF JournalInv, ReplayType
  <2>4. \A f \in File : \A x, y \in disk'[f] : x = y
    BY <1>4
  <2> QED BY <1>1, <2>1, <2>2, <2>3, <2>4 DEF JournalInv, ReplayType, memory
<1>7. OwnerInv'
  <2>1. calls'[p] = 0
    BY <1>1, <1>2 DEF memory
  <2>2. \A q \in Invocation : Claims(q)' => q = p
    BY <1>5
  <2> QED BY <1>4, <1>5, <2>1, <2>2 DEF OwnerInv
<1>8. calls'[p] = 0 /\ journal'[p] = 0 /\ delivered'[p] = 0 /\ ~failed'[p]
  BY <1>1 DEF JournalInv, CleanInv, memory
<1>9. \A f \in {"journal", "records", "audit", "start", "receipt"} : Tracks(p, f)'
  <2> SUFFICES ASSUME NEW f \in {"journal", "records", "audit", "start", "receipt"}
               PROVE  Tracks(p, f)'
    OBVIOUS
  <2>1. Committed(p, f)' = {}
    BY <1>5 DEF Committed
  <2>2. disk'[f] = {} /\ safe'[f] = {} /\ Target["directory"] # f
    BY <1>4, Tables
  <2> QED BY <1>5, <2>1, <2>2 DEF Tracks
<1>10. CleanInv'
  <2>1. Counts(p)'
    BY <1>5, <1>8 DEF Counts
  <2> QED BY <1>1, <1>5, <1>8, <1>9, <2>1 DEF JournalInv, CleanInv, Replacing, memory
<1>11. ClosingInv'
  BY <1>5, <1>8, <1>9 DEF ClosingInv, Closing
<1>12. RestInv'
  <2>1. \A q \in Invocation : result'[q] # "PASS"
    BY <1>1, <1>3, Tables DEF JournalInv, RestInv
  <2> QED BY <1>4, <2>1, Tables DEF RestInv
<1> QED BY <1>6, <1>7, <1>10, <1>11, <1>12 DEF JournalInv

\* os.replace makes one file run ahead of what is committed, by one record.
LEMMA ReplaceKeeps ==
  ASSUME JournalInv, NEW p \in Invocation, Replace(p)
  PROVE  JournalInv'
<1>1. /\ at[p] \in Write /\ part[p] = "replace"
      /\ disk' = [disk EXCEPT ![Target[at[p]]] = {Content(p)}]
      /\ part' = [part EXCEPT ![p] = "sync"]
      /\ UNCHANGED <<at, journal, calls, delivered, failed, receipt, result, safe>>
  BY DEF Replace, memory
<1>2. /\ at[p] \in Write \ {"directory"} /\ Target[at[p]] \in File \ {"directory"}
      /\ part'[p] = "sync" /\ \A q \in Invocation \ {p} : part'[q] = part[q]
  BY <1>1, Tables DEF JournalInv, ReplayType
<1>3. Busy(p) /\ Busy(p)'
  BY <1>1, <1>2, Tables DEF Busy, Over
<1>4. /\ disk' = [f \in File |-> disk'[f]] /\ safe' = safe
      /\ \A f \in File : disk'[f] = IF f = Target[at[p]] THEN {Content(p)} ELSE disk[f]
      /\ \A f \in File \ {Target[at[p]]} : Possible(f)' = Possible(f)
  BY <1>1, <1>2 DEF JournalInv, ReplayType, Possible
<1>5. ReplayType'
  <2>1. part' \in [Invocation -> {"check", "replace", "sync"}]
    BY <1>1 DEF JournalInv, ReplayType
  <2>2. \A q \in Invocation : /\ at'[q] \notin Write \cup {"killed"} => part'[q] = "check"
                              /\ at'[q] = "directory" => part'[q] # "replace"
    BY <1>1, <1>2 DEF JournalInv, ReplayType
  <2>3. \A f \in File : \A x, y \in disk'[f] : x = y
    BY <1>4 DEF JournalInv, ReplayType
  <2> QED BY <1>1, <1>4, <2>1, <2>2, <2>3 DEF JournalInv, ReplayType
<1>6. OwnerInv' /\ \A q \in Invocation : Busy(q)' => q = p
  BY <1>1, <1>2, <1>3, <1>4, Tables, OwnerActs DEF JournalInv
<1>7. \A f \in {"journal", "records", "audit", "start", "receipt"} :
         Tracks(p, f) => /\ Tracks(p, f)' /\ disk[f] = safe[f]
  <2>1. \A f \in {"journal", "records", "audit", "start", "receipt"} :
           Committed(p, f)' = Committed(p, f)
    BY <1>1 DEF Committed
  <2>2. Content(p)' = Content(p)
    BY <1>1 DEF Content
  <2> QED BY <1>1, <1>2, <1>4, <2>1, <2>2, Tables DEF Tracks
<1>8. CleanInv'
  <2>1. Counts(p) => Counts(p)'
    BY <1>1 DEF Counts
  <2> QED BY <1>1, <1>3, <1>6, <1>7, <2>1 DEF JournalInv, CleanInv, Replacing
<1>9. CASE at[p] \in Setup \cup Replacing
  <2>1. ~failed[p] /\ Possible("receipt") = {} /\ Possible("receipt")' = {}
    <3>1. ~failed[p] /\ Tracks(p, "receipt")
      BY <1>3, <1>9 DEF JournalInv, CleanInv, ClosingInv, Setup, Replacing, Closing
    <3>2. safe["receipt"] = {} /\ disk["receipt"] = {}
      BY <1>7, <1>9, <3>1, Tables DEF Tracks, Committed, Setup, Replacing
    <3> QED BY <1>4, <1>9, <3>1, <3>2, Tables DEF Possible, Setup, Replacing
  <2>2. ClosingInv'
    BY <1>1, <1>6, <1>7, <1>9, <2>1, <1>3
    DEF JournalInv, ClosingInv, Closing, Setup, Replacing
  <2>3. /\ Counts(p) /\ \A f \in Replacing : Tracks(p, f) /\ Tracks(p, f)'
        /\ at[p] \in Setup => journal[p] = 0 /\ delivered[p] = 0
    BY <1>3, <1>7, <2>1 DEF JournalInv, CleanInv, Replacing
  <2>4. /\ journal[p] \in Nat /\ delivered[p] \in Nat
        /\ journal'[p] = journal[p] /\ delivered'[p] = delivered[p] /\ at'[p] = at[p]
    BY <1>1 DEF JournalInv, ReplayType
  <2>5. \A j \in Possible("journal")', r \in Possible("records")', a \in Possible("audit")' :
           a <= r /\ r <= j /\ j <= a + 1
    <3>1. CASE at[p] \in Setup
      <4>1. \A f \in Replacing : Possible(f)' \subseteq {0}
        BY <2>3, <2>4, <3>1, Tables DEF Tracks, Committed, Content, Possible, Setup, Replacing
      <4> QED BY <4>1 DEF Replacing
    <3>2. CASE at[p] = "journal"
      <4>1. /\ Possible("journal")' \subseteq {journal[p], journal[p] + 1}
            /\ Possible("records")' \subseteq {journal[p]}
            /\ Possible("audit")' \subseteq {journal[p]}
        BY <2>3, <2>4, <3>2, Tables DEF Tracks, Committed, Content, Counts, Possible, Replacing
      <4> QED BY <2>4, <4>1
    <3>3. CASE at[p] = "records"
      <4>1. /\ Possible("journal")' \subseteq {delivered[p] + 1}
            /\ Possible("records")' \subseteq {delivered[p], delivered[p] + 1}
            /\ Possible("audit")' \subseteq {delivered[p]}
        BY <2>3, <2>4, <3>3, Tables DEF Tracks, Committed, Content, Counts, Possible, Replacing
      <4> QED BY <2>4, <4>1
    <3>4. CASE at[p] = "audit"
      <4>1. /\ Possible("journal")' \subseteq {delivered[p]}
            /\ Possible("records")' \subseteq {delivered[p]}
            /\ Possible("audit")' \subseteq {delivered[p] - 1, delivered[p]}
        BY <2>3, <2>4, <3>4, Tables DEF Tracks, Committed, Content, Counts, Possible, Replacing
      <4> QED BY <2>4, <4>1
    <3> QED BY <1>9, <3>1, <3>2, <3>3, <3>4 DEF Replacing
  <2>6. RestInv'
    <3>1. \A q \in Invocation : result[q] = "PASS" => disk["receipt"] # {}
      BY DEF JournalInv, RestInv
    <3>2. \A q \in Invocation : result'[q] # "PASS"
      BY <1>1, <2>1, <3>1 DEF Possible
    <3> QED BY <2>1, <2>5, <3>2 DEF RestInv
  <2> QED BY <1>5, <1>6, <1>8, <2>2, <2>6 DEF JournalInv
<1>10. CASE at[p] \in Closing
  <2>1. /\ \A f \in {"journal", "records", "audit", "start"} :
               disk'[f] = disk[f] /\ Possible(f)' = Possible(f)
        /\ at[p] # "receipt" => disk'["receipt"] = disk["receipt"]
                                /\ Possible("receipt")' = Possible("receipt")
        /\ at[p] = "manifest" => disk'["manifest"] = {0}
        /\ at[p] # "manifest" => disk'["manifest"] = disk["manifest"]
    BY <1>2, <1>4, <1>10, Tables DEF Closing, Content
  <2>2. ClosingInv'
    BY <1>1, <1>2, <1>3, <1>4, <1>6, <1>7, <1>10, <2>1, Tables
    DEF JournalInv, ClosingInv, Closing, Replacing
  <2>3. at[p] = "receipt" =>
           /\ Possible("receipt")' = {receipt[p]}
           /\ Possible("journal") \subseteq {receipt[p].count}
           /\ receipt[p].status = "PASS" =>
                 /\ calls[p] = Planned
                 /\ \A f \in Replacing : disk[f] = {Planned} /\ safe[f] = {Planned}
    <3>1. at[p] = "receipt" => Tracks(p, "receipt")'
      BY <1>3, <1>7 DEF JournalInv, ClosingInv
    <3>2. at[p] = "receipt" => Possible("receipt")' = {receipt[p]}
      BY <1>1, <1>2, <3>1, Tables DEF Tracks, Committed, Content, Possible
    <3> QED BY <1>3, <3>2 DEF JournalInv, ClosingInv, Closing
  <2>4. \A q \in Invocation : result'[q] # "PASS"
    <3>1. Claims(p) /\ at[p] # "returned"
      BY <1>3 DEF Claims, Busy, Over
    <3>2. \A q \in Invocation : result[q] = "PASS" => Claims(q) /\ at[q] = "returned"
      BY ReplayAssumption DEF JournalInv, RestInv, Claims
    <3> QED BY <1>1, <3>1, <3>2 DEF JournalInv, OwnerInv
  <2>5. RestInv'
    BY <1>1, <2>1, <2>3, <2>4, Tables DEF JournalInv, RestInv, Replacing
  <2> QED BY <1>5, <1>6, <1>8, <2>2, <2>5 DEF JournalInv
<1> QED BY <1>2, <1>9, <1>10, Tables DEF Setup, Closing, Replacing

\* The fsync of the directory commits what is there, and memory takes it over.
LEMMA SyncFacts ==
  ASSUME JournalInv, NEW p \in Invocation, SyncDirectory(p)
  PROVE  /\ at[p] \in Write /\ part[p] = "sync" /\ Busy(p)
         /\ at'[p] = Then(p) /\ part'[p] = "check"
         /\ journal'[p] = IF at[p] = "journal" THEN journal[p] + 1 ELSE journal[p]
         /\ delivered'[p] = IF at[p] = "records" THEN delivered[p] + 1 ELSE delivered[p]
         /\ safe' = disk /\ UNCHANGED <<calls, failed, receipt, result, disk>>
         /\ \A q \in Invocation \ {p} :
               at'[q] = at[q] /\ part'[q] = part[q] /\ journal'[q] = journal[q]
               /\ delivered'[q] = delivered[q]
         /\ \A f \in File : Possible(f)' = disk[f]
         /\ Then(p) \in Setup \cup Replacing \cup Closing \cup {"check", "started"}
<1>1. /\ at[p] \in Write /\ part[p] = "sync" /\ at' = [at EXCEPT ![p] = Then(p)]
      /\ part' = [part EXCEPT ![p] = "check"] /\ safe' = disk
      /\ journal' = [journal EXCEPT ![p] = IF at[p] = "journal" THEN @ + 1 ELSE @]
      /\ delivered' = [delivered EXCEPT ![p] = IF at[p] = "records" THEN @ + 1 ELSE @]
      /\ UNCHANGED <<calls, failed, receipt, result, disk>>
  BY DEF SyncDirectory, Goto
<1>2. Busy(p)
  BY <1>1, Tables DEF Busy, Over
<1>3. \A f \in File : Possible(f)' = disk[f]
  BY <1>1 DEF Possible
<1>4. Then(p) \in Setup \cup Replacing \cup Closing \cup {"check", "started"}
  BY <1>1, Tables DEF Then, Setup, Replacing, Closing
<1> QED BY <1>1, <1>2, <1>3, <1>4 DEF JournalInv, ReplayType

\* The same for the types and for the owner.
LEMMA SyncOwner ==
  ASSUME JournalInv, NEW p \in Invocation, SyncDirectory(p)
  PROVE  ReplayType' /\ OwnerInv' /\ \A q \in Invocation : Busy(q)' => q = p
<1>1. ReplayType'
  <2>1. at'[p] \in Operation /\ at'[p] # "directory"
    BY SyncFacts DEF Operation, Setup, Replacing, Closing
  <2>2. at' \in [Invocation -> Operation] /\ part' \in [Invocation -> {"check", "replace", "sync"}]
    BY <2>1, SyncFacts DEF SyncDirectory, Goto, JournalInv, ReplayType
  <2>3. journal' \in [Invocation -> Nat] /\ delivered' \in [Invocation -> Nat]
    BY DEF SyncDirectory, JournalInv, ReplayType
  <2>4. \A q \in Invocation : /\ at'[q] \notin Write \cup {"killed"} => part'[q] = "check"
                              /\ at'[q] = "directory" => part'[q] # "replace"
    BY SyncFacts DEF JournalInv, ReplayType
  <2>5. safe' = disk /\ UNCHANGED <<calls, failed, receipt, result, disk>>
    BY SyncFacts
  <2> QED BY <2>2, <2>3, <2>4, <2>5 DEF JournalInv, ReplayType
<1>2. /\ \A q \in Invocation \ {p} :
            at'[q] = at[q] /\ part'[q] = part[q] /\ calls'[q] = calls[q]
      /\ Busy(p) /\ at'[p] # "directory" /\ disk' = disk /\ safe' = disk
  BY SyncFacts DEF Setup, Replacing, Closing
<1>3. Claims(p) /\ disk["directory"] # {}
  BY <1>2 DEF JournalInv, OwnerInv, Claims
<1>4. \A q \in Invocation \ {p} : Claims(q)' => Claims(q)
  BY <1>2 DEF Claims, Busy
<1>5. \A q \in Invocation : Claims(q)' => q = p
  BY <1>3, <1>4 DEF JournalInv, OwnerInv
<1>6. OwnerInv'
  BY <1>2, <1>3, <1>5 DEF OwnerInv
<1> QED BY <1>1, <1>5, <1>6 DEF Claims

\* Whichever write it is, what stands on disk is then what should be committed.
LEMMA SyncKeeps ==
  ASSUME JournalInv, NEW p \in Invocation, SyncDirectory(p)
  PROVE  JournalInv'
<1>1. /\ at[p] \in Write /\ part[p] = "sync" /\ Busy(p)
      /\ at'[p] = Then(p) /\ part'[p] = "check" /\ safe' = disk /\ disk' = disk
      /\ UNCHANGED <<calls, failed, receipt, result>>
      /\ \A q \in Invocation \ {p} : at'[q] = at[q] /\ journal'[q] = journal[q]
                                     /\ delivered'[q] = delivered[q]
      /\ \A f \in File : Possible(f)' = disk[f]
  BY SyncFacts
<1>2. /\ journal'[p] = IF at[p] = "journal" THEN journal[p] + 1 ELSE journal[p]
      /\ delivered'[p] = IF at[p] = "records" THEN delivered[p] + 1 ELSE delivered[p]
      /\ journal[p] \in Nat /\ delivered[p] \in Nat /\ calls[p] \in Nat
  BY SyncFacts DEF JournalInv, ReplayType
<1>3. ReplayType' /\ OwnerInv' /\ \A q \in Invocation : Busy(q)' => q = p
  BY SyncOwner
<1>4. \/ at[p] = "directory" /\ at'[p] = "preflight"
      \/ at[p] = "preflight" /\ at'[p] = "journal0"
      \/ at[p] = "journal0" /\ at'[p] = "records0"
      \/ at[p] = "records0" /\ at'[p] = "audit0"
      \/ at[p] = "audit0" /\ at'[p] = "start"
      \/ at[p] = "start" /\ at'[p] = "check"
      \/ at[p] = "journal" /\ at'[p] = "records"
      \/ at[p] = "records" /\ at'[p] = "audit"
      \/ at[p] = "audit" /\ at'[p] \in {"check", "started"}
      \/ at[p] = "leakage" /\ at'[p] = "resource"
      \/ at[p] = "resource" /\ at'[p] = "checks"
      \/ at[p] = "checks" /\ at'[p] = "end"
      \/ at[p] = "end" /\ at'[p] = "receipt"
      \/ at[p] = "receipt" /\ at'[p] = "manifest"
      \/ at[p] = "manifest" /\ at'[p] = "return"
  BY <1>1, Tables DEF Then
<1>5. \A f \in {"journal", "records", "audit", "start", "receipt"} :
         Tracks(p, f)' <=> disk[f] = Committed(p, f)'
  BY <1>1 DEF Tracks
<1>6. \A f \in {"journal", "records", "audit", "start", "receipt"} :
         Tracks(p, f) => disk[f] = IF Target[at[p]] = f THEN {Content(p)} ELSE Committed(p, f)
  BY <1>1 DEF Tracks
<1>7. Tracks(p, "receipt") /\ Tracks(p, "receipt")'
  <2>1. Tracks(p, "receipt")
    BY <1>1 DEF JournalInv, ClosingInv
  <2>2. disk["receipt"] = Committed(p, "receipt")'
    <3>1. disk["receipt"] = IF at[p] \in {"receipt", "manifest"} THEN {receipt[p]} ELSE {}
      <4>1. disk["receipt"] = IF Target[at[p]] = "receipt" THEN {Content(p)}
                              ELSE Committed(p, "receipt")
        BY <1>6, <2>1
      <4>2. Target[at[p]] = "receipt" <=> at[p] = "receipt"
        BY <1>1, Tables
      <4>3. at[p] = "receipt" => Content(p) = receipt[p]
        BY DEF Content
      <4>4. Committed(p, "receipt") = IF at[p] \in {"manifest", "return"} THEN {receipt[p]} ELSE {}
        BY DEF Committed
      <4>5. at[p] # "return"
        BY <1>1, Tables
      <4> QED BY <4>1, <4>2, <4>3, <4>4, <4>5
    <3>2. at'[p] \in {"manifest", "return"} <=> at[p] \in {"receipt", "manifest"}
      BY <1>4
    <3> QED BY <1>1, <3>1, <3>2 DEF Committed
  <2> QED BY <1>5, <2>1, <2>2
<1>8. at[p] \in Closing => at'[p] \in Closing \ {"leakage"}
  BY <1>1, Tables DEF Closing, Then
<1>9. CleanInv'
  <2>1. at'[p] \in {"gate", "directory"} \cup Setup =>
           at[p] \in {"directory"} \cup Setup
    BY <1>1, Tables DEF Then, Setup
  <2>2. at[p] \in {"directory"} \cup Setup =>
           journal'[p] = 0 /\ delivered'[p] = 0 /\ calls'[p] = 0 /\ ~failed'[p]
    BY <1>1, <1>2 DEF JournalInv, CleanInv, Setup
  <2>3. ASSUME ~failed[p]
        PROVE  Counts(p)' /\ \A f \in Replacing \cup {"start"} : Tracks(p, f)'
    <3>1. Counts(p) /\ \A f \in Replacing \cup {"start"} : Tracks(p, f)
      BY <1>1, <2>3 DEF JournalInv, CleanInv
    <3>2. \A f \in {"journal", "records", "audit", "start"} :
             disk[f] = IF Target[at[p]] = f THEN {Content(p)} ELSE Committed(p, f)
      BY <1>6, <3>1 DEF Replacing
    <3>3. CASE at[p] \in {"directory"} \cup Setup
      <4>1. /\ journal[p] = 0 /\ delivered[p] = 0 /\ calls[p] = 0
            /\ journal'[p] = 0 /\ delivered'[p] = 0 /\ calls'[p] = 0
        BY <1>1, <2>2, <3>3 DEF JournalInv, CleanInv
      <4>2. \A f \in {"journal", "records", "audit", "start"} : disk[f] = Committed(p, f)'
        <5>1. \A f \in {"journal", "records", "audit", "start"} :
                 disk[f] = IF Target[at[p]] = f THEN {0} ELSE Committed(p, f)
          BY <3>2, <3>3, <4>1 DEF Content, Setup
        <5>2. disk["journal"] = Committed(p, "journal")'
          BY <1>4, <3>3, <4>1, <5>1, Tables DEF Committed, Setup
        <5>3. disk["records"] = Committed(p, "records")'
          BY <1>4, <3>3, <4>1, <5>1, Tables DEF Committed, Setup
        <5>4. disk["audit"] = Committed(p, "audit")'
          BY <1>4, <3>3, <4>1, <5>1, Tables DEF Committed, Setup
        <5>5. disk["start"] = Committed(p, "start")'
          BY <1>4, <3>3, <4>1, <5>1, Tables DEF Committed, Setup
        <5> QED BY <5>2, <5>3, <5>4, <5>5
      <4>3. Counts(p)'
        BY <1>1, <3>3, <4>1, Tables DEF Counts, Then, Setup
      <4> QED BY <1>5, <4>2, <4>3 DEF Replacing
    <3>4. CASE at[p] \in Replacing
      <4>1. \A f \in {"journal", "records", "audit", "start"} : disk[f] = Committed(p, f)'
        <5>1. CASE at[p] = "journal"
          <6>1. /\ at'[p] = "records" /\ delivered'[p] = delivered[p]
                /\ journal'[p] = journal[p] + 1
            BY <1>2, <1>4, <5>1
          <6>2. /\ disk["journal"] = {journal[p] + 1} /\ disk["records"] = {delivered[p]}
                /\ disk["audit"] = {delivered[p]} /\ disk["start"] = {0}
            BY <3>2, <5>1, Tables DEF Committed, Content, Setup
          <6> QED BY <6>1, <6>2 DEF Committed, Setup
        <5>2. CASE at[p] = "records"
          <6>1. /\ at'[p] = "audit" /\ delivered'[p] - 1 = delivered[p]
                /\ journal'[p] = journal[p] /\ journal[p] = delivered'[p]
            BY <1>2, <1>4, <3>1, <5>2 DEF Counts
          <6>2. /\ disk["journal"] = {journal[p]} /\ disk["records"] = {journal[p]}
                /\ disk["audit"] = {delivered[p]} /\ disk["start"] = {0}
            BY <3>2, <5>2, Tables DEF Committed, Content, Setup
          <6> QED BY <6>1, <6>2 DEF Committed, Setup
        <5>3. CASE at[p] = "audit"
          <6>1. /\ at'[p] \in {"check", "started"} /\ delivered'[p] = delivered[p]
                /\ journal'[p] = journal[p] /\ journal[p] = delivered[p]
            BY <1>2, <1>4, <3>1, <5>3 DEF Counts
          <6>2. /\ disk["journal"] = {journal[p]} /\ disk["records"] = {delivered[p]}
                /\ disk["audit"] = {delivered[p]} /\ disk["start"] = {0}
            BY <3>2, <5>3, Tables DEF Committed, Content, Setup
          <6> QED BY <6>1, <6>2 DEF Committed, Setup
        <5> QED BY <3>4, <5>1, <5>2, <5>3 DEF Replacing
      <4>2. Counts(p)'
        BY <1>1, <1>2, <1>4, <3>1, <3>4 DEF Counts, Replacing
      <4> QED BY <1>5, <4>1, <4>2 DEF Replacing
    <3>5. CASE at[p] \in Closing
      <4>1. \A f \in {"journal", "records", "audit", "start"} : disk[f] = Committed(p, f)'
        <5>1. Target[at[p]] \notin {"journal", "records", "audit", "start"}
          BY <1>1, <3>5, Tables DEF Closing
        <5>2. \A f \in {"journal", "records", "audit", "start"} : Committed(p, f)' = Committed(p, f)
          <6>1. at[p] \notin {"directory", "journal", "records", "audit"} \cup Setup
            BY <3>5 DEF Closing, Setup
          <6>2. at'[p] \notin {"directory", "journal", "records", "audit"} \cup Setup
            BY <1>8, <3>5 DEF Closing, Setup
          <6> QED BY <1>2, <6>1, <6>2 DEF Committed, Setup
        <5> QED BY <3>2, <5>1, <5>2
      <4>2. Counts(p)'
        BY <1>1, <1>2, <1>8, <3>1, <3>5 DEF Counts, Closing
      <4> QED BY <1>5, <4>1, <4>2 DEF Replacing
    <3> QED BY <1>1, <3>3, <3>4, <3>5, Tables DEF Setup, Replacing, Closing
  <2>4. failed[p] => at[p] \in Closing
    BY <1>1, Tables DEF JournalInv, CleanInv
  <2> QED BY <1>1, <1>3, <1>8, <2>1, <2>2, <2>3, <2>4 DEF JournalInv, CleanInv
<1>10. ClosingInv'
  <2>1. at'[p] \in Closing => at[p] \in Closing
    BY <1>1, Tables DEF Closing, Then
  <2>2. ~(failed[p] /\ at'[p] = "started")
    BY <1>1, <1>8, Tables DEF JournalInv, CleanInv, Closing
  <2>3. at[p] \in Closing => disk["journal"] \subseteq {receipt[p].count}
    BY <1>1 DEF JournalInv, ClosingInv, Possible
  <2>4. at'[p] = "return" => disk["manifest"] # {}
    <3>1. at'[p] = "return" => at[p] = "manifest"
      BY <1>1, Tables DEF Then
    <3> QED BY <1>1, <3>1 DEF JournalInv, ClosingInv
  <2>5. at[p] \in Closing /\ receipt[p].status = "PASS" =>
           calls[p] = Planned /\ \A f \in Replacing : disk[f] = {Planned}
    BY <1>1 DEF JournalInv, ClosingInv
  <2>6. at'[p] # "leakage"
    BY <1>1, Tables DEF Then
  <2>7. Possible("journal")' = disk["journal"]
    BY <1>1, Tables
  <2> QED BY <1>1, <1>3, <1>7, <2>1, <2>2, <2>3, <2>4, <2>5, <2>6, <2>7 DEF ClosingInv
<1>11. RestInv'
  <2>1. \A f \in File : Possible(f)' \subseteq Possible(f)
    BY <1>1 DEF Possible
  <2>2. \A q \in Invocation : result'[q] # "PASS"
    <3>1. Claims(p) /\ at[p] # "returned"
      BY <1>1 DEF Claims, Busy, Over
    <3>2. \A q \in Invocation : result[q] = "PASS" => Claims(q) /\ at[q] = "returned"
      BY ReplayAssumption DEF JournalInv, RestInv, Claims
    <3> QED BY <1>1, <3>1, <3>2 DEF JournalInv, OwnerInv
  <2> QED BY <1>1, <2>1, <2>2, Tables DEF JournalInv, RestInv
<1> QED BY <1>3, <1>9, <1>10, <1>11 DEF JournalInv

----------------------------------------------------------------------------
(* Faults *)

\* A power loss takes away names that were not committed, and nobody acts in the
\* directory any more.
LEMMA PowerLossKeeps ==
  ASSUME JournalInv, PowerLoss
  PROVE  JournalInv'
<1>1. /\ at' = [q \in Invocation |-> IF at[q] \in Over \cup {"gate"} THEN at[q] ELSE "killed"]
      /\ UNCHANGED <<part, journal, calls, delivered, failed, receipt, result>>
      /\ safe' = disk' /\ disk' = [f \in File |-> disk'[f]]
      /\ \A f \in File : disk'[f] = disk[f] \/ disk'[f] = safe[f]
  BY DEF PowerLoss, memory
<1>2. \A q \in Invocation : ~Busy(q)' /\ (Claims(q)' => calls[q] > 0)
  BY <1>1 DEF Busy, Claims, Over
<1>3. \A f \in File : Possible(f)' = disk'[f] /\ Possible(f)' \subseteq Possible(f)
  BY <1>1 DEF Possible
<1>4. ReplayType'
  <2>1. at' \in [Invocation -> Operation]
    BY <1>1 DEF JournalInv, ReplayType, Operation, Over
  <2>2. \A q \in Invocation : /\ at'[q] \notin Write \cup {"killed"} => part'[q] = "check"
                              /\ at'[q] = "directory" => part'[q] # "replace"
    BY <1>1, Tables DEF JournalInv, ReplayType, Over
  <2> QED BY <1>1, <2>1, <2>2 DEF JournalInv, ReplayType
<1>5. OwnerInv'
  <2>1. \A q \in Invocation : Claims(q)' => Claims(q) /\ calls[q] > 0
    BY <1>2 DEF Claims
  <2>2. safe["directory"] # {} => disk'["directory"] # {} /\ safe'["directory"] # {}
    BY <1>1, Tables DEF JournalInv, OwnerInv
  <2> QED BY <1>1, <1>3, <2>1, <2>2 DEF JournalInv, OwnerInv
<1>6. CleanInv' /\ ClosingInv'
  <2>1. \A q \in Invocation : at'[q] \in {"gate", "directory"} \cup Setup => at[q] = "gate"
    BY <1>1 DEF Over, Setup
  <2> QED BY <1>1, <1>2, <2>1 DEF JournalInv, CleanInv, ClosingInv
<1>7. RestInv'
  <2>1. \A q \in Invocation : at[q] = "returned" => at'[q] = "returned"
    BY <1>1 DEF Over
  <2> QED BY <1>1, <1>3, <2>1, Tables DEF JournalInv, RestInv, Replacing
<1> QED BY <1>4, <1>5, <1>6, <1>7 DEF JournalInv

----------------------------------------------------------------------------
(* Theorems *)

\* The invariant of a replay holds however its writes fail, processes die and the
\* host loses power.
THEOREM JournalInductive == Spec => []JournalInv
<1>1. JournalInv /\ [Next]_vars => JournalInv'
  <2> SUFFICES ASSUME JournalInv, [Next]_vars PROVE JournalInv'
    OBVIOUS
  <2>1. ASSUME UNCHANGED <<at, part, memory, result, files>> PROVE JournalInv'
    <3>1. UNCHANGED <<at, part, journal, calls, delivered, failed, receipt, result, disk, safe>>
      BY <2>1 DEF memory, files
    <3>2. ReplayType' /\ OwnerInv' /\ RestInv'
      <4>1. ReplayType'
        BY <3>1 DEF JournalInv, ReplayType
      <4>2. OwnerInv'
        BY <3>1 DEF JournalInv, OwnerInv, Busy, Claims, Possible
      <4>3. RestInv'
        BY <3>1 DEF JournalInv, RestInv, Possible
      <4> QED BY <4>1, <4>2, <4>3
    <3>3. \A q \in Invocation : /\ Busy(q)' <=> Busy(q)
                                /\ Counts(q) => Counts(q)'
                                /\ \A f \in File : Tracks(q, f) => Tracks(q, f)'
      BY <2>1, <3>1, Unmoved DEF Busy
    <3>4. CleanInv'
      BY <3>1, <3>3, Tables DEF JournalInv, CleanInv, Replacing
    <3>5. ClosingInv'
      BY <3>1, <3>3, Tables DEF JournalInv, ClosingInv, Possible
    <3> QED BY <3>2, <3>4, <3>5 DEF JournalInv
  <2>2. CASE Drift \/ UNCHANGED vars
    BY <2>1, <2>2 DEF Drift, vars
  <2>3. ASSUME NEW p \in Invocation, Step(p) PROVE JournalInv'
    <3>1. CASE Refuse(p) \/ DriftStops(p) \/ DecisionFails(p)
      <4>1. at[p] \notin {"gate"} \cup Over
        BY <3>1, Tables DEF Refuse, DriftStops, DecisionFails, Over
      <4> QED BY <3>1, <4>1, RaiseKeeps DEF Refuse, DriftStops, DecisionFails
    <3>2. CASE ReturnReceipt(p)
      <4>1. /\ part[p] = "check" /\ result' = [q \in Invocation |-> result'[q]]
            /\ \A q \in Invocation : result'[q] = "PASS" =>
                  result[q] = "PASS" \/ (q = p /\ receipt[p].status = "PASS")
        BY <3>2, Tables DEF ReturnReceipt, Return, JournalInv, ReplayType
      <4> QED BY <3>2, <4>1, StopKeeps DEF ReturnReceipt, Return, Goto, memory, Over
    <3> QED BY <2>3, <3>1, <3>2, GateKeeps, DirectoryKeeps, ProgressKeeps, ReplaceKeeps,
               SyncKeeps, VerdictKeeps DEF Step
  <2>4. ASSUME NEW p \in Invocation, WriteRaises(p) PROVE JournalInv'
    BY <2>4, RaiseKeeps, Tables DEF WriteRaises, Over
  <2>5. ASSUME NEW p \in Invocation, Kill(p) PROVE JournalInv'
    <3>1. result' = [q \in Invocation |-> result'[q]]
      BY <2>5 DEF Kill, JournalInv, ReplayType
    <3> QED BY <2>5, <3>1, StopKeeps DEF Kill, Goto, memory, Over
  <2> QED BY <2>2, <2>3, <2>4, <2>5, PowerLossKeeps DEF Next
<1> QED BY <1>1, JournalStart, PTL DEF Spec

\* _execute: the journal is ahead of its projection and of the delivery audit by one
\* record at most, and a receipt counts the journal that stands beside it, also when
\* the journal was replaced by a write that raised and after a power loss.
THEOREM JournalIsAuthority == Spec => []JournalIsTruth
<1>1. JournalInv => JournalIsTruth
  BY Tables DEF JournalInv, RestInv, JournalIsTruth, Possible
<1> QED BY <1>1, JournalInductive, PTL

\* A PASS stands for the whole plan, and survives a power loss once it is returned.
THEOREM PassIsWhole == Spec => []PassIsComplete
<1>1. JournalInv => PassIsComplete
  BY Tables DEF JournalInv, RestInv, PassIsComplete, Possible
<1> QED BY <1>1, JournalInductive, PTL

\* root.mkdir(exist_ok=False), made durable first: one invocation at most decides
\* anything for an output directory.
THEOREM DecidedOnce == Spec => []OneRun
<1>1. JournalInv => OneRun
  BY DEF JournalInv, OwnerInv, OneRun, Claims
<1> QED BY <1>1, JournalInductive, PTL

=============================================================================
