----------------------------- MODULE BlindHandoff -----------------------------
(***************************************************************************)
(* The commands of b2/blind_handoff.py for one handoff: a private side and *)
(* a runner side that exchange create-once files and keep their progress   *)
(* in claim markers.  Nothing but files survives a command.  Commands may  *)
(* be invoked at any time, overlap, be repeated, fail and crash; only the  *)
(* files enforce the protocol.                                             *)
(*                                                                         *)
(* A file is abstracted to a tag <<session, number>>: the return key it is *)
(* bound to, and the challenge it carries (for verify-result, the output   *)
(* directory it names).  A command opens an envelope only if the tag is of *)
(* its own state directory, which stands for decryption, HMAC and binding. *)
(***************************************************************************)
EXTENDS Naturals, FiniteSets

CONSTANTS
    Proc,           \* processes that execute commands
    Session,        \* private state directories, each with its own return key
    Mode,           \* binding.mode
    MaxChallenges,  \* bound: challenges generated by encrypt-challenge
    MaxOutputs,     \* bound: output directories given to verify-result
    MaxFaults       \* bound: crashes, spurious I/O errors and the expiry

ASSUME HandoffAssumption ==
    /\ Mode \in {"smoke", "live"}
    /\ {MaxChallenges, MaxOutputs, MaxFaults} \subseteq Nat

\* Each command creates its files in this order; "state" and "output" are
\* directories of the private side, "joined" is the runner's state directory.
Then == [
    state     |-> "payload",    payload  |-> "idle",        \* prepare-input
    joined    |-> "idle",                                   \* accept-input
    secret    |-> "envelope",   envelope |-> "published",   \* encrypt-challenge
    published |-> "idle",
    ack       |-> "verified",   verified |-> "idle",        \* verify-challenge
    gate      |-> "provider",                               \* verify-ack
    started   |-> "result",     result   |-> "idle",        \* make-*-result
    output    |-> "accepted",   accepted |-> "idle"]        \* verify-result

File == DOMAIN Then
Directory == {"state", "joined", "output"}

\* How far the creation of a file has come, or what the except clauses still remove:
\* "withdraw" the file itself, in _atomic_create, "rollback" one before it.
Part == {"open", "fill", "sync", "withdraw", "rollback"}

\* Commands that have read the claim they require ("compareAck": and the challenge it is
\* of), and not the rest.
Reading == {"verifyAck", "compareAck", "makeResult"}

\* The file the except clause of a command removes next: before the one whose creation
\* failed, or before the one it has just removed.
Before(f) ==
    CASE f = "payload"   -> "state"
      [] f = "published" -> "envelope"
      [] f = "envelope"  -> "secret"
      [] f = "verified"  -> "ack"
      [] f = "accepted"  -> "output"
      [] OTHER           -> "idle"

VARIABLES
    pc, part, tag,  \* the file a process creates or removes next, how, and its tag
    file, torn,     \* the tags under which each file can be read; under which it is
                    \* in the way without (all of) its content
    fresh,          \* the binding has not expired
    faults, issued, \* bounded counters: faults, challenges generated
    openings, attempts, acked,  \* history: PROVIDER_GATE_OPEN receipts, provider
                                \* attempts, tags of acknowledgements that were visible
    receipts,       \* history: RUNNER_CHALLENGE_ENCRYPTED and RESULT_VERIFIED
    withdrawn       \* history: those of the two claims whose fsync failed

history == <<openings, attempts, acked, receipts, withdrawn>>
vars == <<pc, part, tag, file, torn, fresh, faults, issued, history>>

Tag == Session \X Nat

\* The claims that end a command which can still roll back.
Final == {"published", "accepted"}

Init ==
    /\ pc = [p \in Proc |-> "idle"]
    /\ part = [p \in Proc |-> "open"]
    /\ \E s \in Session : tag = [p \in Proc |-> <<s, 0>>]
    /\ file = [f \in File |-> {}]
    /\ torn = [f \in File |-> {}]
    /\ fresh = TRUE
    /\ faults = 0 /\ issued = 0
    /\ openings = 0 /\ attempts = 0 /\ acked = {}
    /\ receipts = {} /\ withdrawn = {}

\* Files of the private state belong to a session, output directories have a name
\* of their own, and all the others exist once.
SamePath(f, t, u) ==
    /\ f \in {"state", "verified", "accepted"} => t[1] = u[1]
    /\ f = "output" => t[2] = u[2]

\* Defect: files are opened without O_EXCL.
CollidesNever(p) == FALSE

\* O_EXCL, or the check before the rename of a directory, finds the path in use.
Collides(p) == \E t \in file[pc[p]] \cup torn[pc[p]] : SamePath(pc[p], t, tag[p])

Goto(p, phase, how) == pc' = [pc EXCEPT ![p] = phase] /\ part' = [part EXCEPT ![p] = how]

\* A command has validated the binding and read its inputs; what it creates first.
Begin(p, first, t) ==
    /\ fresh
    /\ Goto(p, first, "open")
    /\ tag' = [tag EXCEPT ![p] = t]
    /\ UNCHANGED <<file, torn, fresh, faults, history>>

----------------------------------------------------------------------------
(* The commands, up to the first file they create *)

PrepareInput(p, s) == pc[p] = "idle" /\ Begin(p, "state", <<s, 0>>) /\ UNCHANGED issued

\* The return key is taken from the payload that is found.
AcceptInput(p) ==
    /\ pc[p] = "idle"
    /\ \E t \in file["payload"] : Begin(p, "joined", t)
    /\ UNCHANGED issued

\* 32 fresh random bytes for the session the runner joined.
EncryptChallenge(p) ==
    /\ pc[p] = "idle"
    /\ issued < MaxChallenges
    /\ issued' = issued + 1
    /\ \E t \in file["joined"] : Begin(p, "secret", <<t[1], issued + 1>>)

\* The envelope opens with the return key of this session only.
VerifyChallenge(p) ==
    /\ pc[p] = "idle"
    /\ \E t \in file["envelope"] :
          /\ \E u \in file["state"] : u[1] = t[1]
          /\ Begin(p, "ack", t)
    /\ UNCHANGED issued

\* _require_claim of verify-ack and of make-*-result compares the marker with the
\* binding only; the other inputs are read afterwards.
RequireClaim(p, f, command) ==
    /\ pc[p] = "idle"
    /\ \E t \in file[f] : tag' = [tag EXCEPT ![p] = t]
    /\ Goto(p, command, "open")
    /\ UNCHANGED <<file, torn, fresh, faults, issued, history>>

RequirePublished(p) == RequireClaim(p, "published", "verifyAck")
RequireGate(p) == RequireClaim(p, "gate", "makeResult")

\* The other inputs are missing, stale or of something else.
Refuse(p) ==
    /\ pc[p] \in Reading
    /\ Goto(p, "idle", "open")
    /\ UNCHANGED <<tag, file, torn, fresh, faults, issued, history>>

\* verify-ack reads the envelope, then the challenge the runner retained.  One step: a
\* secret is created before its envelope and removed after it.
ReadChallenge(p) ==
    /\ pc[p] = "verifyAck"
    /\ \E t \in file["secret"] \cap file["envelope"] :
          /\ \E u \in file["joined"] : u[1] = t[1]
          /\ tag' = [tag EXCEPT ![p] = t]
    /\ Goto(p, "compareAck", "open")
    /\ UNCHANGED <<file, torn, fresh, faults, issued, history>>

\* Defect: the acknowledgement is not compared with the retained challenge.
VerifyAckUnbound(p) ==
    /\ pc[p] = "compareAck"
    /\ \E t \in file["ack"] : Begin(p, "gate", t)
    /\ UNCHANGED issued

\* It reads the acknowledgement last; the HMAC covers binding, envelope and challenge.
VerifyAck(p) ==
    /\ pc[p] = "compareAck"
    /\ tag[p] \in file["ack"]
    /\ Begin(p, "gate", tag[p])
    /\ UNCHANGED issued

\* A live result needs the receipt of the provider attempt, a smoke result none.
MakeResult(p) ==
    /\ pc[p] = "makeResult"
    /\ Mode = "live" => attempts > 0
    /\ Begin(p, "started", tag[p])
    /\ UNCHANGED issued

\* Defect: the result is claimed as accepted before its directory is committed.
VerifyResultClaimFirst(p, d) ==
    /\ pc[p] = "idle"
    /\ \E t \in file["result"] :
          /\ \E u \in file["state"] : u[1] = t[1]
          /\ Begin(p, "accepted", <<t[1], d>>)
    /\ UNCHANGED issued

VerifyResult(p, d) ==
    /\ pc[p] = "idle"
    /\ \E t \in file["result"] :
          /\ \E u \in file["state"] : u[1] = t[1]
          /\ Begin(p, "output", <<t[1], d>>)
    /\ UNCHANGED issued

----------------------------------------------------------------------------
(* Creating the files *)

Creates(p, how) == pc[p] \in File /\ part[p] = how

\* A claim that ends its command is reported when its creation has returned.
Return(p) ==
    /\ openings' = IF pc[p] = "gate" THEN openings + 1 ELSE openings
    /\ receipts' = IF pc[p] \in Final THEN receipts \cup {<<pc[p], tag[p]>>} ELSE receipts
    /\ Goto(p, Then[pc[p]], "open")

\* _commit_new_directory: one rename, after which nothing can fail.
CommitDirectory(p) ==
    /\ Creates(p, "open") /\ pc[p] \in Directory
    /\ ~Collides(p)
    /\ file' = [file EXCEPT ![pc[p]] = @ \cup {tag[p]}]
    /\ Return(p)
    /\ UNCHANGED <<tag, torn, fresh, faults, issued, attempts, acked, withdrawn>>

\* os.open(O_CREAT | O_EXCL): the path is taken.
OpenFile(p) ==
    /\ Creates(p, "open") /\ pc[p] \notin Directory
    /\ ~Collides(p)
    /\ torn' = [torn EXCEPT ![pc[p]] = @ \cup {tag[p]}]
    /\ Goto(p, pc[p], "fill")
    /\ UNCHANGED <<tag, file, fresh, faults, issued, history>>

\* write and flush: other commands can read the file.
FillFile(p) ==
    /\ Creates(p, "fill")
    /\ torn' = [torn EXCEPT ![pc[p]] = @ \ {tag[p]}]
    /\ file' = [file EXCEPT ![pc[p]] = @ \cup {tag[p]}]
    /\ acked' = IF pc[p] = "ack" THEN acked \cup {tag[p]} ELSE acked
    /\ Goto(p, pc[p], "sync")
    /\ UNCHANGED <<tag, fresh, faults, issued, openings, attempts, receipts, withdrawn>>

\* os.fsync succeeds, and _atomic_create returns.
SyncFile(p) ==
    /\ Creates(p, "sync")
    /\ Return(p)
    /\ UNCHANGED <<tag, file, torn, fresh, faults, issued, attempts, acked, withdrawn>>

\* The workflow step behind the receipt; a smoke handoff attempts nothing.
ProviderAttempt(p) ==
    /\ pc[p] = "provider"
    /\ attempts' = IF Mode = "live" THEN attempts + 1 ELSE attempts
    /\ Goto(p, "idle", "open")
    /\ UNCHANGED <<tag, file, torn, fresh, faults, issued, openings, acked, receipts, withdrawn>>

----------------------------------------------------------------------------
(* Failures *)

\* Defect: the retained secret is created inside the try that rolls it back.
RollBackTooFar(p, f) ==
    LET next == IF f = "secret" /\ part[p] = "open" THEN "secret" ELSE Before(f)
    IN Goto(p, next, IF next = "idle" THEN "open" ELSE "rollback")

\* The except clause of the command goes on with the file before f.
RollBack(p, f) == Goto(p, Before(f), IF Before(f) = "idle" THEN "open" ELSE "rollback")

\* "replayed or colliding publication", "state directory already exists"
Reject(p) ==
    /\ Creates(p, "open")
    /\ Collides(p)
    /\ RollBack(p, pc[p])
    /\ UNCHANGED <<tag, file, torn, fresh, faults, issued, history>>

\* The open or the rename fails, or the write or the fsync, when the file is there.
IoError(p) ==
    /\ pc[p] \in File /\ part[p] \in {"open", "fill", "sync"}
    /\ faults < MaxFaults /\ faults' = faults + 1
    /\ IF part[p] = "open" THEN RollBack(p, pc[p]) ELSE Goto(p, pc[p], "withdraw")
    /\ withdrawn' = IF part[p] = "sync" /\ pc[p] \in Final
                    THEN withdrawn \cup {<<pc[p], tag[p]>>} ELSE withdrawn
    /\ UNCHANGED <<tag, file, torn, fresh, issued, openings, attempts, acked, receipts>>

\* Unlinks by path, whoever created what is there.
Unlink(p) ==
    LET Others(g) == {t \in g[pc[p]] : ~SamePath(pc[p], t, tag[p])}
    IN /\ file' = [file EXCEPT ![pc[p]] = Others(file)]
       /\ torn' = [torn EXCEPT ![pc[p]] = Others(torn)]

\* The except clause of _atomic_create, or the next unlink of the command's.
Remove(p) ==
    /\ pc[p] \in File /\ part[p] \in {"withdraw", "rollback"}
    /\ Unlink(p)
    /\ RollBack(p, pc[p])
    /\ UNCHANGED <<tag, fresh, faults, issued, history>>

\* _atomic_create cannot unlink its file: its exception reaches the command, which
\* removes what came before.
UnlinkFails(p) ==
    /\ Creates(p, "withdraw")
    /\ faults < MaxFaults /\ faults' = faults + 1
    /\ RollBack(p, pc[p])
    /\ UNCHANGED <<tag, file, torn, fresh, issued, history>>

\* The process dies anywhere, or an unlink of the command's own except clause raises;
\* a directory that was being removed may have lost some of its files.
Crash(p) ==
    /\ pc[p] # "idle"
    /\ faults < MaxFaults /\ faults' = faults + 1
    /\ \/ UNCHANGED <<file, torn>>
       \/ /\ Creates(p, "rollback") /\ pc[p] \in Directory
          /\ LET rest == {t \in file[pc[p]] : SamePath(pc[p], t, tag[p])}
             IN /\ file' = [file EXCEPT ![pc[p]] = @ \ rest]
                /\ torn' = [torn EXCEPT ![pc[p]] = @ \cup rest]
    /\ Goto(p, "idle", "open")
    /\ UNCHANGED <<tag, fresh, issued, history>>

\* expires_at_unix passes; commands under way are not interrupted.
Expire ==
    /\ fresh
    /\ faults < MaxFaults /\ faults' = faults + 1
    /\ fresh' = FALSE
    /\ UNCHANGED <<pc, part, tag, file, torn, issued, history>>

----------------------------------------------------------------------------
PrivateSide(p) ==
    \/ \E s \in Session : PrepareInput(p, s)
    \/ VerifyChallenge(p)
    \/ \E d \in 1..MaxOutputs : VerifyResult(p, d)

RunnerSide(p) ==
    \/ AcceptInput(p) \/ EncryptChallenge(p)
    \/ RequirePublished(p) \/ ReadChallenge(p) \/ VerifyAck(p)
    \/ RequireGate(p) \/ MakeResult(p) \/ Refuse(p) \/ ProviderAttempt(p)

Creation(p) == CommitDirectory(p) \/ OpenFile(p) \/ FillFile(p) \/ SyncFile(p)

Failure(p) == Reject(p) \/ IoError(p) \/ Remove(p) \/ UnlinkFails(p) \/ Crash(p)

Next ==
    \/ \E p \in Proc : PrivateSide(p) \/ RunnerSide(p) \/ Creation(p) \/ Failure(p)
    \/ Expire

Spec == Init /\ [][Next]_vars

----------------------------------------------------------------------------
(* Properties *)

\* A challenge that encrypt-challenge reported is never rolled back by another
\* invocation: claim, envelope and retained secret stand and are of that challenge.
\* The gate is opened for a challenge whose holder has answered, of the session that
\* was joined; and however verify-ack is repeated, overlapped, failed or crashed, it
\* opens at most once and the provider is attempted at most once.  The challenge
\* behind it stands as well, except that encrypt-challenge takes it back when the
\* fsync of its claim fails after verify-ack has read that claim.
GateMeansProof ==
    /\ openings <= 1 /\ attempts <= openings
    /\ openings = 1 => file["gate"] # {}
    /\ \A r \in receipts : r[1] = "published" =>
          \A f \in {"published", "envelope", "secret"} : file[f] = {r[2]}
    /\ \A g \in file["gate"] :
          /\ g \in acked
          /\ \E t \in file["joined"] : t[1] = g[1]
          /\ \/ \E w \in withdrawn : w[1] = "published"
             \/ \A f \in {"published", "envelope", "secret"} : file[f] = {g}

\* A result is reported as verified once per private state, behind an answered
\* challenge of its session and, if live, behind the one open gate and attempt; claim
\* and verified directory stand.  A claim that was not reported has its directory, too,
\* unless its own fsync failed (verify-result).
AcceptanceIsFinal ==
    /\ \A r \in receipts : r[1] = "accepted" =>
          /\ r[2] \in file["accepted"] \cap file["output"]
          /\ \A q \in receipts : q[1] = "accepted" /\ q[2][1] = r[2][1] => q = r
    /\ \A a \in file["accepted"] :
          /\ \E t \in acked : t[1] = a[1]
          /\ Mode = "live" => attempts = 1 /\ \E g \in file["gate"] : g[1] = a[1]
          /\ <<"accepted", a>> \in withdrawn \/ a \in file["output"]

=============================================================================
