----------------------------- MODULE Blind_proofs -----------------------------
(***************************************************************************)
(* What holds of the blind lane: of a handoff (BlindHandoff) for every     *)
(* number of processes, sessions, challenges and faults, in both modes,    *)
(* and of the evaluation command (BlindEval) for every number of           *)
(* invocations and failures.                                               *)
(*                                                                         *)
(* Removals of a handoff go by path, whoever created what is there, and a  *)
(* file can be read before the fsync that may still take it back; so the   *)
(* danger is a command that takes away what another one has claimed or     *)
(* acted on.  A file that exists once has one creator until its fsync      *)
(* returns (OnceInv); one process at a time is behind the secret it        *)
(* created, and none once its challenge is reported (ChallengeInv); while  *)
(* no claim was taken back, only the challenge whose claim can be read has *)
(* envelope and secret, and gates are for it (PublishedInv, GateInv); and  *)
(* a verified directory belongs to the one process that is about to claim  *)
(* it, until that claim stands (AcceptInv, VerifiedInv).                   *)
(*                                                                         *)
(* None of the properties of the evaluation is inductive: what a failed    *)
(* operation leaves depends on how far commit_cli_outputs had come.        *)
(* PairInv says what the two paths hold before each of its operations,     *)
(* StagedInv which temporary files there may be, and PathInv what has gone *)
(* wrong so far.                                                           *)
(***************************************************************************)
EXTENDS BlindHandoff, BlindEval, TLAPS

----------------------------------------------------------------------------
(* A handoff *)

HandoffType ==
    /\ pc \in [Proc -> File \cup Reading \cup {"idle", "provider"}]
    /\ part \in [Proc -> Part]
    /\ tag \in [Proc -> Tag]
    /\ file \in [File -> SUBSET Tag]
    /\ torn \in [File -> SUBSET Tag]
    /\ issued \in Nat
    /\ receipts \subseteq Final \X Tag
    /\ \A p \in Proc :
          /\ part[p] # "open" => pc[p] \in File
          /\ pc[p] \in Directory => part[p] \in {"open", "rollback"}
          /\ part[p] = "rollback" => pc[p] \in {"state", "secret", "envelope", "ack", "output"}

\* p has opened the file it creates, and may still withdraw it.
Owns(p, f) == pc[p] = f /\ part[p] \in {"fill", "sync", "withdraw"}

\* The files of a handoff that exist once, with the one process that may be creating each.
OnceInv ==
    \A f \in {"secret", "envelope", "published", "gate"} :
       /\ \A t, u \in file[f] \cup torn[f] : t = u
       /\ \A p \in Proc : Owns(p, f) =>
             /\ file[f] \cup torn[f] = {tag[p]}
             /\ part[p] = "fill" => file[f] = {}
             /\ part[p] = "sync" => file[f] = {tag[p]}
       /\ \A p, q \in Proc : Owns(p, f) /\ Owns(q, f) => p = q

\* encrypt-challenge has created the secret, and may still remove it.
Behind(p) == (pc[p] = "secret" /\ part[p] # "open") \/ pc[p] \in {"envelope", "published"}

ChallengeInv ==
    /\ \A p, q \in Proc : Behind(p) /\ Behind(q) => p = q
    /\ \A p \in Proc : Behind(p) => file["secret"] \cup torn["secret"] = {tag[p]}
    /\ \A p \in Proc : pc[p] \in {"envelope", "published"} => file["secret"] = {tag[p]}
    /\ \A p \in Proc : pc[p] = "published" => file["envelope"] = {tag[p]}
    /\ \A r \in receipts : r[1] = "published" =>
          /\ \A f \in {"published", "envelope", "secret"} : file[f] = {r[2]}
          /\ \A p \in Proc : ~Behind(p)

\* No claim of encrypt-challenge was taken back once it could be read.
Steady == \A w \in withdrawn : w[1] # "published"

PublishedInv == Steady =>
    /\ file["published"] # {} =>
          /\ file["secret"] = file["published"]
          /\ file["envelope"] = file["published"]
    /\ \A p \in Proc : Behind(p) /\ file["published"] # {} =>
          pc[p] = "published" /\ part[p] = "sync"
    /\ \A p \in Proc : pc[p] = "verifyAck" => file["published"] # {}
    /\ \A p \in Proc : pc[p] \in {"compareAck", "gate"} => file["published"] = {tag[p]}
    /\ \A g \in file["gate"] : file["published"] = {g}

\* The joined session of a tag, and the acknowledgement of one of its challenges.
Joined(t) == \E u \in file["joined"] : u[1] = t[1]
Answered(t) == Joined(t) /\ \E k \in acked : k[1] = t[1]

GateInv ==
    /\ \A t, u \in file["joined"] : t = u
    /\ file["ack"] \subseteq acked
    /\ \A p \in Proc : pc[p] \in {"compareAck", "gate"} => Joined(tag[p])
    /\ \A p \in Proc : pc[p] = "gate" => tag[p] \in acked
    /\ \A g \in file["gate"] \cup torn["gate"] : g \in acked /\ Joined(g)

AttemptInv ==
    /\ openings \in {0, 1} /\ attempts \in {0, 1} /\ attempts <= openings
    /\ openings = 1 => file["gate"] # {} /\ \A p \in Proc : ~Owns(p, "gate")
    /\ \A p \in Proc : pc[p] = "provider" => attempts = 0 /\ openings = 1
    /\ \A p, q \in Proc : pc[p] = "provider" /\ pc[q] = "provider" => p = q

ResultInv ==
    /\ \A p \in Proc : pc[p] \in {"makeResult", "started", "result", "output", "accepted"} =>
          Answered(tag[p])
    /\ \A p \in Proc : pc[p] \in {"started", "result", "output", "accepted"} =>
          (Mode = "live" => attempts > 0)
    /\ \A t \in file["result"] \cup file["accepted"] :
          Answered(t) /\ (Mode = "live" => attempts > 0)

\* verify-result has committed its output directory, and may still remove it.
Accepting(p) == pc[p] = "accepted" \/ (pc[p] = "output" /\ part[p] = "rollback")

AcceptInv ==
    /\ \A t, u \in file["output"] \cup torn["output"] : t[2] = u[2] => t = u
    /\ \A p \in Proc : Accepting(p) => tag[p] \in file["output"]
    /\ \A p, q \in Proc : Accepting(p) /\ Accepting(q) /\ tag[p][2] = tag[q][2] => p = q
    /\ \A a, b \in file["accepted"] \cup torn["accepted"] : a[1] = b[1] => a = b
    /\ \A p \in Proc : Owns(p, "accepted") =>
          /\ tag[p] \in file["accepted"] \cup torn["accepted"]
          /\ part[p] = "fill" => tag[p] \notin file["accepted"]
          /\ part[p] = "sync" => tag[p] \in file["accepted"]
    /\ \A p, q \in Proc :
          Owns(p, "accepted") /\ Owns(q, "accepted") /\ tag[p][1] = tag[q][1] => p = q

\* A claim that stands has its directory, unless its fsync failed; nobody can take away
\* a claim, or the directory of a claim, that was reported.
VerifiedInv ==
    /\ \A a \in file["accepted"] : <<"accepted", a>> \notin withdrawn =>
          /\ a \in file["output"]
          /\ \A p \in Proc : Accepting(p) /\ tag[p][2] = a[2] =>
                Owns(p, "accepted") /\ part[p] = "sync"
    /\ \A r \in receipts : r[1] = "accepted" =>
          /\ r[2] \in file["accepted"] \cap file["output"]
          /\ \A p \in Proc : Accepting(p) => tag[p][2] # r[2][2]
          /\ \A p \in Proc : Owns(p, "accepted") => tag[p][1] # r[2][1]

HandoffInv ==
    /\ HandoffType /\ OnceInv /\ ChallengeInv /\ PublishedInv /\ GateInv
    /\ AttemptInv /\ ResultInv /\ AcceptInv /\ VerifiedInv

----------------------------------------------------------------------------
(* The tables of the module *)

\* The files, the order of their creation, and that of their removal.
LEMMA Order ==
  /\ File = {"state", "payload", "joined", "secret", "envelope", "published", "ack",
             "verified", "gate", "started", "result", "output", "accepted"}
  /\ \A f \in File :
        /\ Then[f] \in File \cup {"idle", "provider"}
        /\ Then[f] = "provider" => f = "gate"
        /\ Then[f] = "envelope" => f = "secret"
        /\ Then[f] = "published" => f = "envelope"
        /\ Then[f] = "result" => f = "started"
        /\ Then[f] = "accepted" => f = "output"
        /\ Then[f] \notin {"secret", "gate", "started", "output"}
        /\ f \in Final => Then[f] = "idle"
BY DEF File, Then, Final

LEMMA Removals ==
  \A f \in File :
     /\ Before(f) \in {"idle", "state", "secret", "envelope", "ack", "output"}
     /\ Before(f) = "secret" => f = "envelope"
     /\ Before(f) = "envelope" => f = "published"
     /\ Before(f) = "output" => f = "accepted"
BY DEF Before

\* No file exists and no command has begun.
LEMMA HandoffStart == Init => HandoffInv
<1> SUFFICES ASSUME Init PROVE HandoffInv
  OBVIOUS
<1>1. HandoffType
  BY DEF Init, HandoffType, Tag, Part
<1>2. \A f \in {"secret", "envelope", "published", "ack", "joined", "gate", "result", "output",
                "accepted"} : file[f] = {} /\ torn[f] = {}
  BY Order DEF Init
<1>3. \A p \in Proc : pc[p] = "idle" /\ part[p] = "open"
  BY DEF Init
<1>4. openings = 0 /\ attempts = 0 /\ receipts = {}
  BY DEF Init
<1> QED BY <1>1, <1>2, <1>3, <1>4
     DEF HandoffInv, OnceInv, ChallengeInv, PublishedInv, GateInv, AttemptInv, ResultInv,
         AcceptInv, VerifiedInv, Owns, Behind, Accepting

----------------------------------------------------------------------------
(* The commands *)

\* What a process may turn to with nothing created, given what it has read.
Justified(first, t) ==
    /\ t \in Tag
    /\ first \in {"idle", "state", "joined", "secret", "ack", "verifyAck", "compareAck", "gate",
                  "makeResult", "started", "output"}
    /\ first = "verifyAck" => file["published"] # {}
    /\ first \in {"compareAck", "gate"} => Joined(t) /\ (Steady => file["published"] = {t})
    /\ first = "gate" => t \in acked
    /\ first \in {"makeResult", "started", "output"} => Answered(t)
    /\ first \in {"started", "output"} => (Mode = "live" => attempts > 0)

Turns(p, first, t) ==
    /\ Goto(p, first, "open")
    /\ tag' = [tag EXCEPT ![p] = t]
    /\ issued' \in Nat
    /\ UNCHANGED <<file, torn, history>>

\* Whatever a process leaves behind, and whatever it begins, what it has read stands.
LEMMA TurnKeeps ==
  ASSUME HandoffInv, NEW p \in Proc, NEW first, NEW t, Turns(p, first, t), Justified(first, t)
  PROVE  HandoffInv'
<1>1. /\ UNCHANGED <<file, torn, openings, attempts, acked, receipts, withdrawn>>
      /\ issued' \in Nat
  BY DEF Turns, history
<1>2. /\ pc'[p] = first /\ part'[p] = "open" /\ tag'[p] = t
      /\ \A q \in Proc : q # p => pc'[q] = pc[q] /\ part'[q] = part[q] /\ tag'[q] = tag[q]
  BY DEF Turns, Goto, HandoffInv, HandoffType
<1>3. /\ first \in {"idle", "state", "joined", "secret", "ack", "verifyAck", "compareAck", "gate",
                    "makeResult", "started", "output"}
      /\ t \in Tag
  BY DEF Justified
<1>4. HandoffType'
  <2>1. /\ pc' \in [Proc -> File \cup Reading \cup {"idle", "provider"}]
        /\ part' \in [Proc -> Part] /\ tag' \in [Proc -> Tag]
    BY <1>3, Order DEF Turns, Goto, HandoffInv, HandoffType, Reading, Part
  <2> QED BY <1>1, <1>2, <2>1 DEF HandoffInv, HandoffType
<1>5. OnceInv'
  BY <1>1, <1>2 DEF HandoffInv, OnceInv, Owns
<1>6. ChallengeInv'
  BY <1>1, <1>2, <1>3 DEF HandoffInv, ChallengeInv, Behind
<1>7. PublishedInv'
  BY <1>1, <1>2, <1>3 DEF HandoffInv, PublishedInv, Steady, Behind, Justified
<1>8. GateInv'
  BY <1>1, <1>2 DEF HandoffInv, GateInv, Joined, Justified
<1>9. AttemptInv'
  BY <1>1, <1>2, <1>3 DEF HandoffInv, AttemptInv, Owns
<1>10. ResultInv'
  BY <1>1, <1>2, <1>3 DEF HandoffInv, ResultInv, Answered, Joined, Justified
<1>11. AcceptInv'
  BY <1>1, <1>2, <1>3 DEF HandoffInv, AcceptInv, Owns, Accepting
<1>12. VerifiedInv'
  BY <1>1, <1>2, <1>3 DEF HandoffInv, VerifiedInv, Owns, Accepting
<1> QED BY <1>4, <1>5, <1>6, <1>7, <1>8, <1>9, <1>10, <1>11, <1>12 DEF HandoffInv

\* The challenge verify-ack has read is the published one, if no claim was taken back.
LEMMA ReadPublished ==
  ASSUME HandoffInv, NEW p \in Proc, pc[p] = "verifyAck",
         NEW t \in file["secret"] \cap file["envelope"]
  PROVE  Steady => file["published"] = {t}
BY Order DEF HandoffInv, OnceInv, PublishedInv

\* The commands read what their first file needs.
LEMMA CommandKeeps ==
  ASSUME HandoffInv, NEW p \in Proc, PrivateSide(p) \/ RunnerSide(p), ~ProviderAttempt(p)
  PROVE  HandoffInv'
<1>1. \A f \in File : file[f] \subseteq Tag
  BY DEF HandoffInv, HandoffType
<1>2. {"payload", "joined", "envelope", "published", "ack", "secret", "gate", "result", "state"}
         \subseteq File
  BY Order
<1>3. issued \in Nat /\ tag[p] \in Tag /\ tag = [tag EXCEPT ![p] = tag[p]]
  BY DEF HandoffInv, HandoffType
<1>4. ASSUME NEW s \in Session, PrepareInput(p, s) PROVE HandoffInv'
  <2>1. <<s, 0>> \in Tag
    BY DEF Tag
  <2> QED BY <1>3, <1>4, <2>1, TurnKeeps DEF PrepareInput, Begin, Turns, Justified
<1>5. CASE AcceptInput(p)
  BY <1>1, <1>2, <1>3, <1>5, TurnKeeps DEF AcceptInput, Begin, Turns, Justified
<1>6. CASE EncryptChallenge(p)
  <2>1. PICK t \in file["joined"] : Begin(p, "secret", <<t[1], issued + 1>>)
    BY <1>6 DEF EncryptChallenge
  <2>2. <<t[1], issued + 1>> \in Tag
    <3>1. t \in Tag
      BY <1>1, <1>2, <2>1
    <3> QED BY <1>3, <3>1 DEF Tag
  <2>3. issued' \in Nat
    BY <1>3, <1>6 DEF EncryptChallenge
  <2> QED BY <2>1, <2>2, <2>3, TurnKeeps DEF Begin, Turns, Justified
<1>7. CASE VerifyChallenge(p)
  BY <1>1, <1>2, <1>3, <1>7, TurnKeeps DEF VerifyChallenge, Begin, Turns, Justified
<1>8. CASE RequirePublished(p)
  <2>1. PICK t \in file["published"] : Turns(p, "verifyAck", t)
    BY <1>3, <1>8 DEF RequirePublished, RequireClaim, Turns
  <2> QED BY <1>1, <1>2, <2>1, TurnKeeps DEF Justified
<1>9. CASE ReadChallenge(p)
  <2>1. PICK t \in file["secret"] \cap file["envelope"] :
           /\ \E u \in file["joined"] : u[1] = t[1]
           /\ Turns(p, "compareAck", t)
    BY <1>3, <1>9 DEF ReadChallenge, Turns
  <2>2. Steady => file["published"] = {t}
    BY <1>9, <2>1, ReadPublished DEF ReadChallenge
  <2> QED BY <1>1, <1>2, <2>1, <2>2, TurnKeeps DEF Justified, Joined
<1>10. CASE VerifyAck(p)
  <2>1. Begin(p, "gate", tag[p]) /\ issued' \in Nat
    BY <1>3, <1>10 DEF VerifyAck
  <2>2. /\ Joined(tag[p]) /\ (Steady => file["published"] = {tag[p]})
        /\ tag[p] \in acked
    BY <1>10 DEF VerifyAck, HandoffInv, GateInv, PublishedInv
  <2> QED BY <1>3, <2>1, <2>2, TurnKeeps DEF Begin, Turns, Justified
<1>11. CASE RequireGate(p)
  <2>1. PICK t \in file["gate"] : Turns(p, "makeResult", t)
    BY <1>3, <1>11 DEF RequireGate, RequireClaim, Turns
  <2>2. Answered(t)
    BY <2>1 DEF HandoffInv, GateInv, Answered
  <2> QED BY <1>1, <1>2, <2>1, <2>2, TurnKeeps DEF Justified
<1>12. CASE MakeResult(p)
  <2>1. Answered(tag[p])
    BY <1>12 DEF MakeResult, HandoffInv, ResultInv
  <2> QED BY <1>3, <1>12, <2>1, TurnKeeps DEF MakeResult, Begin, Turns, Justified
<1>13. ASSUME NEW d \in 1..MaxOutputs, VerifyResult(p, d) PROVE HandoffInv'
  <2>1. PICK t \in file["result"] : Begin(p, "output", <<t[1], d>>)
    BY <1>13 DEF VerifyResult
  <2>2. t \in Tag /\ Answered(t) /\ (Mode = "live" => attempts > 0)
    BY <1>1, <1>2, <2>1 DEF HandoffInv, ResultInv
  <2>3. <<t[1], d>> \in Tag /\ Answered(<<t[1], d>>)
    BY <2>2 DEF Tag, Answered, Joined
  <2>4. issued' \in Nat
    BY <1>3, <1>13 DEF VerifyResult
  <2> QED BY <2>1, <2>2, <2>3, <2>4, TurnKeeps DEF Begin, Turns, Justified
<1>14. CASE Refuse(p)
  BY <1>3, <1>14, TurnKeeps DEF Refuse, Turns, Justified
<1> QED BY <1>4, <1>5, <1>6, <1>7, <1>8, <1>9, <1>10, <1>11, <1>12, <1>13, <1>14
     DEF PrivateSide, RunnerSide

\* The provider is attempted behind the one gate, once.
LEMMA AttemptKeeps ==
  ASSUME HandoffInv, NEW p \in Proc, ProviderAttempt(p)
  PROVE  HandoffInv'
<1>1. /\ pc[p] = "provider"
      /\ attempts' = IF Mode = "live" THEN attempts + 1 ELSE attempts
      /\ UNCHANGED <<tag, file, torn, issued, openings, acked, receipts, withdrawn>>
  BY DEF ProviderAttempt
<1>2. /\ pc'[p] = "idle" /\ part'[p] = "open"
      /\ \A q \in Proc : q # p => pc'[q] = pc[q] /\ part'[q] = part[q]
  BY DEF ProviderAttempt, Goto, HandoffInv, HandoffType
<1>3. HandoffType'
  <2>1. pc' \in [Proc -> File \cup Reading \cup {"idle", "provider"}] /\ part' \in [Proc -> Part]
    BY DEF ProviderAttempt, Goto, HandoffInv, HandoffType, Part
  <2> QED BY <1>1, <1>2, <2>1, Order DEF HandoffInv, HandoffType, Directory
<1>4. OnceInv'
  BY <1>1, <1>2 DEF HandoffInv, OnceInv, Owns
<1>5. ChallengeInv'
  BY <1>1, <1>2 DEF HandoffInv, ChallengeInv, Behind
<1>6. PublishedInv'
  BY <1>1, <1>2 DEF HandoffInv, PublishedInv, Steady, Behind
<1>7. GateInv'
  BY <1>1, <1>2 DEF HandoffInv, GateInv, Joined
<1>8. attempts = 0 /\ openings = 1 /\ attempts' \in {0, 1} /\ attempts' >= attempts
  BY <1>1 DEF HandoffInv, AttemptInv
<1>9. AttemptInv'
  BY <1>1, <1>2, <1>8 DEF HandoffInv, AttemptInv, Owns
<1>10. ResultInv'
  BY <1>1, <1>2, <1>8 DEF HandoffInv, ResultInv, Answered, Joined
<1>11. AcceptInv'
  BY <1>1, <1>2 DEF HandoffInv, AcceptInv, Owns, Accepting
<1>12. VerifiedInv'
  BY <1>1, <1>2 DEF HandoffInv, VerifiedInv, Owns, Accepting
<1> QED BY <1>3, <1>4, <1>5, <1>6, <1>7, <1>9, <1>10, <1>11, <1>12 DEF HandoffInv

----------------------------------------------------------------------------
(* The steps of a creation *)

\* A directory is committed under a path that was free, and its command goes on.
LEMMA CommitKeeps ==
  ASSUME HandoffInv, NEW p \in Proc, CommitDirectory(p)
  PROVE  HandoffInv'
<1> DEFINE f == pc[p]
<1>1. /\ f \in Directory /\ f \in File /\ part[p] = "open" /\ tag[p] \in Tag
      /\ \A t \in file[f] \cup torn[f] : ~SamePath(f, t, tag[p])
      /\ UNCHANGED <<tag, torn, issued, openings, attempts, acked, receipts, withdrawn>>
  BY DEF CommitDirectory, Creates, Collides, Return, Directory, Final, HandoffInv, HandoffType
<1>2. /\ pc'[p] = Then[f] /\ part'[p] = "open"
      /\ \A q \in Proc : q # p => pc'[q] = pc[q] /\ part'[q] = part[q]
      /\ Then[f] \in {"idle", "payload", "accepted"} /\ (Then[f] = "accepted" => f = "output")
  BY <1>1 DEF CommitDirectory, Return, Goto, HandoffInv, HandoffType, Directory, Then
<1>3. /\ file' \in [File -> SUBSET Tag]
      /\ \A g \in File : file'[g] = IF g = f THEN file[g] \cup {tag[p]} ELSE file[g]
  BY <1>1 DEF CommitDirectory, HandoffInv, HandoffType
<1>4. /\ {"secret", "envelope", "published", "ack", "gate", "joined", "result", "output",
          "accepted"} \subseteq File
      /\ f \in {"state", "joined", "output"}
  BY <1>1, Order DEF Directory
<1>5. HandoffType'
  <2>1. pc' \in [Proc -> File \cup Reading \cup {"idle", "provider"}] /\ part' \in [Proc -> Part]
    BY <1>1, <1>2, Order DEF CommitDirectory, Return, Goto, HandoffInv, HandoffType, Part
  <2> QED BY <1>1, <1>2, <1>3, <2>1, Order DEF HandoffInv, HandoffType
<1> HIDE DEF f
<1>6. OnceInv'
  BY <1>1, <1>2, <1>3, <1>4 DEF HandoffInv, OnceInv, Owns, f
<1>7. ChallengeInv'
  BY <1>1, <1>2, <1>3, <1>4 DEF HandoffInv, ChallengeInv, Behind, f
<1>8. PublishedInv'
  BY <1>1, <1>2, <1>3, <1>4 DEF HandoffInv, PublishedInv, Steady, Behind, f
<1>9. GateInv'
  <2>1. f = "joined" => file["joined"] = {}
    BY <1>1 DEF SamePath
  <2> QED BY <1>1, <1>2, <1>3, <1>4, <2>1 DEF HandoffInv, GateInv, Joined, f
<1>10. AttemptInv'
  BY <1>1, <1>2, <1>3, <1>4 DEF HandoffInv, AttemptInv, Owns, f
<1>11. ResultInv'
  BY <1>1, <1>2, <1>3, <1>4 DEF HandoffInv, ResultInv, Answered, Joined, f
<1>12. f = "output" => \A t \in file["output"] \cup torn["output"] : t[2] # tag[p][2]
  BY <1>1 DEF SamePath
<1>13. AcceptInv'
  BY <1>1, <1>2, <1>3, <1>4, <1>12 DEF HandoffInv, AcceptInv, Owns, Accepting, f
<1>14. VerifiedInv'
  BY <1>1, <1>2, <1>3, <1>4, <1>12 DEF HandoffInv, VerifiedInv, Owns, Accepting, f
<1> QED BY <1>5, <1>6, <1>7, <1>8, <1>9, <1>10, <1>11, <1>13, <1>14 DEF HandoffInv

\* A file is opened under a path that was free.
LEMMA OpenKeeps ==
  ASSUME HandoffInv, NEW p \in Proc, OpenFile(p)
  PROVE  HandoffInv'
<1> DEFINE f == pc[p]
<1>1. /\ f \notin Directory /\ f \in File /\ part[p] = "open" /\ tag[p] \in Tag
      /\ \A t \in file[f] \cup torn[f] : ~SamePath(f, t, tag[p])
      /\ UNCHANGED <<tag, file, issued, openings, attempts, acked, receipts, withdrawn>>
  BY DEF OpenFile, Creates, Collides, history, HandoffInv, HandoffType
<1>2. /\ pc'[p] = f /\ part'[p] = "fill"
      /\ \A q \in Proc : q # p => pc'[q] = pc[q] /\ part'[q] = part[q]
  BY <1>1 DEF OpenFile, Goto, HandoffInv, HandoffType
<1>3. /\ torn' \in [File -> SUBSET Tag]
      /\ \A g \in File : torn'[g] = IF g = f THEN torn[g] \cup {tag[p]} ELSE torn[g]
  BY <1>1 DEF OpenFile, HandoffInv, HandoffType
<1>4. /\ {"secret", "envelope", "published", "ack", "gate", "joined", "result", "output",
          "accepted"} \subseteq File
      /\ f \notin {"state", "joined", "output"}
  BY <1>1, Order DEF Directory
<1>5. HandoffType'
  <2>1. pc' \in [Proc -> File \cup Reading \cup {"idle", "provider"}] /\ part' \in [Proc -> Part]
    BY <1>1 DEF OpenFile, Goto, HandoffInv, HandoffType, Part
  <2> QED BY <1>1, <1>2, <1>3, <2>1 DEF HandoffInv, HandoffType
<1>6. f \notin {"state", "verified", "accepted", "output"} => file[f] = {} /\ torn[f] = {}
  BY <1>1 DEF SamePath
<1> HIDE DEF f
<1>7. OnceInv'
  <2> SUFFICES ASSUME NEW g \in {"secret", "envelope", "published", "gate"}
               PROVE  /\ \A t, u \in file'[g] \cup torn'[g] : t = u
                      /\ \A q \in Proc : Owns(q, g)' =>
                            /\ file'[g] \cup torn'[g] = {tag'[q]}
                            /\ part'[q] = "fill" => file'[g] = {}
                            /\ part'[q] = "sync" => file'[g] = {tag'[q]}
                      /\ \A q, r \in Proc : Owns(q, g)' /\ Owns(r, g)' => q = r
    BY DEF OnceInv
  <2>1. \A q \in Proc : q # p => (Owns(q, g)' <=> Owns(q, g))
    BY <1>2 DEF Owns
  <2>2. CASE g = f
    <3>1. file'[g] = {} /\ torn'[g] = {tag[p]}
      BY <1>1, <1>3, <1>6, <2>2
    <3>2. \A q \in Proc : ~Owns(q, g)
      BY <1>6, <2>2 DEF HandoffInv, OnceInv
    <3> QED BY <1>1, <1>2, <2>1, <3>1, <3>2
  <2>3. CASE g # f
    <3>1. file'[g] = file[g] /\ torn'[g] = torn[g] /\ ~Owns(p, g)'
      BY <1>1, <1>2, <1>3, <1>4, <2>3 DEF Owns
    <3>2. \A q \in Proc : q # p => (part'[q] = part[q])
      BY <1>2
    <3> QED BY <1>1, <2>1, <3>1, <3>2 DEF HandoffInv, OnceInv
  <2> QED BY <2>2, <2>3
<1>8. ChallengeInv'
  <2>1. f = "secret" => \A q \in Proc : ~Behind(q)
    BY <1>6 DEF HandoffInv, ChallengeInv
  <2> QED BY <1>1, <1>2, <1>3, <1>4, <1>6, <2>1 DEF HandoffInv, ChallengeInv, Behind, f
<1>9. PublishedInv'
  BY <1>1, <1>2, <1>3, <1>4, <1>6 DEF HandoffInv, PublishedInv, Steady, Behind, f
<1>10. GateInv'
  BY <1>1, <1>2, <1>3, <1>4 DEF HandoffInv, GateInv, Joined, f
<1>11. AttemptInv'
  BY <1>1, <1>2, <1>3, <1>4, <1>6 DEF HandoffInv, AttemptInv, Owns, f
<1>12. ResultInv'
  BY <1>1, <1>2, <1>3, <1>4 DEF HandoffInv, ResultInv, Answered, Joined, f
<1>13. f = "accepted" => \A t \in file["accepted"] \cup torn["accepted"] : t[1] # tag[p][1]
  BY <1>1 DEF SamePath
<1>14. AcceptInv'
  BY <1>1, <1>2, <1>3, <1>4, <1>13 DEF HandoffInv, AcceptInv, Owns, Accepting, f
<1>15. VerifiedInv'
  BY <1>1, <1>2, <1>3, <1>4, <1>13 DEF HandoffInv, VerifiedInv, Owns, Accepting, f
<1> QED BY <1>5, <1>7, <1>8, <1>9, <1>10, <1>11, <1>12, <1>14, <1>15 DEF HandoffInv

\* The content of an opened file can be read; the fsync is still to come.
LEMMA FillKeeps ==
  ASSUME HandoffInv, NEW p \in Proc, FillFile(p)
  PROVE  HandoffInv'
<1> DEFINE f == pc[p]
<1>1. /\ f \in File /\ part[p] = "fill" /\ tag[p] \in Tag
      /\ UNCHANGED <<tag, issued, openings, attempts, receipts, withdrawn>>
      /\ acked' = IF f = "ack" THEN acked \cup {tag[p]} ELSE acked
  BY DEF FillFile, Creates, HandoffInv, HandoffType
<1>2. /\ pc'[p] = f /\ part'[p] = "sync"
      /\ \A q \in Proc : q # p => pc'[q] = pc[q] /\ part'[q] = part[q]
  BY <1>1 DEF FillFile, Goto, HandoffInv, HandoffType
<1>3. /\ torn' \in [File -> SUBSET Tag] /\ file' \in [File -> SUBSET Tag]
      /\ \A g \in File : torn'[g] = IF g = f THEN torn[g] \ {tag[p]} ELSE torn[g]
      /\ \A g \in File : file'[g] = IF g = f THEN file[g] \cup {tag[p]} ELSE file[g]
  BY <1>1 DEF FillFile, HandoffInv, HandoffType
<1>4. /\ {"secret", "envelope", "published", "ack", "gate", "joined", "result", "output",
          "accepted"} \subseteq File
      /\ f \notin {"state", "joined", "output"}
  BY <1>1, Order DEF Directory, HandoffInv, HandoffType
<1>5. HandoffType'
  <2>1. pc' \in [Proc -> File \cup Reading \cup {"idle", "provider"}] /\ part' \in [Proc -> Part]
    BY <1>1 DEF FillFile, Goto, HandoffInv, HandoffType, Part
  <2> QED BY <1>1, <1>2, <1>3, <1>4, <2>1 DEF HandoffInv, HandoffType, Directory
<1>6. Owns(p, f)
  BY <1>1 DEF Owns
<1>7. f \in {"secret", "envelope", "published", "gate"} =>
         /\ file[f] = {} /\ torn[f] = {tag[p]}
         /\ \A q \in Proc : Owns(q, f) => q = p
  BY <1>1, <1>6 DEF HandoffInv, OnceInv
<1> HIDE DEF f
<1>8. OnceInv'
  BY <1>1, <1>2, <1>3, <1>4, <1>7 DEF HandoffInv, OnceInv, Owns, f
<1>9. ChallengeInv'
  BY <1>1, <1>2, <1>3, <1>4, <1>7 DEF HandoffInv, ChallengeInv, Behind, f
<1>10. PublishedInv'
  <2>1. f \in {"secret", "envelope", "published"} /\ Steady => file["published"] = {}
    BY <1>1 DEF HandoffInv, PublishedInv, Behind, f
  <2>2. f = "published" => /\ file["secret"] = {tag[p]} /\ file["envelope"] = {tag[p]}
                           /\ \A q \in Proc : Behind(q) => q = p
    BY DEF HandoffInv, ChallengeInv, Behind, f
  <2>3. f = "gate" /\ Steady => file["published"] = {tag[p]}
    BY DEF HandoffInv, PublishedInv, f
  <2>4. \A q \in Proc : Behind(q)' <=> Behind(q)
    BY <1>1, <1>2 DEF Behind, f
  <2>5. \A q \in Proc : pc'[q] = pc[q] /\ (part'[q] = part[q] \/ q = p)
    BY <1>2 DEF f
  <2>6. Steady' <=> Steady
    BY <1>1 DEF Steady
  <2>7. CASE f = "published"
    <3>1. /\ file'["published"] = {tag[p]}
          /\ \A g \in {"secret", "envelope", "gate"} : file'[g] = file[g]
      BY <1>3, <1>4, <1>7, <2>7
    <3>2. Steady => file["gate"] = {} /\ \A q \in Proc : pc[q] \notin {"compareAck", "gate"}
      BY <2>1, <2>7 DEF HandoffInv, PublishedInv
    <3> QED BY <1>2, <2>2, <2>4, <2>5, <2>6, <2>7, <3>1, <3>2 DEF PublishedInv
  <2>8. CASE f # "published"
    <3>1. /\ file'["published"] = file["published"]
          /\ \A g \in {"secret", "envelope", "gate"} : g # f => file'[g] = file[g]
      BY <1>3, <1>4, <2>8
    <3>2. f = "gate" => file'["gate"] = {tag[p]}
      BY <1>3, <1>4, <1>7
    <3> QED BY <1>1, <2>1, <2>3, <2>4, <2>5, <2>6, <2>8, <3>1, <3>2 DEF HandoffInv, PublishedInv, f
  <2> QED BY <2>7, <2>8
<1>11. GateInv'
  BY <1>1, <1>2, <1>3, <1>4 DEF HandoffInv, GateInv, Joined, f
<1>12. AttemptInv'
  BY <1>1, <1>2, <1>3, <1>4 DEF HandoffInv, AttemptInv, Owns, f
<1>13. ResultInv'
  BY <1>1, <1>2, <1>3, <1>4 DEF HandoffInv, ResultInv, Answered, Joined, f
<1>14. AcceptInv'
  BY <1>1, <1>2, <1>3, <1>4 DEF HandoffInv, AcceptInv, Owns, Accepting, f
<1>15. VerifiedInv'
  BY <1>1, <1>2, <1>3, <1>4 DEF HandoffInv, VerifiedInv, AcceptInv, Owns, Accepting, f
<1> QED BY <1>5, <1>8, <1>9, <1>10, <1>11, <1>12, <1>13, <1>14, <1>15 DEF HandoffInv

\* The fsync succeeds: the file stays, and a last claim is reported.
LEMMA SyncKeeps ==
  ASSUME HandoffInv, NEW p \in Proc, SyncFile(p)
  PROVE  HandoffInv'
<1> DEFINE f == pc[p]
<1>1. /\ f \in File /\ part[p] = "sync" /\ tag[p] \in Tag
      /\ UNCHANGED <<tag, file, torn, issued, attempts, acked, withdrawn>>
      /\ openings' = IF f = "gate" THEN openings + 1 ELSE openings
      /\ receipts' = IF f \in {"published", "accepted"} THEN receipts \cup {<<f, tag[p]>>}
                                                        ELSE receipts
  BY DEF SyncFile, Creates, Return, Final, HandoffInv, HandoffType
<1>2. /\ pc'[p] = Then[f] /\ part'[p] = "open"
      /\ \A q \in Proc : q # p => pc'[q] = pc[q] /\ part'[q] = part[q]
  BY <1>1 DEF SyncFile, Return, Goto, HandoffInv, HandoffType
<1>3. /\ Then[f] \in File \cup {"idle", "provider"}
      /\ Then[f] = "provider" => f = "gate"
      /\ Then[f] = "envelope" => f = "secret"
      /\ Then[f] = "published" => f = "envelope"
      /\ Then[f] = "result" => f = "started"
      /\ Then[f] = "accepted" => f = "output"
      /\ Then[f] \notin {"secret", "gate", "started", "output"}
      /\ f \in {"published", "accepted"} => Then[f] = "idle"
  BY <1>1, Order DEF Final
<1>4. /\ {"secret", "envelope", "published", "ack", "gate", "joined", "result", "output",
          "accepted"} \subseteq File
      /\ f \notin {"state", "joined", "output"}
      /\ Then[f] \notin Reading
  BY <1>1, <1>3, Order DEF Directory, Reading, HandoffInv, HandoffType
<1>5. HandoffType'
  <2>1. pc' \in [Proc -> File \cup Reading \cup {"idle", "provider"}] /\ part' \in [Proc -> Part]
    BY <1>1, <1>3 DEF SyncFile, Return, Goto, HandoffInv, HandoffType, Part
  <2>2. receipts' \subseteq Final \X Tag
    BY <1>1 DEF HandoffInv, HandoffType, Final
  <2> QED BY <1>1, <1>2, <2>1, <2>2 DEF HandoffInv, HandoffType
<1>6. Owns(p, f)
  BY <1>1 DEF Owns
<1>7. f \in {"secret", "envelope", "published", "gate"} =>
         /\ file[f] = {tag[p]}
         /\ \A q \in Proc : Owns(q, f) => q = p
  BY <1>1, <1>6 DEF HandoffInv, OnceInv
<1> HIDE DEF f
<1>8. OnceInv'
  BY <1>1, <1>2, <1>4 DEF HandoffInv, OnceInv, Owns, f
<1>9. ChallengeInv'
  BY <1>1, <1>2, <1>3, <1>4, <1>7 DEF HandoffInv, ChallengeInv, Behind, f
<1>10. PublishedInv'
  BY <1>1, <1>2, <1>3, <1>4, <1>7 DEF HandoffInv, PublishedInv, ChallengeInv, Steady, Behind,
       Reading, f
<1>11. GateInv'
  BY <1>1, <1>2, <1>3, <1>4 DEF HandoffInv, GateInv, Joined, Reading, f
<1>12. AttemptInv'
  BY <1>1, <1>2, <1>3, <1>4, <1>6, <1>7 DEF HandoffInv, AttemptInv, Owns, f
<1>13. ResultInv'
  BY <1>1, <1>2, <1>3, <1>4 DEF HandoffInv, ResultInv, Answered, Joined, Reading, f
<1>14. AcceptInv'
  BY <1>1, <1>2, <1>3, <1>4 DEF HandoffInv, AcceptInv, Owns, Accepting, f
<1>15. VerifiedInv'
  BY <1>1, <1>2, <1>3, <1>4, <1>6 DEF HandoffInv, VerifiedInv, AcceptInv, Owns, Accepting, f
<1> QED BY <1>5, <1>8, <1>9, <1>10, <1>11, <1>12, <1>13, <1>14, <1>15 DEF HandoffInv

----------------------------------------------------------------------------
(* Failures *)

\* A command goes on with the file before the one it created, or has taken away.
LEMMA RollBackKeeps ==
  ASSUME HandoffInv, NEW p \in Proc, pc[p] \in File, part[p] \in {"open", "withdraw"},
         RollBack(p, pc[p]), UNCHANGED <<tag, file, torn, issued, history>>
  PROVE  HandoffInv'
<1> DEFINE f == pc[p]
           b == Before(f)
<1>1. UNCHANGED <<tag, file, torn, issued, openings, attempts, acked, receipts, withdrawn>>
  BY DEF history
<1>2. /\ pc'[p] = b /\ part'[p] = IF b = "idle" THEN "open" ELSE "rollback"
      /\ \A q \in Proc : q # p => pc'[q] = pc[q] /\ part'[q] = part[q]
  BY DEF RollBack, Goto, HandoffInv, HandoffType
<1>3. /\ b \in {"idle", "state", "secret", "envelope", "ack", "output"}
      /\ b = "secret" => f = "envelope"
      /\ b = "envelope" => f = "published"
      /\ b = "output" => f = "accepted"
  BY Removals
<1>4. HandoffType'
  <2>1. pc' \in [Proc -> File \cup Reading \cup {"idle", "provider"}] /\ part' \in [Proc -> Part]
    BY <1>3, Order DEF RollBack, Goto, HandoffInv, HandoffType, Part
  <2> QED BY <1>1, <1>2, <1>3, <2>1, Order DEF HandoffInv, HandoffType, Directory
<1>5. part[p] # "sync"
  OBVIOUS
<1> HIDE DEF f, b
<1>6. OnceInv'
  BY <1>1, <1>2 DEF HandoffInv, OnceInv, Owns
<1>7. ChallengeInv'
  BY <1>1, <1>2, <1>3 DEF HandoffInv, ChallengeInv, Behind, f
<1>8. PublishedInv'
  BY <1>1, <1>2, <1>3, <1>5 DEF HandoffInv, PublishedInv, Steady, Behind, f
<1>9. GateInv'
  BY <1>1, <1>2, <1>3 DEF HandoffInv, GateInv, Joined
<1>10. AttemptInv'
  BY <1>1, <1>2, <1>3 DEF HandoffInv, AttemptInv, Owns
<1>11. ResultInv'
  BY <1>1, <1>2, <1>3 DEF HandoffInv, ResultInv, Answered, Joined, f
<1>12. AcceptInv'
  BY <1>1, <1>2, <1>3 DEF HandoffInv, AcceptInv, Owns, Accepting, f
<1>13. VerifiedInv'
  BY <1>1, <1>2, <1>3, <1>5 DEF HandoffInv, VerifiedInv, Owns, Accepting, f
<1> QED BY <1>4, <1>6, <1>7, <1>8, <1>9, <1>10, <1>11, <1>12, <1>13 DEF HandoffInv

\* The write or the fsync fails: the file will be withdrawn.
LEMMA WithdrawKeeps ==
  ASSUME HandoffInv, NEW p \in Proc, IoError(p), part[p] # "open"
  PROVE  HandoffInv'
<1> DEFINE f == pc[p]
<1>1. /\ f \in File /\ part[p] \in {"fill", "sync"}
      /\ UNCHANGED <<tag, file, torn, issued, openings, attempts, acked, receipts>>
      /\ withdrawn' = IF part[p] = "sync" /\ f \in {"published", "accepted"}
                      THEN withdrawn \cup {<<f, tag[p]>>} ELSE withdrawn
  BY DEF IoError, Final
<1>2. /\ pc'[p] = f /\ part'[p] = "withdraw" /\ part[p] # "open"
      /\ \A q \in Proc : q # p => pc'[q] = pc[q] /\ part'[q] = part[q]
  BY DEF IoError, Goto, HandoffInv, HandoffType
<1>3. HandoffType'
  <2>1. pc' \in [Proc -> File \cup Reading \cup {"idle", "provider"}] /\ part' \in [Proc -> Part]
    BY DEF IoError, Goto, HandoffInv, HandoffType, Part
  <2> QED BY <1>1, <1>2, <2>1 DEF HandoffInv, HandoffType
<1> HIDE DEF f
<1>4. \A q \in Proc, g \in File : Owns(q, g)' <=> Owns(q, g)
  BY <1>1, <1>2 DEF Owns, f
<1>5. \A q \in Proc : Behind(q)' <=> Behind(q)
  BY <1>1, <1>2 DEF Behind, f
<1>6. {"secret", "envelope", "published", "gate", "accepted"} \subseteq File
  BY Order
<1>7. OnceInv'
  BY <1>1, <1>2, <1>4, <1>6 DEF HandoffInv, OnceInv
<1>8. ChallengeInv'
  BY <1>1, <1>2, <1>5 DEF HandoffInv, ChallengeInv, f
<1>9. PublishedInv'
  <2>1. /\ Steady' => Steady
        /\ f = "published" /\ part[p] = "sync" => ~Steady'
    <3>1. f = "published" /\ part[p] = "sync" => <<"published", tag[p]>> \in withdrawn'
      BY <1>1
    <3>2. withdrawn \subseteq withdrawn'
      BY <1>1
    <3> QED BY <3>1, <3>2 DEF Steady
  <2>2. Steady /\ f = "published" /\ file["published"] # {} => part[p] = "sync"
    BY DEF HandoffInv, PublishedInv, Behind, f
  <2> QED BY <1>1, <1>2, <1>5, <2>1, <2>2 DEF HandoffInv, PublishedInv, f
<1>10. GateInv'
  BY <1>1, <1>2 DEF HandoffInv, GateInv, Joined, f
<1>11. AttemptInv'
  BY <1>1, <1>2, <1>4, <1>6 DEF HandoffInv, AttemptInv, f
<1>12. ResultInv'
  BY <1>1, <1>2 DEF HandoffInv, ResultInv, Answered, Joined, f
<1>13. \A q \in Proc : Accepting(q)' <=> Accepting(q)
  BY <1>1, <1>2 DEF HandoffInv, HandoffType, Directory, Accepting, f
<1>14. AcceptInv'
  BY <1>1, <1>2, <1>4, <1>6, <1>13 DEF HandoffInv, AcceptInv
<1>15. VerifiedInv'
  BY <1>1, <1>2, <1>4, <1>6, <1>13 DEF HandoffInv, VerifiedInv, AcceptInv, Owns, f
<1> QED BY <1>3, <1>7, <1>8, <1>9, <1>10, <1>11, <1>12, <1>14, <1>15 DEF HandoffInv

\* A process removes what is under its path, and goes on with the file before it: of
\* another one's claims, only those that were taken back are without their files.
LEMMA RemoveKeeps ==
  ASSUME HandoffInv, NEW p \in Proc, Remove(p)
  PROVE  HandoffInv'
<1> DEFINE f == pc[p]
           b == Before(f)
<1>1. /\ f \in File /\ part[p] \in {"withdraw", "rollback"}
      /\ UNCHANGED <<tag, issued, openings, attempts, acked, receipts, withdrawn>>
  BY DEF Remove, history
<1>2. /\ pc'[p] = b /\ part'[p] = IF b = "idle" THEN "open" ELSE "rollback"
      /\ \A q \in Proc : q # p => pc'[q] = pc[q] /\ part'[q] = part[q]
  BY DEF Remove, RollBack, Goto, HandoffInv, HandoffType
<1>3. /\ b \in {"idle", "state", "secret", "envelope", "ack", "output"}
      /\ b = "secret" => f = "envelope"
      /\ b = "envelope" => f = "published"
      /\ b = "output" => f = "accepted"
  BY <1>1, Removals
<1>4. /\ file' \in [File -> SUBSET Tag] /\ torn' \in [File -> SUBSET Tag]
      /\ \A g \in File : g # f => file'[g] = file[g] /\ torn'[g] = torn[g]
      /\ file'[f] = {t \in file[f] : ~SamePath(f, t, tag[p])}
      /\ torn'[f] = {t \in torn[f] : ~SamePath(f, t, tag[p])}
  BY <1>1 DEF Remove, Unlink, HandoffInv, HandoffType
<1>5. HandoffType'
  <2>1. pc' \in [Proc -> File \cup Reading \cup {"idle", "provider"}] /\ part' \in [Proc -> Part]
    BY <1>3, Order DEF Remove, RollBack, Goto, HandoffInv, HandoffType, Part
  <2> QED BY <1>1, <1>2, <1>3, <1>4, <2>1, Order DEF HandoffInv, HandoffType, Directory
<1>6. /\ {"secret", "envelope", "published", "ack", "gate", "joined", "result", "output",
          "accepted"} \subseteq File
      /\ f # "joined"
      /\ f = "output" => part[p] = "rollback"
      /\ f \in {"published", "gate", "accepted", "result"} => part[p] = "withdraw"
  BY <1>1, Order DEF Directory, HandoffInv, HandoffType
<1>7. f \in {"secret", "envelope", "published", "gate"} => file'[f] = {} /\ torn'[f] = {}
  BY <1>4 DEF SamePath
<1>8. /\ file'[f] \subseteq file[f] /\ torn'[f] \subseteq torn[f]
      /\ f = "output" => /\ file'[f] = {t \in file[f] : t[2] # tag[p][2]}
                         /\ torn'[f] = {t \in torn[f] : t[2] # tag[p][2]}
      /\ f = "accepted" => /\ file'[f] = {t \in file[f] : t[1] # tag[p][1]}
                           /\ torn'[f] = {t \in torn[f] : t[1] # tag[p][1]}
  BY <1>4 DEF SamePath
<1> HIDE DEF f, b
<1>9. OnceInv'
  <2> SUFFICES ASSUME NEW g \in {"secret", "envelope", "published", "gate"}
               PROVE  /\ \A t, u \in file'[g] \cup torn'[g] : t = u
                      /\ \A q \in Proc : Owns(q, g)' =>
                            /\ file'[g] \cup torn'[g] = {tag'[q]}
                            /\ part'[q] = "fill" => file'[g] = {}
                            /\ part'[q] = "sync" => file'[g] = {tag'[q]}
                      /\ \A q, r \in Proc : Owns(q, g)' /\ Owns(r, g)' => q = r
    BY DEF OnceInv
  <2>1. /\ ~Owns(p, g)'
        /\ \A q \in Proc : q # p => (Owns(q, g)' <=> Owns(q, g)) /\ part'[q] = part[q]
    BY <1>2 DEF Owns
  <2>2. CASE g = f
    <3>1. \A q \in Proc : q # p => ~Owns(q, g)
      <4>1. CASE part[p] = "withdraw"
        BY <2>2, <4>1 DEF HandoffInv, OnceInv, Owns, f
      <4>2. CASE part[p] = "rollback"
        <5>1. g \in {"secret", "envelope"} /\ Behind(p)
          BY <1>6, <2>2, <4>2 DEF HandoffInv, HandoffType, Behind, f
        <5> QED BY <5>1 DEF HandoffInv, ChallengeInv, Behind, Owns
      <4> QED BY <1>1, <4>1, <4>2
    <3> QED BY <1>7, <2>1, <2>2, <3>1
  <2>3. CASE g # f
    BY <1>1, <1>4, <1>6, <2>1, <2>3 DEF HandoffInv, OnceInv
  <2> QED BY <2>2, <2>3
<1>10. ChallengeInv'
  <2>1. f \in {"secret", "envelope", "published"} =>
           /\ Behind(p) /\ \A q \in Proc : Behind(q) => q = p
           /\ \A r \in receipts : r[1] # "published"
    BY <1>1 DEF HandoffInv, ChallengeInv, Behind, f
  <2> QED BY <1>1, <1>2, <1>3, <1>4, <1>6, <2>1 DEF HandoffInv, ChallengeInv, Behind, f
<1>11. PublishedInv'
  <2>1. f \in {"secret", "envelope", "published"} /\ Steady => file["published"] = {}
    BY <1>1 DEF HandoffInv, PublishedInv, Behind, f
  <2>2. Steady /\ f \in {"secret", "envelope", "published"} =>
           file["gate"] = {} /\ \A q \in Proc : pc[q] \notin {"verifyAck", "compareAck", "gate"}
    BY <2>1 DEF HandoffInv, PublishedInv
  <2>3. /\ Steady' <=> Steady
        /\ \A q \in Proc : Behind(q)' => Behind(q) /\ (q # p \/ f # "secret")
    BY <1>1, <1>2, <1>3 DEF Steady, Behind, f
  <2>4. f \in {"secret", "envelope", "published"} /\ Steady => file'["published"] = {}
    BY <1>4, <1>6, <1>7, <2>1
  <2>5. CASE f \in {"secret", "envelope", "published"}
    <3>1. file'["gate"] = file["gate"]
      BY <1>4, <1>6, <2>5
    <3> QED BY <1>2, <1>3, <2>2, <2>3, <2>4, <2>5, <3>1 DEF PublishedInv
  <2>6. CASE f \notin {"secret", "envelope", "published"}
    <3>1. /\ \A g \in {"secret", "envelope", "published"} : file'[g] = file[g]
          /\ file'["gate"] \subseteq file["gate"]
      BY <1>4, <1>6, <1>8, <2>6
    <3>2. ~Behind(p)'
      BY <1>2, <1>3, <2>6 DEF Behind
    <3> QED BY <1>1, <1>2, <1>3, <2>3, <2>6, <3>1, <3>2 DEF HandoffInv, PublishedInv, f
  <2> QED BY <2>5, <2>6
<1>12. GateInv'
  BY <1>1, <1>2, <1>3, <1>4, <1>6, <1>8 DEF HandoffInv, GateInv, Joined
<1>13. AttemptInv'
  <2>1. openings = 1 => f # "gate"
    BY <1>1, <1>6 DEF HandoffInv, AttemptInv, Owns, f
  <2> QED BY <1>1, <1>2, <1>3, <1>4, <1>6, <2>1 DEF HandoffInv, AttemptInv, Owns
<1>14. ResultInv'
  BY <1>1, <1>2, <1>3, <1>4, <1>6, <1>8 DEF HandoffInv, ResultInv, Answered, Joined, f
<1>15. AcceptInv'
  <2>1. f = "output" => Accepting(p)
    BY <1>6 DEF Accepting, f
  <2>2. f = "accepted" => Owns(p, "accepted")
    BY <1>6 DEF Owns, f
  <2> QED BY <1>1, <1>2, <1>3, <1>4, <1>6, <1>8, <2>1, <2>2
       DEF HandoffInv, AcceptInv, Owns, Accepting, f
<1>16. VerifiedInv'
  <2>1. f = "output" => Accepting(p) /\ ~Owns(p, "accepted")
    BY <1>6 DEF Accepting, Owns, f
  <2>2. f = "accepted" => Owns(p, "accepted") /\ Accepting(p) /\ part[p] # "sync"
    BY <1>6 DEF Owns, Accepting, f
  <2> QED BY <1>1, <1>2, <1>3, <1>4, <1>6, <1>8, <2>1, <2>2
       DEF HandoffInv, VerifiedInv, AcceptInv, Owns, Accepting, f
<1> QED BY <1>5, <1>9, <1>10, <1>11, <1>12, <1>13, <1>14, <1>15, <1>16 DEF HandoffInv

\* The partial removal of a directory: what is left of it is in the way, and of no use.
Breaks(p, rest) ==
    /\ Creates(p, "rollback") /\ pc[p] \in Directory
    /\ rest = {t \in file[pc[p]] : SamePath(pc[p], t, tag[p])}
    /\ file' = [file EXCEPT ![pc[p]] = @ \ rest]
    /\ torn' = [torn EXCEPT ![pc[p]] = @ \cup rest]

\* A process dies while it removes a directory.
LEMMA BreakKeeps ==
  ASSUME HandoffInv, NEW p \in Proc, Crash(p), NEW rest, Breaks(p, rest)
  PROVE  HandoffInv'
<1> DEFINE f == pc[p]
<1>1. /\ f \in {"state", "output"} /\ f \in File /\ part[p] = "rollback"
      /\ UNCHANGED <<tag, issued, openings, attempts, acked, receipts, withdrawn>>
  BY DEF Breaks, Crash, history, Creates, HandoffInv, HandoffType, Directory
<1>2. /\ pc'[p] = "idle" /\ part'[p] = "open"
      /\ \A q \in Proc : q # p => pc'[q] = pc[q] /\ part'[q] = part[q]
  BY DEF Crash, Goto, HandoffInv, HandoffType
<1>3. /\ file' \in [File -> SUBSET Tag] /\ torn' \in [File -> SUBSET Tag]
      /\ \A g \in File : g # f => file'[g] = file[g] /\ torn'[g] = torn[g]
      /\ file'[f] = file[f] \ rest /\ torn'[f] = torn[f] \cup rest
  BY <1>1 DEF Breaks, HandoffInv, HandoffType
<1>4. {"secret", "envelope", "published", "ack", "gate", "joined", "result", "output",
       "accepted"} \subseteq File
  BY Order
<1>5. HandoffType'
  <2>1. pc' \in [Proc -> File \cup Reading \cup {"idle", "provider"}] /\ part' \in [Proc -> Part]
    BY DEF Crash, Goto, HandoffInv, HandoffType, Part
  <2> QED BY <1>1, <1>2, <1>3, <2>1, Order DEF HandoffInv, HandoffType, Directory
<1>6. f = "output" => rest = {t \in file["output"] : t[2] = tag[p][2]}
  BY DEF Breaks, SamePath
<1> HIDE DEF f
<1>7. \A g \in {"secret", "envelope", "published", "ack", "gate", "joined", "result", "accepted"} :
         file'[g] = file[g] /\ torn'[g] = torn[g]
  BY <1>1, <1>3, <1>4
<1>8. OnceInv'
  BY <1>1, <1>2, <1>7 DEF HandoffInv, OnceInv, Owns
<1>9. ChallengeInv'
  BY <1>1, <1>2, <1>7 DEF HandoffInv, ChallengeInv, Behind
<1>10. PublishedInv'
  BY <1>1, <1>2, <1>7 DEF HandoffInv, PublishedInv, Steady, Behind
<1>11. GateInv'
  BY <1>1, <1>2, <1>7 DEF HandoffInv, GateInv, Joined
<1>12. AttemptInv'
  BY <1>1, <1>2, <1>7 DEF HandoffInv, AttemptInv, Owns
<1>13. ResultInv'
  BY <1>1, <1>2, <1>7 DEF HandoffInv, ResultInv, Answered, Joined
<1>14. f = "output" => Accepting(p) /\ ~Owns(p, "accepted")
  BY <1>1 DEF Accepting, Owns, f
<1>15. AcceptInv'
  BY <1>1, <1>2, <1>3, <1>4, <1>6, <1>7, <1>14 DEF HandoffInv, AcceptInv, Owns, Accepting
<1>16. VerifiedInv'
  BY <1>1, <1>2, <1>3, <1>4, <1>6, <1>7, <1>14
     DEF HandoffInv, VerifiedInv, Owns, Accepting
<1> QED BY <1>5, <1>8, <1>9, <1>10, <1>11, <1>12, <1>13, <1>15, <1>16 DEF HandoffInv

\* Commands that are refused, fail, take back what they created, and die.
LEMMA FailureStepKeeps ==
  ASSUME HandoffInv, NEW p \in Proc, Failure(p)
  PROVE  HandoffInv'
<1>1. CASE Reject(p)
  BY <1>1, RollBackKeeps DEF Reject, Creates
<1>2. CASE IoError(p)
  <2>1. CASE part[p] = "open"
    <3>1. withdrawn' = withdrawn
      BY <1>2, <2>1 DEF IoError
    <3> QED BY <1>2, <2>1, <3>1, RollBackKeeps DEF IoError, history
  <2> QED BY <1>2, <2>1, WithdrawKeeps
<1>3. CASE UnlinkFails(p)
  BY <1>3, RollBackKeeps DEF UnlinkFails, Creates
<1>4. CASE Crash(p)
  <2>1. tag[p] \in Tag /\ tag = [tag EXCEPT ![p] = tag[p]] /\ issued \in Nat
    BY DEF HandoffInv, HandoffType
  <2>2. CASE UNCHANGED <<file, torn>>
    <3>1. Turns(p, "idle", tag[p]) /\ Justified("idle", tag[p])
      BY <1>4, <2>1, <2>2 DEF Crash, Turns, Justified
    <3> QED BY <3>1, TurnKeeps
  <2>3. CASE ~UNCHANGED <<file, torn>>
    <3>1. Breaks(p, {t \in file[pc[p]] : SamePath(pc[p], t, tag[p])})
      BY <1>4, <2>3 DEF Crash, Breaks
    <3> QED BY <1>4, <3>1, BreakKeeps
  <2> QED BY <2>2, <2>3
<1> QED BY <1>1, <1>2, <1>3, <1>4, RemoveKeeps DEF Failure

----------------------------------------------------------------------------
(* Theorems *)

\* The invariant of a handoff holds however its commands are repeated, overlapped,
\* failed at any step of a file's creation or removal, and killed.
THEOREM HandoffInductive == Spec => []HandoffInv
<1>1. HandoffInv /\ [Next]_vars => HandoffInv'
  <2> SUFFICES ASSUME HandoffInv, [Next]_vars PROVE HandoffInv'
    OBVIOUS
  <2>1. CASE Expire \/ UNCHANGED vars
    <3>1. UNCHANGED <<pc, part, tag, file, torn, issued, openings, attempts, acked, receipts,
                      withdrawn>>
      BY <2>1 DEF Expire, vars, history
    <3> QED BY <3>1 DEF HandoffInv, HandoffType, OnceInv, ChallengeInv, PublishedInv, GateInv,
         AttemptInv, ResultInv, AcceptInv, VerifiedInv, Owns, Behind, Accepting, Steady,
         Joined, Answered
  <2>2. ASSUME NEW p \in Proc, Creation(p) PROVE HandoffInv'
    BY <2>2, CommitKeeps, OpenKeeps, FillKeeps, SyncKeeps DEF Creation
  <2> QED BY <2>1, <2>2, CommandKeeps, AttemptKeeps, FailureStepKeeps DEF Next
<1> QED BY <1>1, HandoffStart, PTL DEF Spec

\* verify-ack, encrypt-challenge: the provider gate opens at most once, for a challenge
\* that was answered; a challenge that was reported stands, and the one behind the gate
\* does unless the fsync of its claim failed.
THEOREM OpenGateIsProved == Spec => []GateMeansProof
<1>1. HandoffInv => GateMeansProof
  <2> SUFFICES ASSUME HandoffInv PROVE GateMeansProof
    OBVIOUS
  <2>1. openings <= 1 /\ attempts <= openings /\ (openings = 1 => file["gate"] # {})
    BY DEF HandoffInv, AttemptInv
  <2>2. \A r \in receipts : r[1] = "published" =>
           \A f \in {"published", "envelope", "secret"} : file[f] = {r[2]}
    BY DEF HandoffInv, ChallengeInv
  <2>3. \A g \in file["gate"] : g \in acked /\ \E t \in file["joined"] : t[1] = g[1]
    BY DEF HandoffInv, GateInv, Joined
  <2>4. \A g \in file["gate"] : Steady =>
           \A f \in {"published", "envelope", "secret"} : file[f] = {g}
    BY DEF HandoffInv, PublishedInv
  <2> QED BY <2>1, <2>2, <2>3, <2>4 DEF GateMeansProof, Steady
<1> QED BY <1>1, HandoffInductive, PTL

\* verify-result: a private state reports one result, behind its own answered challenge,
\* and its claim and the directory it verified stand.
THEOREM AcceptedOnce == Spec => []AcceptanceIsFinal
<1>1. HandoffInv => AcceptanceIsFinal
  <2> SUFFICES ASSUME HandoffInv PROVE AcceptanceIsFinal
    OBVIOUS
  <2>1. \A r \in receipts : r = <<r[1], r[2]>>
    BY DEF HandoffInv, HandoffType
  <2>2. \A r \in receipts : r[1] = "accepted" => r[2] \in file["accepted"] \cap file["output"]
    BY DEF HandoffInv, VerifiedInv
  <2>3. \A q, r \in receipts :
           q[1] = "accepted" /\ r[1] = "accepted" /\ q[2][1] = r[2][1] => q = r
    BY <2>1, <2>2 DEF HandoffInv, AcceptInv
  <2>4. \A a \in file["accepted"] : <<"accepted", a>> \in withdrawn \/ a \in file["output"]
    BY DEF HandoffInv, VerifiedInv
  <2>5. ASSUME NEW a \in file["accepted"]
        PROVE  /\ \E t \in acked : t[1] = a[1]
               /\ Mode = "live" => attempts = 1 /\ \E g \in file["gate"] : g[1] = a[1]
    <3>1. Answered(a) /\ (Mode = "live" => attempts > 0)
      BY <2>5 DEF HandoffInv, ResultInv
    <3>2. attempts > 0 => attempts = 1 /\ file["gate"] # {}
      BY DEF HandoffInv, AttemptInv
    <3>3. \A g \in file["gate"] : g[1] = a[1]
      BY <3>1 DEF HandoffInv, GateInv, Joined, Answered
    <3> QED BY <3>1, <3>2, <3>3 DEF Answered
  <2> QED BY <2>2, <2>3, <2>4, <2>5 DEF AcceptanceIsFinal
<1> QED BY <1>1, HandoffInductive, PTL

----------------------------------------------------------------------------
(* The evaluation command *)

Forward == {"stageRaw", "stageReceipt", "dropRaw", "dropReceipt", "putRaw", "putReceipt"}
Rollback == {"undoRaw", "undoReceipt", "clearRaw", "clearReceipt"}
Tidying == {"tidyRaw", "tidyReceipt"}

EvalType ==
    /\ step \in {"idle", "call"} \cup Forward \cup Rollback \cup Tidying
    /\ run \in 0..MaxRuns /\ (step # "idle" => run > 0)
    /\ told = [r \in Run |-> told[r]] /\ calls \in [Run -> Nat]
    /\ raw \in 0..run /\ receipt \in 0..run
    /\ \A t \in temps : t[1] \in 1..run

\* Every call that was made is told, and none is made twice.
CountInv ==
    /\ \A r \in Run : told[r].attempts = calls[r]
    /\ \A r \in Run : r > run \/ (r = run /\ step = "call") => calls[r] = 0 /\ told[r] = Unbuilt

\* The outputs of the latest run.
OwnRaw == IF Publishes THEN run ELSE 0

\* The two paths before each operation.
PairInv ==
    /\ raw # 0 /\ receipt # 0 => raw = receipt
    /\ step \in {"call", "stageRaw", "stageReceipt", "dropRaw", "dropReceipt"} => raw # run
    /\ step \in {"call", "stageRaw", "stageReceipt", "dropRaw", "dropReceipt"} \cup Rollback => receipt # run
    /\ step \in {"dropReceipt", "putRaw", "undoReceipt", "clearReceipt"} => raw = 0
    /\ step \in {"putRaw", "putReceipt", "undoRaw", "undoReceipt"} => receipt = 0
    /\ step \in {"stageRaw", "putRaw", "undoRaw"} => Publishes
    /\ step = "putReceipt" => raw = OwnRaw
    /\ receipt = run /\ run > 0 => raw = OwnRaw

\* The staged files of the latest run.
StagedInv ==
    /\ step = "call" => \A t \in temps : t[1] # run
    /\ \A t \in temps : t[1] = run => t \in {<<run, "raw">>, <<run, "receipt">>}
    /\ <<run, "raw">> \in temps => Publishes
    /\ step = "putReceipt" \/ (step \in Tidying /\ broken = {}) => <<run, "raw">> \notin temps
    /\ step \in Tidying /\ broken = {} => <<run, "receipt">> \notin temps
    /\ step = "tidyReceipt" /\ "tidyRaw" \notin broken => <<run, "raw">> \notin temps
    /\ step = "idle" /\ run > 0 /\ broken \cap {"kill", "tidyRaw", "tidyReceipt"} = {} =>
          \A t \in temps : t[1] # run

\* What has gone wrong before each operation, and what that left.
PathInv ==
    /\ step \in {"call"} \cup Forward => broken = {}
    /\ step \in Rollback => broken # {}
    /\ step \in Tidying \cup {"idle"} /\ run > 0 /\ "kill" \notin broken
       /\ broken \cap {"clearRaw", "clearReceipt"} = {} =>
          IF broken = {} THEN receipt = run /\ raw = OwnRaw ELSE raw = 0 /\ receipt = 0

EvalInv == EvalType /\ CountInv /\ PairInv /\ StagedInv /\ PathInv

----------------------------------------------------------------------------
(* The operations of commit_cli_outputs *)

LEMMA Operations ==
  /\ Operation = Forward \cup Rollback \cup Tidying
  /\ Thereafter["stageRaw"] = "stageReceipt" /\ Thereafter["stageReceipt"] = "dropRaw"
  /\ Thereafter["dropRaw"] = "dropReceipt"
  /\ Thereafter["dropReceipt"] = IF Publishes THEN "putRaw" ELSE "putReceipt"
  /\ Thereafter["putRaw"] = "putReceipt" /\ Thereafter["putReceipt"] = "tidyRaw"
  /\ Thereafter["undoRaw"] = "undoReceipt" /\ Thereafter["undoReceipt"] = "clearRaw"
  /\ Thereafter["clearRaw"] = "clearReceipt" /\ Thereafter["clearReceipt"] = "tidyRaw"
  /\ Thereafter["tidyRaw"] = "tidyReceipt" /\ Thereafter["tidyReceipt"] = "idle"
<1>1. Operation = Forward \cup Rollback \cup Tidying
  BY DEF Operation, Thereafter, Forward, Rollback, Tidying
<1>2. /\ Thereafter["stageRaw"] = "stageReceipt" /\ Thereafter["stageReceipt"] = "dropRaw"
      /\ Thereafter["dropRaw"] = "dropReceipt"
      /\ Thereafter["dropReceipt"] = IF Publishes THEN "putRaw" ELSE "putReceipt"
      /\ Thereafter["putRaw"] = "putReceipt" /\ Thereafter["putReceipt"] = "tidyRaw"
  BY DEF Thereafter
<1>3. /\ Thereafter["undoRaw"] = "undoReceipt" /\ Thereafter["undoReceipt"] = "clearRaw"
      /\ Thereafter["clearRaw"] = "clearReceipt" /\ Thereafter["clearReceipt"] = "tidyRaw"
      /\ Thereafter["tidyRaw"] = "tidyReceipt" /\ Thereafter["tidyReceipt"] = "idle"
  BY DEF Thereafter
<1> QED BY <1>1, <1>2, <1>3

\* Nothing but the files and the next operation changes, so neither does the status.
SameRun == run' = run /\ told' = told /\ calls' = calls

LEMMA SameOutputs ==
  ASSUME SameRun
  PROVE  Publishes' = Publishes /\ OwnRaw' = OwnRaw
BY DEF SameRun, Publishes, OwnRaw

----------------------------------------------------------------------------
(* Every step keeps the invariant *)

LEMMA EvalStart == EvalInit => EvalInv
<1> SUFFICES ASSUME EvalInit PROVE EvalInv
  OBVIOUS
<1>1. MaxRuns \in Nat
  BY EvalAssumption
<1>2. EvalType /\ CountInv
  BY <1>1 DEF EvalInit, EvalType, CountInv, Run, Unbuilt
<1>3. PairInv /\ StagedInv /\ PathInv
  BY DEF EvalInit, PairInv, StagedInv, PathInv, Forward, Rollback, Tidying
<1> QED BY <1>2, <1>3 DEF EvalInv

\* The receipt of a run is built once; the pair, and what was staged before, are of other runs.
LEMMA BuildKeeps ==
  ASSUME EvalType, CountInv, PairInv, NEW r \in Run, NEW status, NEW made, Build(r, status, made),
         run' = r, run \in 0..r, raw # r, receipt # r, \A t \in temps : t[1] # r,
         calls' \in [Run -> Nat], calls'[r] = made, \A q \in Run : q # r => calls'[q] = calls[q],
         \A q \in Run : q > r => q > run, \A q \in Run : q > run /\ q # r => q > r,
         broken' = {}, UNCHANGED <<targets, temps>>
  PROVE  EvalInv'
<1>1. /\ told' = [q \in Run |-> IF q = r THEN [status |-> status, attempts |-> made] ELSE told[q]]
      /\ r \in 1..MaxRuns /\ raw' = raw /\ receipt' = receipt /\ temps' = temps
      /\ raw \in 0..run /\ receipt \in 0..run /\ step' = AfterReceipt(status)
  BY DEF Build, EvalType, targets, Run
<1>2. /\ step' = IF status = "PASS" THEN "stageRaw" ELSE "stageReceipt"
      /\ Publishes' = (status = "PASS")
  BY <1>1, EvalAssumption DEF AfterReceipt, Publishes, Run
<1>3. EvalType'
  <2>1. raw' \in 0..run' /\ receipt' \in 0..run' /\ run' \in 0..MaxRuns /\ run' > 0
    BY <1>1, EvalAssumption
  <2>2. \A t \in temps' : t[1] \in 1..run'
    BY <1>1, EvalAssumption DEF EvalType
  <2> QED BY <1>1, <1>2, <2>1, <2>2 DEF EvalType, Forward
<1>4. CountInv'
  BY <1>1, <1>2 DEF CountInv
<1>5. PairInv'
  BY <1>1, <1>2 DEF PairInv, Rollback
<1>6. StagedInv'
  BY <1>1, <1>2, EvalAssumption DEF StagedInv, Tidying, Run
<1>7. PathInv'
  BY <1>2 DEF PathInv, Forward, Rollback, Tidying
<1> QED BY <1>3, <1>4, <1>5, <1>6, <1>7 DEF EvalInv

LEMMA StartKeeps == EvalInv /\ StartRun => EvalInv'
<1> SUFFICES ASSUME EvalInv, StartRun PROVE EvalInv'
  OBVIOUS
<1> USE DEF EvalInv
<1>1. /\ run' = run + 1 /\ run + 1 \in Run /\ run \in Nat /\ calls' = calls /\ broken' = {}
      /\ temps' = temps /\ raw' = raw /\ receipt' = receipt
  BY EvalAssumption DEF StartRun, targets, Run, EvalType
<1>2. raw \in 0..run /\ receipt \in 0..run /\ \A t \in temps : t[1] \in 1..run
  BY DEF EvalType
<1>3. calls[run + 1] = 0 /\ told[run + 1] = Unbuilt
  BY <1>1 DEF CountInv
<1>4. CASE step' = "call" /\ told' = told
  <2>1. EvalType'
    BY <1>1, <1>2, <1>4, EvalAssumption DEF EvalType, Run
  <2>2. CountInv'
    BY <1>1, <1>3, <1>4, EvalAssumption DEF CountInv, Run
  <2>3. Publishes' = FALSE
    BY <1>1, <1>3, <1>4 DEF Publishes, Unbuilt
  <2>4. PairInv'
    BY <1>1, <1>2, <1>4 DEF PairInv, Rollback
  <2>5. StagedInv'
    BY <1>1, <1>2, <1>4, <2>3 DEF StagedInv, Tidying
  <2>6. PathInv'
    BY <1>1, <1>4 DEF PathInv, Forward, Rollback, Tidying
  <2> QED BY <2>1, <2>2, <2>4, <2>5, <2>6
<1>5. ASSUME NEW status, Build(run + 1, status, 0) PROVE EvalInv'
  <2>1. /\ raw # run + 1 /\ receipt # run + 1 /\ \A t \in temps : t[1] # run + 1
        /\ run \in 0..(run + 1) /\ calls' \in [Run -> Nat] /\ calls'[run + 1] = 0
        /\ \A q \in Run : q > run + 1 => q > run
        /\ \A q \in Run : q > run /\ q # run + 1 => q > run + 1
    BY <1>1, <1>2, <1>3, EvalAssumption DEF EvalType, Run
  <2> QED BY <1>1, <1>5, <2>1, BuildKeeps DEF targets
<1> QED BY <1>4, <1>5 DEF StartRun

LEMMA CallKeeps == EvalInv /\ CallProvider => EvalInv'
<1> SUFFICES ASSUME EvalInv, CallProvider PROVE EvalInv'
  OBVIOUS
<1> USE DEF EvalInv
<1>1. PICK status : Build(run, status, 1)
  BY DEF CallProvider
<1>2. /\ step = "call" /\ run \in Run /\ run' = run /\ broken' = broken /\ broken = {}
      /\ calls' = [calls EXCEPT ![run] = @ + 1] /\ UNCHANGED <<targets, temps>>
  BY EvalAssumption DEF CallProvider, EvalType, Run, PathInv
<1>3. calls[run] = 0 /\ calls \in [Run -> Nat] /\ run \in 0..run
  BY <1>2, EvalAssumption DEF CountInv, EvalType, Run
<1>4. calls' \in [Run -> Nat] /\ calls'[run] = 1 /\ \A q \in Run : q # run => calls'[q] = calls[q]
  BY <1>2, <1>3
<1>5. raw # run /\ receipt # run /\ \A t \in temps : t[1] # run
  BY <1>2 DEF PairInv, StagedInv
<1> QED BY <1>1, <1>2, <1>3, <1>4, <1>5, BuildKeeps

\* A step of the commit keeps what was told and counted.
LEMMA CountKept ==
  ASSUME CountInv, SameRun, step' = "call" => step = "call"
  PROVE  CountInv'
BY DEF CountInv, SameRun

LEMMA OperateKeeps == EvalInv /\ Operate => EvalInv'
<1> SUFFICES ASSUME EvalInv, Operate PROVE EvalInv'
  OBVIOUS
<1> USE DEF EvalInv
<1>1. /\ SameRun /\ broken' = broken /\ step' = Thereafter[step] /\ step \in Forward \cup Rollback \cup Tidying
      /\ raw' = RawAfter(step) /\ receipt' = ReceiptAfter(step) /\ temps' = TempsAfter(step)
  BY Operations DEF Operate, SameRun
<1>2. Publishes' = Publishes /\ OwnRaw' = OwnRaw /\ run' = run /\ run \in 1..MaxRuns
  BY <1>1, SameOutputs, EvalAssumption DEF SameRun, EvalType, Forward, Rollback, Tidying
<1>3. step' \in {"idle"} \cup Forward \cup Rollback \cup Tidying
  BY <1>1, Operations DEF Forward, Rollback, Tidying
<1>4. /\ raw' \in {raw, run, 0} /\ receipt' \in {receipt, run, 0}
      /\ \A t \in temps' : t \in temps \/ t \in {<<run, "raw">>, <<run, "receipt">>}
  BY DEF RawAfter, ReceiptAfter, TempsAfter, Operate
<1>5. EvalType'
  <2>1. raw' \in 0..run /\ receipt' \in 0..run
    BY <1>2, <1>4 DEF EvalType
  <2>2. \A t \in temps' : t[1] \in 1..run
    BY <1>2, <1>4 DEF EvalType
  <2> QED BY <1>1, <1>2, <1>3, <2>1, <2>2 DEF EvalType, SameRun
<1>6. CountInv'
  BY <1>1, <1>3, CountKept DEF Forward, Rollback, Tidying
<1>7. PairInv'
  <2>1. CASE step \in {"stageRaw", "stageReceipt", "dropRaw", "dropReceipt"}
    BY <1>1, <1>2, <2>1, Operations DEF PairInv, RawAfter, ReceiptAfter, Rollback, OwnRaw
  <2>2. CASE step \in {"putRaw", "putReceipt"}
    BY <1>1, <1>2, <2>2, Operations DEF PairInv, RawAfter, ReceiptAfter, Rollback, OwnRaw
  <2>3. CASE step \in Rollback
    BY <1>1, <1>2, <2>3, Operations DEF PairInv, RawAfter, ReceiptAfter, Rollback
  <2>4. CASE step \in Tidying
    BY <1>1, <1>2, <2>4, Operations DEF PairInv, RawAfter, ReceiptAfter, Rollback, Tidying
  <2> QED BY <1>1, <2>1, <2>2, <2>3, <2>4 DEF Forward
<1>8. StagedInv'
  <2>1. CASE step \in {"stageRaw", "stageReceipt", "dropRaw", "dropReceipt"}
    BY <1>1, <1>2, <2>1, Operations DEF StagedInv, PairInv, TempsAfter, Tidying
  <2>2. CASE step \in {"putRaw", "putReceipt"}
    BY <1>1, <1>2, <2>2, Operations DEF StagedInv, TempsAfter, Tidying
  <2>3. CASE step \in Rollback
    BY <1>1, <1>2, <2>3, Operations DEF StagedInv, PathInv, TempsAfter, Rollback, Tidying
  <2>4. CASE step \in Tidying
    BY <1>1, <1>2, <2>4, Operations DEF StagedInv, TempsAfter, Tidying
  <2> QED BY <1>1, <2>1, <2>2, <2>3, <2>4 DEF Forward
<1>9. PathInv'
  <2>1. CASE step \in Forward
    BY <1>1, <1>2, <2>1, Operations DEF PathInv, PairInv, ReceiptAfter, RawAfter, Forward, Rollback, Tidying
  <2>2. CASE step \in Rollback
    BY <1>1, <1>2, <2>2, Operations DEF PathInv, PairInv, ReceiptAfter, RawAfter, Forward, Rollback, Tidying
  <2>3. CASE step \in Tidying
    BY <1>1, <1>2, <2>3, Operations DEF PathInv, ReceiptAfter, RawAfter, Forward, Rollback, Tidying
  <2> QED BY <1>1, <2>1, <2>2, <2>3
<1> QED BY <1>5, <1>6, <1>7, <1>8, <1>9

LEMMA FailureKeeps == EvalInv /\ OperationFails => EvalInv'
<1> SUFFICES ASSUME EvalInv, OperationFails PROVE EvalInv'
  OBVIOUS
<1> USE DEF EvalInv
<1>1. /\ SameRun /\ broken' = broken \cup {step} /\ step' = Otherwise(step) /\ Touches(step)
      /\ step \in Forward \cup Rollback \cup Tidying
      /\ raw' = raw /\ receipt' = receipt /\ temps' = temps
  BY Operations DEF OperationFails, Break, SameRun, targets
<1>2. Publishes' = Publishes /\ OwnRaw' = OwnRaw /\ run' = run /\ run \in 1..MaxRuns
  BY <1>1, SameOutputs, EvalAssumption DEF SameRun, EvalType, Forward, Rollback, Tidying
<1>3. /\ step' \in {"undoRaw", "clearRaw", "tidyRaw", "idle"}
      /\ step' = "undoRaw" <=> step = "putReceipt" /\ Publishes
      /\ step' = "tidyRaw" <=> step \in {"clearRaw", "clearReceipt"}
      /\ step' = "idle" <=> step \in Tidying
  BY <1>1 DEF Otherwise, Tidying, Forward, Rollback
<1>4. EvalType'
  BY <1>1, <1>2, <1>3, EvalAssumption DEF EvalType, SameRun, Rollback, Tidying
<1>5. CountInv'
  BY <1>1, <1>3, CountKept
<1>6. PairInv'
  BY <1>1, <1>2, <1>3 DEF PairInv, Forward, Rollback, Tidying
<1>7. StagedInv'
  BY <1>1, <1>2, <1>3 DEF StagedInv, Tidying
<1>8. PathInv'
  <2>1. CASE step \in {"clearRaw", "clearReceipt"}
    BY <1>1, <1>2, <1>3, <2>1 DEF PathInv, Forward, Rollback, Tidying
  <2>2. CASE step \in Tidying
    <3>1. broken # {}
      BY <1>1, <2>2 DEF Touches, StagedInv, Tidying
    <3> QED BY <1>1, <1>2, <1>3, <2>2, <3>1 DEF PathInv, Forward, Rollback, Tidying
  <2>3. CASE step \notin Tidying \cup {"clearRaw", "clearReceipt"}
    BY <1>1, <1>2, <1>3, <2>3 DEF PathInv, Forward, Rollback, Tidying
  <2> QED BY <2>1, <2>2, <2>3
<1> QED BY <1>4, <1>5, <1>6, <1>7, <1>8

LEMMA KillKeeps == EvalInv /\ Kill => EvalInv'
<1> SUFFICES ASSUME EvalInv, Kill PROVE EvalInv'
  OBVIOUS
<1> USE DEF EvalInv
<1>1. /\ SameRun /\ broken' = broken \cup {"kill"} /\ step' = "idle"
      /\ raw' = raw /\ receipt' = receipt /\ temps' = temps
  BY DEF Kill, Break, SameRun, targets
<1>2. Publishes' = Publishes /\ OwnRaw' = OwnRaw /\ run' = run
  BY <1>1, SameOutputs DEF SameRun
<1>3. EvalType' /\ CountInv'
  BY <1>1, <1>2, CountKept DEF EvalType, SameRun
<1>4. PairInv' /\ StagedInv' /\ PathInv'
  BY <1>1, <1>2 DEF PairInv, StagedInv, PathInv, Forward, Rollback, Tidying
<1> QED BY <1>3, <1>4

\* The pair of files, the staged ones and the count of the calls agree with the progress of
\* commit_cli_outputs, whatever operation failed and whenever the process was killed.
THEOREM EvalInductive == EvalSpec => []EvalInv
<1>1. EvalInv /\ [EvalNext]_evalVars => EvalInv'
  <2> SUFFICES ASSUME EvalInv, [EvalNext]_evalVars PROVE EvalInv'
    OBVIOUS
  <2>1. CASE UNCHANGED evalVars
    <3>1. SameRun /\ step' = step /\ raw' = raw /\ receipt' = receipt /\ temps' = temps /\ broken' = broken
      BY <2>1 DEF evalVars, SameRun, targets
    <3> QED BY <3>1, SameOutputs, CountKept DEF EvalInv, EvalType, PairInv, StagedInv, PathInv, SameRun
  <2>2. CASE EvalNext
    BY <2>1, <2>2, StartKeeps, CallKeeps, OperateKeeps, FailureKeeps, KillKeeps DEF EvalNext, Done
  <2> QED BY <2>1, <2>2
<1> QED BY <1>1, EvalStart, PTL DEF EvalSpec

----------------------------------------------------------------------------
(* What the invariant says of the files *)

\* commit_cli_outputs clears both paths before it publishes either, and the raw answer before the
\* receipt: whatever failed or was killed, they never hold outputs of two runs.
THEOREM PairsAreOneRun == EvalSpec => []PairIsOneRun
<1>1. EvalInv => PairIsOneRun
  BY DEF EvalInv, PairInv, PairIsOneRun, OwnRaw, Publishes
<1> QED BY <1>1, EvalInductive, PTL

\* A run that was not killed, and could remove what its rollback had to, left its own outputs or
\* nothing, and no staged file that it could unlink.
THEOREM CommitsWhole == EvalSpec => []AllOrNothing
<1>1. EvalInv => AllOrNothing
  <2> SUFFICES ASSUME EvalInv, step = "idle", run > 0, "kill" \notin broken
               PROVE  /\ broken \cap {"clearRaw", "clearReceipt"} = {} =>
                            IF broken = {} THEN receipt = run /\ raw = OwnRaw ELSE raw = 0 /\ receipt = 0
                      /\ broken \cap {"tidyRaw", "tidyReceipt"} = {} => \A t \in temps : t[1] # run
    BY DEF AllOrNothing, OwnRaw
  <2> QED BY DEF EvalInv, PathInv, StagedInv
<1> QED BY <1>1, EvalInductive, PTL

\* A receipt tells the provider_attempts of its run: one for a call, failed or not, none for a
\* request that run_blind_eval refused.
THEOREM CallsAreTold == EvalSpec => []AttemptsAreTold
<1>1. EvalInv => AttemptsAreTold
  BY EvalAssumption DEF EvalInv, EvalType, CountInv, AttemptsAreTold, Run
<1> QED BY <1>1, EvalInductive, PTL

=============================================================================
