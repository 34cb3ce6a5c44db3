-------------------------- MODULE BM0Adjudication --------------------------
(***************************************************************************)
(* The human adjudication of one open item of a BM0 study (b2/bm0.py).     *)
(* Records arrive one by one, from planned adjudicators or from others;    *)
(* resolve_adjudication_v1 may be called after each and reads them all.    *)
(* The module composes the item with the study whose manifest names its    *)
(* adjudicators.                                                           *)
(***************************************************************************)
EXTENDS BM0Study

CONSTANTS
    Items,          \* the attempts records are filed about
    Adjudicators    \* everyone who might file a record

VARIABLE records        \* the records filed about the item

vars == <<phase, manifest, rows, records>>

Init == StudyInit /\ records = {}

Decision == {"PASS", "FAIL", "UNKNOWN"}

\* What a record may claim: blind, unconflicted, human, and deciding PASS or
\* FAIL only on complete evidence.
ValidRecord(r) ==
    /\ r.kind = "HUMAN" /\ r.blind /\ ~r.conflicted
    /\ \/ r.status = "ERROR" /\ r.decision = None /\ ~r.complete
       \/ r.status = "COMPLETED" /\ r.decision \in {"PASS", "FAIL"} /\ r.complete
       \/ r.status = "COMPLETED" /\ r.decision = "UNKNOWN" /\ ~r.complete

By(S, role) == {r \in S : r.role = role}
Judges(S) == {r.adjudicator : r \in S}
Verdict(status, decision) == [status |-> status, decision |-> decision]

\* FALSE where resolve_adjudication_v1 raises over the records themselves:
\* one item, nobody twice, only the planned people in their planned roles.
\* Defect: an adjudicator may file twice.
AdmissibleRevised(m, S) ==
    /\ ~Refusable(m)
    /\ \A r \in S : ValidRecord(r) /\ r.attempt \in PlannedIds(m)
    /\ \A r, q \in S : r.attempt = q.attempt
    /\ Judges(By(S, "PRIMARY")) \subseteq m.adjudicators.primaries
    /\ Judges(By(S, "TIEBREAK")) \subseteq {m.adjudicators.tiebreak}
Admissible(m, S) ==
    /\ ~Refusable(m)
    /\ \A r \in S : ValidRecord(r) /\ r.attempt \in PlannedIds(m)
    /\ \A r, q \in S : r.attempt = q.attempt /\ (r.adjudicator = q.adjudicator => r = q)
    /\ Judges(By(S, "PRIMARY")) \subseteq m.adjudicators.primaries
    /\ Judges(By(S, "TIEBREAK")) \subseteq {m.adjudicators.tiebreak}

PrimaryErred(S) == \E r \in By(S, "PRIMARY") : r.status = "ERROR"
PrimariesComplete(m, S) == Judges(By(S, "PRIMARY")) = m.adjudicators.primaries
\* Defect: one primary UNKNOWN no longer ends the adjudication.
PrimariesUnknown(S) == \A r \in By(S, "PRIMARY") : r.decision = "UNKNOWN"
PrimaryUnknown(S) == \E r \in By(S, "PRIMARY") : r.decision = "UNKNOWN"
PrimariesAgree(S) == \A r, q \in By(S, "PRIMARY") : r.decision = q.decision

\* A tiebreaker only ever breaks a tie between PASS and FAIL.
TiebreakAllowed(m, S) ==
    ~PrimaryErred(S) /\ PrimariesComplete(m, S) /\ ~PrimaryUnknown(S) /\ ~PrimariesAgree(S)

Resolvable(m, S) ==
    Admissible(m, S) /\ (By(S, "TIEBREAK") # {} => TiebreakAllowed(m, S))

\* Agreeing primaries say the same, and there is one tiebreaker: any will do.
AnyOf(S) == CHOOSE r \in S : TRUE

Resolution(m, S) ==
    LET primary == AnyOf(By(S, "PRIMARY"))
        tiebreak == AnyOf(By(S, "TIEBREAK"))
    IN IF PrimaryErred(S) THEN Verdict("ERROR", None)
       ELSE IF ~PrimariesComplete(m, S) \/ PrimaryUnknown(S) THEN Verdict("UNKNOWN", None)
       ELSE IF PrimariesAgree(S) THEN Verdict(primary.decision, primary.decision)
       ELSE IF By(S, "TIEBREAK") = {} THEN Verdict("UNKNOWN", None)
       ELSE IF tiebreak.status = "ERROR" THEN Verdict("ERROR", None)
       ELSE IF tiebreak.decision = "UNKNOWN" THEN Verdict("UNKNOWN", None)
       ELSE Verdict(tiebreak.decision, tiebreak.decision)

Claims ==
    [attempt : Items, adjudicator : Adjudicators, role : {"PRIMARY", "TIEBREAK"},
     status : {"COMPLETED", "ERROR"}, decision : Decision \cup {None},
     kind : {"HUMAN", "LLM"}, complete : BOOLEAN, blind : BOOLEAN, conflicted : BOOLEAN]

\* A record is filed, well-formed or not; nth tells two of one person apart.
\* Bounds: nothing follows a record that makes the resolution raise, only the
\* first may be ill-formed, and the item and the grid, which share only the
\* manifest, are not interleaved.
File ==
    /\ phase = "FROZEN" /\ rows = {}
    /\ Resolvable(manifest, records)
    /\ \E claim \in Claims :
          LET r == claim @@ [nth |-> Cardinality(records)]
          IN /\ records # {} => ValidRecord(r)
             /\ records' = records \cup {r}
    /\ UNCHANGED studyVars

Next ==
    \/ Freeze /\ UNCHANGED records
    \/ Refuse /\ UNCHANGED records
    \/ records = {} /\ DeliverAnswer /\ UNCHANGED records
    \/ records = {} /\ DeliverOdd /\ UNCHANGED records
    \/ File

Spec == Init /\ [][Next]_vars

Labelled(m, S) == Resolvable(m, S) /\ Resolution(m, S).decision # None

\* A label, once resolved, is not changed by records that arrive later: they
\* make the resolution raise.
LabelIsFinal ==
    [][Labelled(manifest, records) /\ Resolvable(manifest, records)' =>
          Resolution(manifest, records)' = Resolution(manifest, records)]_vars

\* Behind every label stand two different planned people who decided it
\* blind and on complete evidence; the tiebreaker is never alone.
TwoHumansPerLabel ==
    Labelled(manifest, records) => \E r, q \in records :
        /\ r.adjudicator # q.adjudicator
        /\ {r.adjudicator, q.adjudicator} \subseteq
              manifest.adjudicators.primaries \cup {manifest.adjudicators.tiebreak}
        /\ \A x \in {r, q} : /\ x.decision = Resolution(manifest, records).decision
                             /\ x.blind /\ x.complete /\ x.kind = "HUMAN"

=============================================================================
