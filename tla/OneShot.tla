------------------------------- MODULE OneShot -------------------------------
(***************************************************************************)
(* What a one-shot store promises, whatever files it is made of.  A name   *)
(* (a planned attempt, an authorization ID, a run identity) is committed   *)
(* to at most one claimant, for good, and is spent at most once, by the    *)
(* claimant that owns it.  Crashes, retries, reruns and overlapping        *)
(* processes are steps of an implementation that change neither.           *)
(*                                                                         *)
(* BM1Runner (its claim directory) and OneShotLedger (its records and      *)
(* indexes) implement this specification.                                  *)
(***************************************************************************)

CONSTANTS Name, Claimant, Use

VARIABLES
    owner,      \* the claimant each name is committed to: {} or a singleton
    uses        \* the uses made of each name

vars == <<owner, uses>>

Init ==
    /\ owner = [n \in Name |-> {}]
    /\ uses = [n \in Name |-> {}]

\* One synchronisation may commit the claims of several claimants.
Commit ==
    /\ owner' \in [Name -> SUBSET Claimant]
    /\ \A n \in Name : owner'[n] # owner[n] =>
           owner[n] = {} /\ \E c \in Claimant : owner'[n] = {c}
    /\ UNCHANGED uses

\* The names one claimant owns are spent, each for the first time.
Spend(c, u) ==
    /\ uses' \in [Name -> SUBSET Use]
    /\ \A n \in Name : uses'[n] # uses[n] =>
           owner[n] = {c} /\ uses[n] = {} /\ uses'[n] = {u}
    /\ UNCHANGED owner

Next == Commit \/ \E c \in Claimant, u \in Use : Spend(c, u)

Spec == Init /\ [][Next]_vars

=============================================================================
