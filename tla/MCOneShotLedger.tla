-------------------------- MODULE MCOneShotLedger --------------------------
(* Instances of OneShotLedger for TLC. *)
EXTENDS OneShotLedger

CONSTANTS j1, j2, j3

ThreeJobs == {j1, j2, j3}
TwoJobs == {j1, j2}

\* Every way in which jobs can share identities: the values are interchangeable,
\* so those of j1 are called 1.
SharedApprovals ==
    {a \in [Job -> [IndexKind -> Identity]] : \A k \in IndexKind : a[j1][k] = 1}

\* The same up to an exchange of j2 and j3, which nothing tells apart.
Rank(identities) == 2 * identities["authorization"] + identities["run"]
OrderedApprovals == {a \in SharedApprovals : Rank(a[j2]) <= Rank(a[j3])}

=============================================================================
