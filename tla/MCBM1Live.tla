----------------------------- MODULE MCBM1Live -----------------------------
(* An instance of BM1Live for TLC: one process. *)
EXTENDS BM1Live, TLC

CONSTANTS p1

OneProcess == {p1}

Credential(key, attested, competing) ==
    [key |-> key, attested |-> attested, competing |-> competing]
MCCredentials == {Credential("k1", TRUE, FALSE), Credential("k2", TRUE, FALSE),
                  Credential("k2", FALSE, FALSE), Credential("k1", TRUE, TRUE)}

\* Three attempts: only two of them fit; the frozen ratio of worst-case prices
\* with the ceiling exactly reached.
MixedPlans == {<<4, 4, 4>>, <<2, 4, 4>>}

=============================================================================
