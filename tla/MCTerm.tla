------------------------------- MODULE MCTerm -------------------------------
(* Term for TLC: one task spawned with one term, one with two (spawn2).    *)
EXTENDS Term, TLC

CONSTANTS t1, t2, k1, k2

MCOf == (k1 :> {t1}) @@ (k2 :> {t1, t2})
=============================================================================
