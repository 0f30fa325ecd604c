------------------------------ MODULE MCBudget ------------------------------
(* Small instances of Budget: one tenant with a cap of its own, one without. *)
EXTENDS Budget, TLC

CONSTANTS t1, t2

MCTenants == {t1, t2}
MCCapped == {t1}
MCTenantCap == t1 :> 2

Symmetric == Permutations(Callers)
=============================================================================
