----------------------------- MODULE MCTokenStore -----------------------------
(* Small instances of TokenStoreChecks: two endpoints and one environment. *)
EXTENDS TokenStoreChecks, TLC

MCScopeSets == {{}, {"Products"}}
MCAllScopes == {"Products"}
MCEnvironmentSets == {{"600"}}
MCAllEnvironments == {"600"}
Symmetry == Permutations(Admins)
================================================================================
