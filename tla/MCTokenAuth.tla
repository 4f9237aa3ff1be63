------------------------------ MODULE MCTokenAuth ------------------------------
(* Small instances of TokenAuthChecks: the environments of tokens are fixed. *)
EXTENDS TokenAuthChecks, TLC

MCScopeSets == SUBSET Endpoints
MCEnvironmentSets == {{"600"}}
MCAllScopes == Endpoints
MCAllEnvironments == {"600"}
================================================================================
