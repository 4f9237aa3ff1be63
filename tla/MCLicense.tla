------------------------------- MODULE MCLicense -------------------------------
(* A licence that expires, one that does not, and one of the community. *)
EXTENDS License

MCKeyFiles == <<".license", "my.license">>
MCLicenceOf ==
  [k \in Keys |-> CASE k = "yearly"    -> [tier |-> "professional", expires |-> 2]
                    [] k = "perpetual" -> [tier |-> "professional", expires |-> Never]
                    [] k = "community" -> [tier |-> "community", expires |-> Never]]
================================================================================
