------------------------------ MODULE MCDocsSite -------------------------------
(* The pages of src/Documentation/docs. *)
EXTENDS DocsSite

DocsPages ==
  {Home}
  \cup Of("guide", {"", "deployment", "endpoints-composite", "endpoints-file",
         "endpoints-proxy", "endpoints-sql", "endpoints-webhook", "environments",
         "getting-started", "licensing", "monitoring", "rate-limiting", "routing",
         "security", "troubleshooting"})
  \cup Of("reference", {"", "app-settings", "audit", "authentication", "caching",
         "entity-config", "environment-settings", "filters", "headers",
         "health-checks", "logging", "odata", "plugins/", "plugins/exact-globe",
         "sorting-pagination", "token-generator"})
================================================================================
