----------------------------- MODULE MCRuntime ------------------------------
(* Instances of Runtime for TLC. *)
EXTENDS Runtime

\* Every combination of the flags that open something, with others beside them.
AllFeatures == {f \cup g : f \in SUBSET {"db", "cache", "session", "s3"},
                           g \in {{}, {"metrics", "authn", "tracing"}, {"permission"}, {"sharing"}}}
AllDrivers == {"", "pgx", "oracle"}
=============================================================================
