---------------------------- MODULE MCPipeline -----------------------------
(* Constants for model checking EvidencePipeline. *)
EXTENDS EvidencePipeline, TLC

CONSTANTS p1, p2, t1, t2, t3

\* Two threads in a service that signs, one in a service that does not.
MCHome == t1 :> p1 @@ t2 :> p1 @@ t3 :> p2
MCModes == p1 :> {"sign", "dual"} @@ p2 :> {"verify-only", "disabled"}
=============================================================================
