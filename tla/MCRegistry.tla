----------------------------- MODULE MCRegistry -----------------------------
(* Three metric servers, two custom metrics and an external one, one
   caller. *)
EXTENDS Registry

CONSTANTS low, mid, high

MCClient == {low, mid, high}
MCPriority == low :> 0 @@ mid :> 1 @@ high :> 2
MCMetricTypes == [c \in MCClient |-> {}]
MCServerType == [c \in MCClient |-> "custom"]

\* Every entry has its own name.
MCDistinct == [c \in MCClient |-> c]
=============================================================================
