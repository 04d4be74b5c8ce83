---------------------------- MODULE MCScheduler ----------------------------
(* Three clients: one serves both types, the others one each. *)
EXTENDS Scheduler, TLC

CONSTANTS both, customOnly, externalOnly

MCClient == {both, customOnly, externalOnly}
MCNameOf == [c \in MCClient |-> c]
MCPriority == both :> 0 @@ customOnly :> 1 @@ externalOnly :> 2
MCMetricTypes ==
    both :> {} @@ customOnly :> {"custom"} @@ externalOnly :> {"external"}
MCServerType == [c \in MCClient |-> "custom"]
=============================================================================
