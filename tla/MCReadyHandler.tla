--------------------------- MODULE MCReadyHandler ---------------------------
(* Two metric servers, one of both types, and one probe after another. *)
EXTENDS ReadyHandler, TLC

CONSTANTS both, customOnly

MCClient == {both, customOnly}
MCNameOf == [c \in MCClient |-> c]
MCPriority == both :> 0 @@ customOnly :> 1
MCMetricTypes == both :> {} @@ customOnly :> {"custom"}
MCServerType == [c \in MCClient |-> "custom"]
=============================================================================
