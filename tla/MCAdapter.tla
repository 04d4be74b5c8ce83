----------------------------- MODULE MCAdapter -----------------------------
(***************************************************************************)
(* Two metric servers: an Elasticsearch cluster and an existing metrics    *)
(* adapter of higher priority.  Each cfg says which of them there are, and *)
(* which of them rename their metrics.                                     *)
(***************************************************************************)
EXTENDS Adapter, TLC

CONSTANTS third, es

MCClient == {third, es}
MCNameOf == [c \in Client |-> c]
MCPriority == [c \in Client |-> IF c = third THEN 1 ELSE 0]
MCServerType == [c \in Client |-> IF c = es THEN "elasticsearch" ELSE "custom"]

\* Both types, as when metricTypes is omitted.
MCMetricTypes == [c \in Client |-> {}]

\* With requests: only Elasticsearch is asked for both types.
MCThirdCustomOnly == [c \in Client |-> IF c = es THEN {} ELSE {"custom"}]

\* The custom metrics are static fields of the Elasticsearch cluster.
MCStaticFields == [c \in Client |-> IF c = es THEN CustomMetric ELSE {}]
MCNoStaticFields == [c \in Client |-> {}]

\* For the liveness properties: the existing adapter alone.
MCThirdAlone == {third}
=============================================================================
