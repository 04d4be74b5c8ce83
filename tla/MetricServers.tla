--------------------------- MODULE MetricServers ---------------------------
(***************************************************************************)
(* The configuration the adapter is started with: the entries of           *)
(* `metricServers` (pkg/config).  One metrics client is built for each     *)
(* entry (main.go, newMetricsClients) and keeps a copy of it, which        *)
(* GetConfiguration() returns; nothing changes it afterwards.              *)
(***************************************************************************)
EXTENDS Naturals

CONSTANTS
    Client,       \* the metrics clients, one per entry of metricServers
    Name,         \* the names an entry may carry
    NameOf,       \* NameOf[c]: MetricServer.Name
    Priority,     \* Priority[c]: MetricServer.Priority
    MetricTypes,  \* MetricTypes[c]: MetricServer.MetricTypes, {} when omitted
    ServerType    \* ServerType[c]: MetricServer.ServerType

MetricType == {"custom", "external"}

ASSUME NameAssumption == NameOf \in [Client -> Name]

(***************************************************************************)
(* From() numbers the entries by their position in the file, so that two   *)
(* entries never share a priority.                                         *)
(***************************************************************************)
ASSUME PriorityAssumption ==
    /\ Priority \in [Client -> Nat]
    /\ \A c, d \in Client : Priority[c] = Priority[d] => c = d

ASSUME MetricTypesAssumption == MetricTypes \in [Client -> SUBSET MetricType]

\* validate() refuses any other server type.
ASSUME ServerTypeAssumption ==
    ServerType \in [Client -> {"elasticsearch", "custom"}]

\* Nothing in validate() asks for this: the modules that need it say so.
DistinctNames == \A c, d \in Client : NameOf[c] = NameOf[d] => c = d

\* An omitted or empty list of metric types stands for all of them.
HasType(c, type) == MetricTypes[c] = {} \/ type \in MetricTypes[c]
=============================================================================
