CONSTANTS
    both = both
    customOnly = customOnly
    Client <- MCClient
    Name <- MCClient
    NameOf <- MCNameOf
    Priority <- MCPriority
    MetricTypes <- MCMetricTypes
    ServerType <- MCServerType
    ConfiguredThreshold = 0
SPECIFICATION HandlerSpec
INVARIANTS TypeOK ReadyMatchesHistory ReadyShowsNoMissing
\* The runtime may end the process: nothing follows.
CHECK_DEADLOCK FALSE
