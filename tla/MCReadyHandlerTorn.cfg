CONSTANTS
    both = both
    customOnly = customOnly
    Client <- MCClient
    Name <- MCClient
    NameOf <- MCNameOf
    Priority <- MCPriority
    MetricTypes <- MCMetricTypes
    ServerType <- MCServerType
    ConfiguredThreshold = 2
SPECIFICATION HandlerSpec
INVARIANT ReadyShowsNoFailing
\* The runtime may end the process: nothing follows.
CHECK_DEADLOCK FALSE
