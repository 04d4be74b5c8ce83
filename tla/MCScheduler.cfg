CONSTANTS
    both = both
    customOnly = customOnly
    externalOnly = externalOnly
    Client <- MCClient
    Name <- MCClient
    NameOf <- MCNameOf
    Priority <- MCPriority
    MetricTypes <- MCMetricTypes
    ServerType <- MCServerType
SPECIFICATION FairSpec
INVARIANTS TypeOK WaitGroupExact ServingAfterSync
PROPERTIES KeepsRefreshing EventuallyServing
