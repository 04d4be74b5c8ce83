CONSTANTS
    low = low
    mid = mid
    high = high
    Client <- MCClient
    Name <- MCClient
    NameOf <- MCDistinct
    Priority <- MCPriority
    MetricTypes <- MCMetricTypes
    ServerType <- MCServerType
    CustomMetric = {m1, m2}
    ExternalMetric = {e1}
    Reader = {r1}
SPECIFICATION Spec
INVARIANTS TypeOK ListsWellFormed NeverWithoutBackend
PROPERTIES PromiseKept OperationsKept
