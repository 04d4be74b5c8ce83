CONSTANTS
    third = third
    es = es
    Client <- MCClient
    Name <- MCClient
    NameOf <- MCNameOf
    Priority <- MCPriority
    MetricTypes <- MCMetricTypes
    ServerType <- MCServerType
    CustomMetric = {m1}
    ExternalMetric = {e1}
    Request = {r1}
    Renames = {third}
    StaticFields <- MCNoStaticFields
    ConfiguredThreshold = 1
SPECIFICATION Spec
INVARIANT ExternalRequestsNeverPanic
