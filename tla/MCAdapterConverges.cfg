CONSTANTS
    third = third
    es = es
    Client <- MCThirdAlone
    Name <- MCClient
    NameOf <- MCNameOf
    Priority <- MCPriority
    MetricTypes <- MCMetricTypes
    ServerType <- MCServerType
    CustomMetric = {m1, m2}
    ExternalMetric = {e1}
    Request = {}
    Renames = {third}
    StaticFields <- MCNoStaticFields
    ConfiguredThreshold = 2
SPECIFICATION FairSpec
PROPERTIES DetectsFailure Recovers Converges
