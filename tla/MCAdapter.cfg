CONSTANTS
    third = third
    es = es
    Client <- MCClient
    Name <- MCClient
    NameOf <- MCNameOf
    Priority <- MCPriority
    MetricTypes <- MCThirdCustomOnly
    ServerType <- MCServerType
    CustomMetric = {m1}
    ExternalMetric = {e1}
    Request = {r1}
    Renames = {third, es}
    StaticFields <- MCStaticFields
    ConfiguredThreshold = 1
SPECIFICATION Spec
INVARIANTS TypeOK RequestsReachAServer RegistryMatchesClients ServingMeansRetrieved
PROPERTIES LookupNotWorseThanKnown RefusedOnlyWhenGone
