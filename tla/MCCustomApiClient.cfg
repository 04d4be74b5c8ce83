CONSTANTS
    m1 = m1
    m2 = m2
    pods = pods
    services = services
    Name <- MCName
    Resource = {pods, services}
    Listable <- MCListable
    Renamed = TRUE
    AliasOf <- MCAlias
    ExternalName = {m1}
    Request = {r1, r2}
    ExternalRequest = {e1}
    Nobody = Nobody
SPECIFICATION FairSpec
INVARIANTS TypeOK AsksWhatIsListed
PROPERTIES PromiseKept RefreshCompletes RequestsAnswered
