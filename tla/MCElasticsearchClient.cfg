CONSTANTS
    f1 = f1
    f2 = f2
    alias = alias
    Name <- MCName
    Renamed = TRUE
    AliasOf <- MCAlias
    LastSet = 2
    Static <- MCStatic
    Selected <- MCSelected
    Request = {r1, r2}
    MaxPods = 2
SPECIFICATION FairSpec
INVARIANTS TypeOK SearchesCurrentMetadata AliasHasMetadata MappedCanBeAsked
    SearchesRightSet
PROPERTIES PromiseKept WriterGetsLock RequestsAnswered
