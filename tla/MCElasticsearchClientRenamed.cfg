CONSTANTS
    f1 = f1
    f2 = f2
    alias = alias
    Name <- MCName
    Renamed = TRUE
    AliasOf <- MCAlias
    LastSet = 2
    Static <- MCStatic
    Selected <- MCSelected
    Request = {r1}
    MaxPods = 2
SPECIFICATION Spec
INVARIANT ListedCanBeAsked
