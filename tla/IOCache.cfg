CONSTANTS
    v1 = v1
    v2 = v2
    h1 = h1
    h2 = h2
    NoHandler = NoHandler
    VCPUs = {v1, v2}
    Addrs <- MCAddrs
    Regions <- MCRegions
    MaxExits = 3
SPECIFICATION Spec
INVARIANTS
    TypeOK
    LookupResolves
    HitsNeverOvercount
