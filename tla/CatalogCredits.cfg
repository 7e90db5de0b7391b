SPECIFICATION FairSpec
CONSTANTS
    r1 = r1
    r2 = r2
    m1 = m1
    m2 = m2
    l1 = l1
    c1 = c1
    c2 = c2
    Dex <- MCBoth
    Illustrated <- MCNone
    Manual <- MCLocal
    Creators <- MCCreators
    CreatorsOf <- MCCrossed
    Listings <- MCSearch
    Requests <- MCPair
    CoverLimit = 1
    MaxVersion = 1
    MaxCovers = 0
    Edits = FALSE
PROPERTIES
    RequestsEnd
