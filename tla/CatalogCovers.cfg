SPECIFICATION Spec
CONSTANTS
    r1 = r1
    r2 = r2
    m1 = m1
    m2 = m2
    l1 = l1
    c1 = c1
    c2 = c2
    Dex <- MCOne
    Illustrated <- MCOne
    Manual <- MCNone
    Creators <- MCCreators
    CreatorsOf <- MCAlone
    Listings <- MCSingle
    Requests <- MCPair
    CoverLimit = 1
    MaxVersion = 2
    MaxCovers = 3
    Edits = TRUE
INVARIANTS
    TypeOK
    OvershootBounded
    
PROPERTIES
    ChangesWhole
    OlderOnlyIfOvertaken
SYMMETRY MCSymmetry
