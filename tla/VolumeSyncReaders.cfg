SPECIFICATION FairSpec
CONSTANTS
    s1 = s1
    s2 = s2
    e1 = e1
    Rows = {1, 2, 3}
    Covers = {1, 2}
    Keys = {1, 2}
    Readers <- MCTwoReaders
    Editors <- MCNobody
    Renumbers = TRUE
    Unlists = TRUE
    Duplicates = FALSE
    MaxUpstream = 1
    MaxEdits = 0
    EditorsLeave = TRUE
PROPERTIES
    CalmRefreshMirrors
    RefreshEnds
