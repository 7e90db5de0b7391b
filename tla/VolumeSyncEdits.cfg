SPECIFICATION Spec
CONSTANTS
    s1 = s1
    s2 = s2
    e1 = e1
    Rows = {1, 2, 3}
    Covers = {1, 2}
    Keys = {1}
    Readers <- MCTwoReaders
    Editors <- MCOneEditor
    Renumbers = FALSE
    Unlists = TRUE
    Duplicates = TRUE
    MaxUpstream = 1
    MaxEdits = 1
    EditorsLeave = TRUE
INVARIANTS
    TypeOK
    Deduplicated
PROPERTIES
    HandmadeStays
SYMMETRY MCReaderSymmetry
