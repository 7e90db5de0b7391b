SPECIFICATION Spec
CONSTANTS
    r1 = r1
    r2 = r2
    list = list
    volumes = volumes
    moreVolumes = moreVolumes
    Requests <- MCRequests
    Pages <- MCPages
    PathOf <- MCPathOf
    Search = "/mangas"
    MaxEntries = 2
    MaxBytes = 4
    EntryLimit = 3
    Lengths = {1, 3, 4}
    Ttl = 1
    PopularTtl = 2
    Popular <- MCPopular
    MaxEdits = 2
INVARIANTS
    TypeOK
    WithinBudget
    EditsShow
SYMMETRY MCSymmetry
