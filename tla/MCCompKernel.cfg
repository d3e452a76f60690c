CONSTANTS
    a = a
    b = b
    c = c
    Paths <- MCPaths
    Contents <- MCContents
    Original = a
    MaxEdits = 1
SYMMETRY OtherContents
SPECIFICATION Spec
INVARIANTS
    TypeOK
    MoltCoversChange
    ReportedExactly
