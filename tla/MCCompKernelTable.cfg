CONSTANTS
    a = a
    b = b
    c = c
    Paths <- MCPaths
    Contents <- MCContents
    Original = a
    MaxEdits = 0
SPECIFICATION Spec
INVARIANT TableIsPrinted
