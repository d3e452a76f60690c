CONSTANTS
    Procs = {p1, p2}
    Null = Null
    Window = 4
    MaxPending = 3
    MaxExtra = 5
SPECIFICATION Spec
INVARIANTS
    TypeOK
    CpuWindow
    ProcWindow
    SelectedIsShown
